# cherm: specification, model checking and proofs

cherm is an end-to-end encrypted terminal messenger: a relay server
(`backend/server`) that stores and forwards ciphertext, a client core
(`backend/core`) that owns the keys and speaks to the relay, a Go terminal
interface (`tui/`) in front of the core, and crates they share (`proto`,
`crypto`, `attest`). This directory holds TLA+ modules for the parts that carry
the protocol, TLC configurations that check them on small instances, and TLAPS
proofs of the properties that matter most for every instance.

`PROJECT.json` is the index: components, runs, the source lines behind every
definition, hazards, findings and theorems. Paths below are relative to the
repository root.

## 1. The system

| part | state | operations | meets others through |
|---|---|---|---|
| relay message path (`server/src/conn.rs`, `db.rs`, `main.rs`) | outbox table; `online` map; per connection a reader task, a writer task and a bounded channel | login and registration (publish presence, flush the backlog), `Send`, `Pull`, cleanup, hourly pruner, maintenance stop, restart | database mutex, online mutex, other connections' channels |
| relay directory (`conn.rs`, `db.rs`, `config.rs`) | users and prekeys tables; per connection identity, pending challenge, build hash | `Register`, `AuthBegin`, `AuthFinish`, `ClientHello`, `PublishPrekeys`, `FetchPrekeys` | database mutex; gives the message path its identities |
| relay rate limits (`conn.rs`) | a token bucket per connection; a capped map of buckets per fetched user | `allow`, `fetch_allowed` | called by every connection under one mutex |
| relay admission (`main.rs`) | a semaphore, a per-IP counter | accept, guard drop | wraps the connection tasks |
| client control link (`core/src/net.rs`) | control lock, one pending slot, the reader, the processor's queue | `send_and_wait`, `send`, reader, teardown | used by the command loop and by the processor |
| client message processing (`net.rs`, `vault.rs`) | Olm and Megolm sessions, rosters, bans, suspensions, replay marks in an encrypted SQLite vault | one handler per kind of delivered frame | shares the vault, and nothing longer than one vault call, with the command loop |
| client group access (`session.rs`, `net.rs`) | the owner's groups row, join requests | join, admit, remove, ban, suspend, rekey | broadcasts events that members process |
| client session and server index (`session.rs`, `main.rs`, `ipc.rs`) | known servers, live links, the active one | connect, register, switch, remove, leave | starts and aborts links |
| attestation (`attest/`, `server/src/attest.rs`, `core/src/attest_client.rs`) | nonce, evidence, certificate chain | a verdict on the server's build | shown by the interface |
| plugins and updates (`core/src/plugins.rs`, `update.rs`) | installed and active plugins | install, activate, remove, update | files |
| terminal interface (`tui/`) | screens, maintenance countdown, reconnect timer | key presses and core events | JSON lines to the core |

What is hard here. On the relay: two tasks per connection and senders that
push into each other's bounded channels; a backlog that is read, handed over and
deleted in three separate critical sections; two logins of one user; a process
that stops with frames in memory. On the client: replies without request ids, a
reader that must never wait for what only it can deliver, and handlers made of
many short vault calls between which the other task works on the same rows: it
deletes the chat, bans the user who is being admitted, or advances the ratchet
whose pickle was just loaded. A command changes several files without a
transaction, and the server may have acted on a request whose answer never
came. On the wire: the relay is not trusted to deliver once or in order.

What makes the parts correct:

- message path: presence follows the newest login; no accepted frame vanishes
  unaccounted for; frames reach only their addressee, at most once per
  connection, out of order only where live delivery overtakes the backlog; the
  queue respects its row, byte and age limits; nobody waits for ever;
- directory: only a key's holder speaks for a user; a challenge judges once; one
  key, one name; a one-time key is handed out once;
- rate limits: the fetches granted in any stretch of time are bounded;
- control link: a waiting caller can be reached, gets somebody else's answer
  only for known reasons, and always returns; the reader never blocks;
- group member: frames are applied in order and once; who was banned or
  suspended stays unreadable; the recorded owner cannot be replaced; the
  sessions a group keeps belong to it;
- group owner: whoever is barred is off the roster; whoever was expelled cannot
  read what the owner sends from then on; every member can;
- pairwise sessions: a message key and a one-time key serve once, a session is
  with the pinned identity, a message that cannot be read has a known cause;
- servers and identities: the index, the vaults, the backups, the registry and
  the links speak of the same identity, and a registered name is not lost.

## 2. The modules

### Relay (with MCRelay, RelayProofs)

One action per critical section of the code. The reader task of a connection is
`pc[c]`: "read" waits for a message; "publish", "greet", "fetch", "flush",
"delete" are the steps of a login and of `flush_outbox`; "route", "push",
"enqueue" are one recipient of a `Send`; "drain" is the cleanup's wait for the
writer. The writer task is `alive[c]` and `chan[c]`: `Write` hands the head of
the channel to the socket and `WriterFail` is a write error or `WRITE_TIMEOUT`,
after which everything in the channel is gone. `Route` clones the recipient's
sender under the online lock; `Push` uses it after the lock is released, when
the recipient may have gone; `Enqueue` is `enqueue_if_under_cap` under the
database lock. `Hangup` and `Close` are the cleanup, with the `same_channel`
comparison. `Prune` is the hourly delete, `Maintenance` and `MaintenanceExit`
the SIGUSR1 window, `Crash` and `Start` an exit of the process and its restart
on the same database. `accepted`, `queued`, `lost`, `got` and `latest` are
history variables no guard reads. A message is its sender's connection, its
number, its length and its time. A length is two numbers, characters and bytes:
the byte quota adds what SQL's `length()` counts of the rows that are queued,
which is characters, to the bytes of the new frame (`Total`, `UnderCap`).

### Directory, Accounts (with MCDirectory, DirectoryProofs)

`Directory` has the accounts, challenges and prekeys. Each handler works inside
one critical section and is one action. Signatures are ideal: `Sign` lets the
client of a connection sign a challenge that connection was sent, and
`AuthFinish` may be given any signature ever made, or a bad one. `Accounts` says
what the message path assumes of identities (Relay's Register and Login are its
actions): registered once and for ever, and a connection is nobody until it
becomes one user, which it stays. `ImplementsAccounts` is the refinement, users
being the names with a key in the table.

### FetchGate (with MCFetchGate, FetchGateProofs)

The token bucket and the capped map. Tokens are counted in a unit of which one
fetch costs `Cost`, so that the fractional refill of the code is a whole number.
Floating-point rounding is not modelled.

### ControlLink (with MCControlLink, ControlLinkProofs)

The two callers, the control lock as a queue (tokio's mutex is fair), the
pending slot, the oneshots, the reader, the processor's bounded queue, teardown.
The relay is external: it answers in order, or not at all.

### GroupMember (with MCGroupMember, GroupMemberProofs)

One client as a plain member of one group. The variables are the vault tables.
The processor (`proc`) handles a frame in steps separated where another task can
be seen: around every vault call that changes or decides something. Between any
two of them `LeaveDelete` (the user's `leave_chat`, on the command loop) or
`Restart` (the process ends) may come; `DeleteCut` is an end of the process
inside `delete_chat`, after any number of its statements. Consecutive vault calls
share a step only where a `delete_chat` between them has the effect of one before
or after.
A key share says whether its sender claims to be the owner (`claimed`) and whether
it carries a group key that can be recorded (`keyed`): without one the chat, its
roster and a session are made and no `groups` row, the recorded `owner` stays
`Nobody`, and the next start gives the group a row with an empty owner (`Unknown`).
`Open` is `load_group_in` and decrypt, `Accept` is `megolm_accept`, `SaveSession`
writes back the session read by `Open`, and the `Apply...` actions are the effects
of each kind of frame. A Megolm key exported at an index reads from that index
on. With `Faithful = FALSE` the relay delivers Megolm frames in any order and any
number of times; Olm messages are decrypted at most once. With `Faithful = TRUE`
it delivers once, and only a live frame overtakes a queued one: the guarantee
`Relay!InversionOnlyLiveOverQueued`, which is how the two modules meet.

### GroupOwner (with MCGroupOwner, GroupOwnerProofs)

The other end of the same group: the owner's client. Its variables are the
vault's `groups`, `chat_members`, `group_bans`, `group_suspensions`,
`group_join_requests` and `group_out` rows, the step each of the two tasks is at
(`task`), and what every user was ever given (`held`, `latest`). The commands
`InviteMember`, `AcceptMember`, `RemoveMember`, `BanMember`, `SuspendMember`,
`SetAccess`, `SendText` and the rest start a handler of the command loop;
`Join` and `Left` start one of the processor. Both tasks run `admit_member`
(`Add`, `Load`, `Share`, then the announcement) and
`broadcast_group_event` (`Encrypt` loads the outbound session, `Save` stores the
copy). `Moderate` announces, then `Drop`, `Mint` and `Members` are the removal
and `rekey_group`. A user for whom there is no pairwise session is passed over
(`Skip`), a fetch may end the whole distribution (`ShareFails`), a dead link ends
the handler after the save (`SaveUnsent`), and the process may end between any two
steps (`Restart`). A join request is judged at the time its sender wrote into
it, as in the code. Sessions are numbers: what a frame says and the
index within a session decide nothing here. The history variables `excused`,
`behind` and `reverted` name the causes up to which the properties hold; each
is set only by the step that is the cause, and a rotation clears the last two.

### App (with MCApp, AppProofs)

The client process around its connections: `servers.json` (`file`), one vault
per server with a name and an account, the identity backups, and in memory the
index, the open vaults, the active server and the link of each server. A command
is `cmd` and the list `todo` of the writes it has still to make, in the code's
order; `Write`, `WriteFails` and `Crash` happen at each of them. `Crash` may tear
the file in hand: `fs::write` and `write_secret_file` truncate it in place. `Register`, `Connect`, `SwitchServer`, `CheckServer`, `RemoveServer`,
`ExportIdentity`, `ImportIdentity` and `Quit` are the commands. `Open` tears the
old link down and makes the request; `Serve` is the relay, which answers in its
own time, also when nobody waits any more; `Accepted`, `Refused`, `Unexpected`,
`GiveUp` and `Closed` are the five ways out of the wait. `GiveUp` leaves the
reader running, as the code does. `Start` reads the files back. The registry is
external and follows `Directory`: one key for a name, one name for a key.

### Olm (with MCOlm, OlmProofs)

Two clients and the pairwise session between them. `row`, `otks`, `pin` and
`chat` are the vault's `olm_sessions`, account, `contacts` and `chats`. Every
handler that advances a ratchet loads the row in one step and saves its copy in a
later one, and both tasks do so: `Begin` and `SaveSend` for `start_dm`, `send`,
key shares, join requests, denials and the leave notice, with `Fetch` and
`PinContact` between them where there is no session; `Receive`, `FetchSender`,
`CreateInbound`, `SaveAccount` and `Deliver` for a delivered frame; `Replenish`,
`SaveKeys` and `PublishKeys` for `connect`'s one-time keys. A session is named
by the one-time key that made it, a ratchet is what was sent and what was
received, and a frame is a prekey message until its sender has received
something. `Fetch` and `FetchSender` are answers that name the user who was asked
for, with the right identity or another. `FetchStray` is an answer under another
name, which is what a late answer to an earlier request looks like, or a lie:
the code checks and pins it under the name it carries and saves the session under
the name that was asked for, a session with a `Stranger`. Where that fails, it is
`FetchFails`. `Crash` and `Redeliver` are the end of a process and a frame the relay
delivers again. `overtaken` records that a save went over what the other task had
written in between, `raced` that a task accepted an identity while the other
pinned a different one.

## 3. Runs

| run | checks | shows | states, time |
|---|---|---|---|
| RelayRoute | PresenceIsOwn, NewestLoginReachable, NoFrameVanishes, StreamSound | routing under every interleaving of three connections of two users | 1.93 M, 107 s |
| RelayRestart | TypeOK, QueueDrainable, RowQuota, NoDuplicateOnConnection, QueueLifetime, RowsLeaveProperly | registration, repeated recipients, quotas, pruner, stop, crash, a row of an older build | 700 k, 33 s |
| RelayLive | ByteQuota, FlushEnds, CleanupEnds, SendEnds | nothing waits for ever; the byte quota next to a row that is queued already | 198 k, 163 s |
| Directory | TypeOK, SpeaksForKeyHolder, OneTime, IdentityImmutable, ImplementsAccounts | accounts, login, prekeys; refinement of Accounts | 410 k, 26 s |
| GateRate | RateBounded | the rate of fetches, with the map past its cap | 60 k, 3 s |
| Link | Replies, RequestEnds, ReaderNeverBlocks | the control link | 131 k, 17 s |
| LinkLate | LateReplyNotMisrouted: violated | see section 6 | |
| Group | TypeOK, AppliedInOrder, ModeratedSilent, SessionsOfMembers, OwnerPinned | a member under a replaying, reordering relay, with leaving and restarts | 2.37 M, 96 s |
| Owner | TypeOK, BarredOffRoster, ExpelledLockedOut, MembersKeyed | the owner's commands against join requests and leave notices, with faults | 4.16 M, 113 s |
| App | IndexBacked, IdentityWhole, Connections, RecoverableUnlessFault | commands on two servers, lost and late answers, failed and torn writes, crashes | 1.29 M, 51 s |
| Dm | TypeOK, KeyOnce, SessionPinned, RefusalHasCause | two clients, two tasks each, one session between them | 2.00 M, 83 s |
| DmGlare | GlareHeals: violated | see section 6 | |

Five properties are conjunctions of named parts, each part defined and explained
where it is stated: `StreamSound` (DeliveredToAddressee,
InversionOnlyLiveOverQueued), `OneTime` (OneNamePerKey, ChallengeUsedOnce,
OneTimeKeyOnce, UnusedBounded), `Replies` (ControlLink's TypeOK, WaiterInSlot,
WrongReplyHasCause), `Connections` (App's TypeOK, LinkAuthenticated,
NoStrayReader) and `KeyOnce` (KeyPerMessage, ReadOnce, PublishedHeld).

Bounds, all named in the modules, and why they suffice:

- Relay: a channel of one frame (`Cap = 1`, which counts the frame in the
  writer's hands) makes every push meet a full channel; three connections of two
  users give two logins of the recipient next to a sender, so that an old
  connection's cleanup meets a new login. Two sends are the least that can be
  reordered. `RelayRestart` uses one row and two bytes of quota with frames of one byte
  and of three, a TTL shorter than the pruner's period, and a clock that passes
  both. `RelayLive` has a row of one character and two bytes queued and three bytes
  of quota: another such frame is taken, and the queue takes more bytes than the
  quota; a frame of three characters is refused. Connections are interchangeable
  (symmetry) in the two runs without liveness.
- Directory: two key holders, a reserved name, a build that is refused, two
  challenges (an old one and a current one), a batch that repeats a key id, both
  batches published again and again, and a cap of two with three key ids.
- FetchGate: a refill of two thirds of a token per unit and a map cap of one
  with two targets, so that the prune is attempted.
- ControlLink: two calls, one Send, two pushed frames, a queue of one.
- GroupMember: an owner and one other peer, in either role (symmetry), four
  frames and two sessions a peer: enough to share, ban, rekey and share again,
  or to leave, join again and be given an old frame. One unit of time is enough
  for a suspension to begin and to end.
- GroupOwner: two users (symmetry), so that one is moderated while the other, or
  the same one, asks to join; two commands and two frames put a rotation between
  a load and a save of the other task and an admission inside a moderation; one
  fault; one unit of time, with `Skew = 0` (requests arrive late, never from the
  future).
- App: two servers, two names and three keys, one of them an identity made
  elsewhere whose backup the user has; four commands reach register, remove,
  import and connect in a row; two faults reach a lost answer followed by a
  failed or torn write. Connections, and the keys this machine makes, are
  interchangeable (symmetry).
- Olm: one published key each, four operations among the two clients and one
  fault, wrong identity or answer under another name; DmGlare needs none of these.

`CHECK_DEADLOCK FALSE` is set throughout: connections close, clients stop
talking and the bounded commands of the environment run out, all of which is
proper.

### Fairness

- `HandlerFairness`, `WF(Reader)`, `CallerFairness`: tokio polls every task that
  can go on, so a step whose condition stays true is taken.
- `WriterFairness`: the writer wraps each write in `WRITE_TIMEOUT`, so that a
  frame at the head of the channel is written or the writer gives up. It is a
  premise of `FlushEnds` and `CleanupEnds` only: `SendEnds` is claimed with
  sockets that never make progress.
- `CallerFairness` includes the timer of `REQUEST_TIMEOUT`. Nothing is assumed of
  the relay. `ReaderNeverBlocks` assumes only that the reader itself is run.

## 4. Proofs

All theorems hold for every value of the constants that satisfies the named
ASSUMEs (`RelayConstants`, `FrameConstants`, `DirectoryConstants`,
`GateConstants`, `LinkConstants`, `GroupConstants`, `OwnerConstants`,
`AppConstants`, `OlmConstants`), which say what sets the constants range over
and that the placeholders are distinct from the values.

**RelayProofs.** `TypeInv` adds to TypeOK what the locals of a `Send` are at each
label. `PresenceInv` is the two presence properties and that a user's latest
login was accepted. `NoFrameVanishes` needs `FlowInv`: outbox ids are unique and
below the counter (`IdsUnique`), a cloned sender belongs to the recipient being
routed (`TargetOwn`), and an id a flush will delete names a row whose frame has
been handed over or is accounted for, even if another flush or the pruner
removed the row meanwhile (`FlushLocals`): without uniqueness of ids a flush
could delete a later row under a reused id. `RowsLeaveProperly` follows from the
types alone. `QueueLifetime` needs that a `Send` in progress carries the current
time (`FreshStamp`). `RowQuota` needs the outbox to be finite.
`ByteQuota` speaks of both counts: the characters queued stay within the cap,
because no frame has more characters than bytes, and the bytes within four times
the cap, because UTF-8 needs four for a character at most. It needs what `MapThenSumSet` computes: the fold over the
subsets of a finite set exists and is unique (`SumsExist`, `SumsUnique`), any
member may be taken first (`SumAny`), and fewer rows have no greater length
(`SumMono`). These are inductions over data without an induction theorem: a
counterexample with the fewest members is refuted (`Smallest`, from `WFMin`, which
takes no operator).
`NoDuplicateOnConnection` and `StreamSound` rest on `StreamInv`, which follows a
frame from its sender to the socket. While it is routed it is its connection's
newest and no recipient is served twice (`RoutingInv`); so a recipient has one row
of it at most and a sender's rows are in its order (`RowOrder`). A flush leaves no
queued row of its user behind one it still has to send (`FlushOrder`), and once a
queued frame is on a connection, every row that had to go before it, itself
included, was handed over (`Behind`): this is where deleting what was sent before
the next fetch matters. Every two frames of the stream are then different and in
order, or excused (`StreamsFine`).

**DirectoryProofs.** `SpeaksForKeyHolder` is inductive with: every challenge
belongs to one connection, a signature over it was made by that connection's
client, signatures are over challenges already drawn, and an unregistered name
has no founder (`AuthInv`). `OneTime` needs `OnceInv`: a
challenge is pending at one connection at most and has judged nothing while it is,
a user's key id has one row and a key given out has a row marked used, and the
rows are finite, which the cap is counted over. The refinement of `Accounts` is
one step per action: a registration, a login and the end of connections map to the
abstract ones, everything else to a stutter.

**FetchGateProofs.** `RateBounded` speaks of grants made; it is inductive with
`Reserve`: the tokens left, spent at once, would still respect the bound from
every earlier grant on. `RateInv` also records that a bucket in the map is never
full: the prune never drops one, so no target gets a new, full bucket early. The
nonlinear steps rest on two small lemmas about products.

**GroupMemberProofs.** `Types` adds to TypeOK which frames reach which step.
`ModeratedSilent` is inductive with `Screened` (whoever's session is about to be
written was found unmoderated, and only this same task records bans) and
`Forgotten` (the session is gone before the ban is recorded). That order is what
makes the property survive an exit between any two vault calls; inside
`delete_chat` it survives because the sessions go before the bans. `OwnerPinned`
needs that an owner's share on its way to the groups row comes from the recorded
owner or meets no record (`OwnerInv`). `AppliedInOrder` needs that everything
applied lies at or below the replay mark, and that a frame accepted and not yet
applied lies on it, above everything applied (`GuardInv`). `SessionsOfMembers`
needs to know of a handler in progress what it has already checked: `MemberInv`
says, of each step of a key share and of a Megolm frame, that the group is either
gone with all its rows or alive with sessions of nobody but its own (`Settled`:
its members, those whose leaving was recorded, and the one peer whose share made
it, who is its recorded owner or would be had its group key been usable),
except while the owner's first share builds it (`ShareStage`), and that a frame in
hand was read with a session the group keeps (`MegolmStage`).

**ControlLinkProofs.** `Replies` is inductive with: the lock's queue and the two
callers' states tell the same story (`Lock`); the relay is asked once per request
and answers it at most once (`Once`); and `Core`. There, `Past` says that nothing
on the wire is ahead of the calls, `SlotTop` that the slot's oneshot is behind
nothing on the wire and belongs to the lock's holder once it has armed it,
`Unresolved` that a call that has not sent has not got its own answer,
`ClosedEnds` that a dropped oneshot means an ended reader, and `Expected` that
what is on the wire is awaited or has a cause. A timeout is what breaks the last,
which is how a late answer meets the next caller.

**GroupOwnerProofs.** `Types` says which job fields each step of a task has, and
`Fresh` that every session in use is below the one `Mint` draws next. The three
properties need different strengthenings. `ExpelledLockedOut` (`EInv`): nobody
dropped is a member (`Gone`), nobody dropped is about to be given a session unless
excused (`Apart`), and an admission that meets its user's moderation excuses it
(`Met`). `MembersKeyed` (`KInv`): a member without the current session is about
to be given it by a handler under way (`Due`), or is a case the history records.
`BarredOffRoster` (`BInv`): a suspension whose row is gone before its time, an
admission of somebody barred, and a row about to be cleared too early all belong
to excused users, the first and the last where clocks agree (`Skew = 0`).

**AppProofs.** All four properties rest on `DInv`, which says of every stage of a
command what its remaining list of writes is (`Stage`, with one predicate for each
stage) and what they will make true: the index in memory never names an identity
its vault lacks (`MemoryBacked`), so saving it at any time keeps the file backed;
`IndexBacked` then survives a failed write or the end of the process at each of
them. `IdentityAlwaysWhole` adds that each backup and each vault, and the identity
a pending write carries, is one of the registry's (`Whole`).
`ConnectionsAlways` adds that a link in use was answered on a connection whose
identity is its vault's (`Linked`), and counts: each reader nobody owns is matched
by a fault (`StrayCounted`, by the cardinality of finite sets). `NamesRecoverable`
adds that without a fault every registered name is in a backup, in its vault, or
in a write still to be made (`Calm`).

**OlmProofs.** `Types` says what a task has in hand at each step, and `Sound`
where keys, sessions and frames come from: a key that was used, or made a session,
is one the relay cannot give again (`KeysOK`, `SessionsOK`), a frame was encrypted
by the other end and its number names it (`FramesOK`, `Distinct`). Both hold
whatever goes over what. With them `TypeCorrect` needs only a count: every message
read was sent or delivered again (`Counted`).
`SessionPinnedAlways` carries the property to the sessions in a task's hands, but
for one whose identity is still to be pinned (`PinInv`), of the clients that have
not raced. It speaks of the sessions made from an answer that names the peer: of
what an answer under another name makes, `Types` and `Sound` say that its key is a
stranger's, so that no frame of the peer's is taken for one of it.
`KeyOnceAlways` rests on `OnceInv`, for the clients no save of which went over
the other task's. `UseOK`: the row's session has used only numbers below its own,
and a session not yet saved, a private half in the account and a key just taken out
of it have not been used at all. `HeldOK`: what the relay may give, and what is
about to be published, is in the account. `ReadOK`: of a frame on the wire whose
message was read already, neither the session nor the account has what would read
it again (`Dead`), and the frame in hand, once it is opened, was not read before.
The steps that leave all of this as it was are shown to be so together (`Calm`);
the fetch, the two saves of the account, the delivery and the send have a lemma
each.

`RefusalHasCauseAlways` speaks of the runs without trouble that one side started
(`Smooth`), in which nobody holds anything but the real identities (`RealInv`).
`CarryInv` then relates both clients' sessions and all frames between them. The one
that started has its session, the other has the same one or none (`Paired`). A
frame under way was sent with the other's session; the frames to one client are in
order, after everything its own session has received, and are prekey messages as
long as it has none (`Orderly`). A new session is made only where there is none
(`Reader`), and until then the account has the private half of the key that the
other's was, or will be, started with (`Half`): this is where the order in which
`connect` saves and publishes, and `KeyOnceAlways`, are needed. Whatever arrives
can therefore be read, by the row's session (`RowReads`) or by a new one
(`InboundReads`).

Every invariant that a passing run checks is stated by a theorem. Only
model-checked are the liveness properties (`FlushEnds`, `CleanupEnds`, `SendEnds`,
`RequestEnds`, `ReaderNeverBlocks`).
Liveness stays with TLC: fairness and ENABLED are beyond the prover. No module
here uses RECURSIVE operators.

## 5. Not modelled

- SQLite errors, disk full, poisoned mutexes; wording, formatting and logging.
- Cryptography: signatures, Olm and Megolm are ideal.
- Relay: file descriptors, TLS, message size limits, requests refused before
  they change anything (they only produce an answer, `Answer`).
- GroupMember: relabelled frames (a relay that changes `msg_type`), and the value of
  the access mode.
- `AppliedInOrder` and `SessionsOfMembers` say "unless a handler was cut in two"
  (`torn`). Without that proviso they fail, and the counterexamples are real:
  `leave_chat` between `Open` and `SaveSession` leaves a session, and one
  between `ShareMembers` and `ShareMeta`, like an exit inside `delete_chat`,
  leaves a groups row, of a chat that is gone. With a groups row and no chat row, `owner_share` is false for everybody
  (`net.rs:535-542`), so the group cannot be joined again.
- GroupOwner: the owner leaving its own group, and to whom a frame is addressed
  (whoever holds the session could read it). A link that reconnects starts a new
  processor while the old one may still be inside a handler: one processor is
  modelled.
- Olm: a relay that gives the peer's own keys under another name (the session
  would be with the peer, and its identity pinned under that name), and the
  contacts of those other names; the DH steps of a ratchet, the limit on skipped message keys and on
  one-time keys in an account; a bundle's signing and agreement keys are one
  identity; `connect` ignores a relay that refuses a batch of one-time keys
  (`session.rs:578`).
- App: the creation of `master.key`, the names and cached verdicts of servers,
  and commands that change nothing.
- Relay admission: a semaphore and a counter, each given back by a guard's drop.
- Attestation is a decision without state of its own, the plugin manager a
  sequence of file operations by one task, the terminal interface a program in
  Go that shows what the core reports: see section 7.
- The other components listed as `not_modelled` in `PROJECT.json`: rendering,
  the framing of messages, the cryptographic wrappers (ideal, as above) and the
  web site.

## 6. Where the code and its comments disagree

Two are runs:

1. `core/src/net.rs:111-112`: "so a late reply can't be mis-routed to the NEXT
   requester". It is, since the slot then holds the next requester (run LinkLate).
2. `net.rs:424-427`: a prekey message that the stored session cannot read may be
   "Olm glare": "fall through and establish a fresh inbound session instead". Both
   sides do so, each keeps the session the other has just dropped, and what
   either sends from then on is refused at `net.rs:428` (run DmGlare).

Others are stated in the modules, next to the property that does hold, and are
not runs of their own:

- `Relay!DeadWriterLosesNoQueuedFrame`. `conn.rs:284-286`: "so a dead writer does
  not cause silent message loss". Rows are deleted once the channel took them; a
  writer that dies later loses them (`NoFrameVanishes` holds).
- `Relay!ByteBudgetHolds`. `server/src/db.rs:236-238`: "Total bytes of queued frames
  for a recipient", "the real per-recipient storage cap". The sum is one of
  characters (`db.rs:241`), so frames of multi-byte text exceed the cap: two frames
  of one two-byte character each, under a cap of three bytes, already do
  (`ByteQuota` states what holds: at most four times the cap).
- `Olm!SessionWithPeer`. `net.rs:777-778`: "Ensure we hold an Olm session to
  `peer`". The name in the bundle is never compared with the one that was asked for
  (`session.rs:838-851`, `net.rs:799-807`), so a session with somebody else is
  saved as the one with the peer. By 1. this takes no more than a slow relay.
- `Olm!PeerKeyMatchesPin`. `net.rs:740-742`: the relay "must not be able to swap (or
  blank out) a peer's identity key". The check and the pin are two vault calls with
  no lock across them; when both tasks have fetched a bundle and neither finds a
  pin, both go on, one of them with an identity that is not the pinned one
  (`SessionPinned` holds, and names these clients as `raced`).
- `FetchGate!IdlePruned`. `conn.rs:168-169`, `174-175`: idle buckets are pruned. A
  bucket is refilled only when it is used, and then one token is taken, so none
  ever looks full and the prune removes nothing.
- `GroupMember!NoFreshFrameRefused`. `vault.rs:124-126`: "no legitimate message is
  dropped". A live frame that overtakes the backlog makes the replay guard refuse
  the queued one.
- `vault.rs:784-786`, of a group key that is already another group's: "we keep the
  existing metadata and the group still works". A new group has no metadata to
  keep; it is left without a recorded owner, for good after the next start, and
  its moderation with it (`SessionsOfMembers` states what holds).
- `GroupOwner!RotationHolds`. `session.rs:1615-1616`: after a rekey the dropped
  member reads nothing more. The processor may have loaded the outbound session
  before the rotation and save it afterwards, over the new one
  (`ExpelledLockedOut` names this case as `reverted`).
- `GroupOwner!SuspensionRefused`. `net.rs:1012-1013`: an active suspension is
  always refused. `handle_join_request` takes the sender's timestamp for the time
  (`net.rs:389`), so it does not hold of a requester whose clock is ahead
  (`Skew > 0`).
- `App!RegisteredRecoverable`. `session.rs:408-409`: "so the username can never be
  silently lost". When the AuthOk is lost or late, or the process ends before the
  writes that follow it, the server has the name, and neither the vault nor a
  backup does (`RecoverableUnlessFault` holds).

Met on the way: the 72-hour lifetime is exceeded by up to the pruner's period and
by any downtime (`QueueLifetime` states what holds); used prekey rows are never
deleted, although `db.rs:169-170` speaks of "bounding prekey-table growth"
(`UnusedBounded` states what holds); the relay does answer a `Send`, which
`net.rs:119-120` calls fire-and-forget, and the Ok may reach a waiting request
(`WrongReplyHasCause`); `net.rs:765` tells the user to delete the chat and start
again after an identity change, and `delete_chat` keeps the contact whose pin is
the obstacle; importing over a live link leaves the link speaking for the old
identity (`swapped`), and an import that stops between its two writes leaves one
identity's account under another's name, which a later export writes over the
good backup (`broken`); "write it atomically" (`main.rs:118`, `session.rs:665`) is
a truncation and a write, and a `master.key` cut short is refused at every later
start (`main.rs:112-115`), as a torn `servers.json` is read as an empty one.

## 7. Plan

Modelled first, because everything rests on it: the message path, then the
directory, the rate limit, the control link, both ends of groups, the pairwise
sessions and the process around them. What is left, in order:

1. **Admission**: the semaphore and the per-IP counter (`server/src/main.rs`).
2. **Plugins**: install, activate and update with a failure between any two
   steps; **Attest**: the verdict over evidence, nonce and chain as a pure
   operator against a reference definition; **Tui**: maintenance countdown and
   reconnect.

Runs stay few: a new component gets one run for its safety and liveness
together, and one more only where it contradicts a comment.
