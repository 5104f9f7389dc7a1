-------------------------------- MODULE App --------------------------------
(***************************************************************************)
(* The client's servers: the index of known servers, one vault per server, *)
(* the identity in it, its backups, and the connection of each server.     *)
(* backend/core/src/session.rs run, check_server, register, connect,       *)
(* switch_server, remove_server, export_identity, import_identity and what *)
(* they call; main.rs for what a start reads; vault.rs meta and account.   *)
(*                                                                         *)
(* A command runs to its end before the next one is read, but it waits for *)
(* the server, and it changes several files.  The files are written one at *)
(* a time, in the code's order: `todo` is what the command has still to    *)
(* write before it goes on.  A process that ends loses `todo`; the file it *)
(* was writing may be left torn, for neither servers.json nor a backup is  *)
(* replaced in one step.  A write that fails ends the command, which may   *)
(* leave a reader running that nothing will ever abort.                    *)
(*                                                                         *)
(* An identity is a name and a key.  The account's one-time keys are in    *)
(* Olm, the requests of a connection in ControlLink, the registry's own    *)
(* rules in Directory.                                                     *)
(***************************************************************************)
EXTENDS Naturals, FiniteSets, Sequences

CONSTANTS
    Servers, Official,  \* addresses, normalized; Official is always listed
    Names, Keys,        \* user names and identity keys
    Conns,              \* connections that may be open at once
    Absent,             \* no record, no name, no key, no connection, no server
    Elsewhere,          \* identities made on another machine, whose backups
                        \* the user has: <<server, name, key>>
    MaxCommands,        \* bound: commands
    MaxFaults           \* bound: timeouts, broken connections, failed writes,
                        \* ends of the process

ASSUME AppConstants ==
    /\ Official \in Servers
    /\ Absent \notin Servers \cup Names \cup Keys \cup Conns
    /\ "unnamed" \notin Names \cup {Absent}
    /\ Elsewhere \subseteq Servers \X Names \X Keys
    /\ MaxCommands \in Nat /\ MaxFaults \in Nat

VARIABLES
    registry,   \* external: the key each server has for each name
    file,       \* servers.json: per server Absent, "unnamed" or the name there;
                \* Absent when there is none or it cannot be parsed
    vaults,     \* servers/<id>/vault.db: is there one, its name, its account
    backups,    \* identity-backups/: the key in each file
    index,      \* App.index
    opened,     \* App.servers: the vaults that are open
    active,     \* App.active
    link,       \* Server.link and Server.reader, set and cleared together
    conns,      \* the connections
    cmd,        \* the command in progress
    todo,       \* the writes left before the command goes on
    commands, faults,  \* how many there were
    broken,     \* history: servers where an import stopped between its writes
    swapped     \* history: servers whose vault was imported under a live link

disk == <<file, vaults, backups>>
memory == <<index, opened, active, link>>
count == <<commands, faults>>
history == <<broken, swapped>>
vars == <<registry, disk, memory, conns, cmd, todo, count, history>>

Empty == [dir |-> FALSE, user |-> Absent, key |-> Absent]

\* No connection; and the command loop, reading the next line.
NoConn == [srv |-> Absent, op |-> "none", user |-> Absent, key |-> Absent,
           answer |-> "none", reader |-> FALSE]
Idle == [op |-> "idle", at |-> "idle", srv |-> Absent, user |-> Absent,
         key |-> Absent, conn |-> Absent]

Unlisted == [s \in Servers |-> Absent]

Known(ix, s) == ix[s] # Absent

\* ServerIndex.ensure, seed_official
Ensure(ix, s) == IF Known(ix, s) THEN ix ELSE [ix EXCEPT ![s] = "unnamed"]

At(stage) == cmd.at = stage /\ todo = <<>>
Goto(stage) == cmd' = [cmd EXCEPT !.at = stage]

Fault == faults < MaxFaults /\ faults' = faults + 1 /\ UNCHANGED commands

----------------------------------------------------------------------------
(* The files.                                                              *)

MakeVault(s) == [file |-> "vault", srv |-> s]
SaveIndex == [file |-> "index"]
SaveAccount(s, k) == [file |-> "account", srv |-> s, key |-> k]
SetUsername(s, u) == [file |-> "username", srv |-> s, user |-> u]
Backup(s, u, k) == [file |-> "backup", srv |-> s, user |-> u, key |-> k]
DropVault(s) == [file |-> "drop", srv |-> s]

\* ensure_server: create the directory, open the vault, record the server.
EnsureServer(s) == IF s \in opened THEN <<>> ELSE <<MakeVault(s), SaveIndex>>

\* What one write leaves on the disk.
Written(w) ==
    /\ file' = IF w.file = "index" THEN index ELSE file
    /\ vaults' = CASE w.file = "vault"    -> [vaults EXCEPT ![w.srv].dir = TRUE]
                   [] w.file = "account"  -> [vaults EXCEPT ![w.srv].key = w.key]
                   [] w.file = "username" -> [vaults EXCEPT ![w.srv].user = w.user]
                   [] w.file = "drop"     -> [vaults EXCEPT ![w.srv] = Empty]
                   [] OTHER               -> vaults
    /\ backups' = IF w.file = "backup"
                  THEN [backups EXCEPT ![w.srv][w.user] = w.key] ELSE backups

Writing(f) == todo # <<>> /\ Head(todo).file = f

\* What the process keeps of it.
Write ==
    /\ todo # <<>>
    /\ Written(Head(todo))
    /\ todo' = Tail(todo)
    /\ IF Writing("vault")
       THEN /\ opened' = opened \cup {Head(todo).srv}
            /\ index' = Ensure(index, Head(todo).srv)
       ELSE UNCHANGED <<opened, index>>
    /\ swapped' = IF cmd.op = "import" /\ Writing("account")
                     /\ link[Head(todo).srv] # Absent
                  THEN swapped \cup {Head(todo).srv} ELSE swapped
    /\ UNCHANGED <<registry, active, link, conns, cmd, count, broken>>

\* The writes whose failure is not the command's: a backup after register and
\* the removal of a vault.  The command goes on.
Ignored(w) == w.file = "drop" \/ (w.file = "backup" /\ cmd.op = "register")

\* Servers where an import is, or ended, between its writes: the account of one
\* identity under the name of another.
Interrupted ==
    broken \cup (IF cmd.op = "import" /\ Writing("username") THEN {cmd.srv} ELSE {})

WriteFails ==
    /\ todo # <<>>
    /\ Fault
    /\ IF Ignored(Head(todo))
       THEN todo' = Tail(todo) /\ UNCHANGED <<cmd, broken>>
       ELSE todo' = <<>> /\ cmd' = Idle /\ broken' = Interrupted
    /\ UNCHANGED <<registry, disk, memory, conns, swapped>>

----------------------------------------------------------------------------
(* Connections.                                                            *)

\* A reader is stopped.  What it had not been answered yet is still on its way.
Stopped(cs, c) ==
    IF c = Absent THEN cs
    ELSE [cs EXCEPT ![c] = IF @.answer = "none" THEN [@ EXCEPT !.reader = FALSE]
                           ELSE NoConn]

\* Somebody will abort it: its server's entry, or the command that opened it.
Owned(c) == cmd.conn = c \/ \E s \in Servers : link[s] = c

\* prune_dead_links, before every command
Dead(s) == link[s] # Absent /\ ~conns[link[s]].reader
Pruned == [s \in Servers |-> IF Dead(s) THEN Absent ELSE link[s]]
Kept == [c \in Conns |-> IF \E s \in Servers : Dead(s) /\ link[s] = c
                         THEN NoConn ELSE conns[c]]

\* teardown_link and net::open, then the request that register and connect
\* make: Register, or AuthBegin with its AuthFinish.
Open(c) ==
    /\ At("open")
    /\ LET cs == Stopped(conns, link[cmd.srv])
       IN /\ cs[c] = NoConn
          /\ conns' = [cs EXCEPT ![c] =
                [srv |-> cmd.srv, op |-> cmd.op, user |-> cmd.user,
                 key |-> cmd.key, answer |-> "none", reader |-> TRUE]]
    /\ link' = [link EXCEPT ![cmd.srv] = Absent]
    /\ cmd' = [cmd EXCEPT !.at = "wait", !.conn = c]
    /\ UNCHANGED <<registry, disk, index, opened, active, todo, count, history>>

\* The server cannot be reached: the old link is gone all the same.
OpenFails ==
    /\ At("open")
    /\ Fault
    /\ conns' = Stopped(conns, link[cmd.srv])
    /\ link' = [link EXCEPT ![cmd.srv] = Absent]
    /\ cmd' = Idle
    /\ UNCHANGED <<registry, disk, index, opened, active, todo, history>>

\* External: the server decides.  It has one key for a name and one name for a
\* key, and it gives the client the name whose key signed the challenge.
Grants(n) ==
    IF n.op = "register"
    THEN /\ registry[n.srv][n.user] = Absent
         /\ \A u \in Names : registry[n.srv][u] # n.key
    ELSE registry[n.srv][n.user] = n.key

Serve(c) ==
    LET n == conns[c]
    IN /\ n.op # "none" /\ n.answer = "none"
       /\ registry' = IF Grants(n)
                      THEN [registry EXCEPT ![n.srv][n.user] = n.key] ELSE registry
       /\ conns' = [conns EXCEPT ![c] =
             IF n.reader THEN [n EXCEPT !.answer = IF Grants(n) THEN "ok" ELSE "refused"]
             ELSE NoConn]
       /\ UNCHANGED <<disk, memory, cmd, todo, count, history>>

\* The connection breaks; a request it still holds may be lost with it.
Break(c) ==
    /\ conns[c].reader
    /\ Fault
    /\ \E lost \in {FALSE, conns[c].answer = "none"} :
          LET broke == [conns EXCEPT ![c].answer = IF lost THEN "lost" ELSE @]
          IN conns' = IF Owned(c) THEN [broke EXCEPT ![c].reader = FALSE]
                      ELSE Stopped(broke, c)
    /\ UNCHANGED <<registry, disk, memory, cmd, todo, history>>

----------------------------------------------------------------------------
(* The commands.                                                           *)

\* Mutant: register stores the name while it waits for the server's answer.
OrderEarly(op, s, u) ==
    /\ cmd = Idle
    /\ commands < MaxCommands /\ commands' = commands + 1
    /\ cmd' = [Idle EXCEPT !.op = op, !.at = "ensured", !.srv = s, !.user = u]
    /\ todo' = EnsureServer(s) \o
               (IF op = "register" /\ vaults[s].key # Absent
                THEN <<SetUsername(s, u)>> ELSE <<>>)
    /\ link' = Pruned /\ conns' = Kept
    /\ UNCHANGED <<registry, disk, index, opened, active, faults, history>>

\* run reads a line, drops the dead links and calls the handler, which opens
\* the server's vault first.
Order(op, s, u) ==
    /\ cmd = Idle
    /\ commands < MaxCommands /\ commands' = commands + 1
    /\ cmd' = [Idle EXCEPT !.op = op, !.at = "ensured", !.srv = s, !.user = u]
    /\ todo' = EnsureServer(s)
    /\ link' = Pruned /\ conns' = Kept
    /\ UNCHANGED <<registry, disk, index, opened, active, faults, history>>

\* A command that needs neither a vault nor the server first.
OrderNow ==
    /\ cmd = Idle
    /\ commands < MaxCommands /\ commands' = commands + 1
    /\ UNCHANGED <<registry, disk, faults>>

Register(s, u) == Order("register", s, u)
Connect(s) == Order("connect", s, Absent)
SwitchServer(s) == Order("switch", s, Absent)
ImportIdentity(s, u) == backups[s][u] # Absent /\ Order("import", s, u)

\* check_server: the verdict is cached in a record that may be new.
CheckServer(s) ==
    /\ OrderNow
    /\ cmd' = [Idle EXCEPT !.op = "check", !.at = "done"]
    /\ index' = Ensure(index, s)
    /\ todo' = <<SaveIndex>>
    /\ link' = Pruned /\ conns' = Kept
    /\ UNCHANGED <<opened, active, history>>

\* Mutant: the vault goes before the index stops naming the identity in it.
RemoveVaultFirst(s) ==
    /\ OrderNow
    /\ cmd' = [Idle EXCEPT !.op = "remove", !.at = "done"]
    /\ opened' = opened \ {s}
    /\ active' = IF active = s THEN Absent ELSE active
    /\ index' = [index EXCEPT ![s] = Absent]
    /\ link' = [Pruned EXCEPT ![s] = Absent]
    /\ conns' = Stopped(Kept, Pruned[s])
    /\ todo' = <<DropVault(s), SaveIndex>>
    /\ swapped' = swapped \ {s}
    /\ UNCHANGED broken

\* remove_server
RemoveServer(s) ==
    /\ OrderNow
    /\ cmd' = [Idle EXCEPT !.op = "remove", !.at = "done"]
    /\ opened' = opened \ {s}
    /\ active' = IF active = s THEN Absent ELSE active
    /\ index' = [index EXCEPT ![s] = Absent]
    /\ link' = [Pruned EXCEPT ![s] = Absent]
    /\ conns' = Stopped(Kept, Pruned[s])
    /\ todo' = <<SaveIndex, DropVault(s)>>
    /\ swapped' = swapped \ {s}
    /\ UNCHANGED broken

\* export_identity: only where a name and an account are in the active vault.
ExportIdentity ==
    /\ OrderNow
    /\ active \in opened
    /\ vaults[active].user # Absent /\ vaults[active].key # Absent
    /\ cmd' = [Idle EXCEPT !.op = "export", !.at = "done"]
    /\ todo' = <<Backup(active, vaults[active].user, vaults[active].key)>>
    /\ link' = Pruned /\ conns' = Kept
    /\ UNCHANGED <<index, opened, active, history>>

\* An identity key nobody has.
Fresh(k) ==
    /\ \A s \in Servers : vaults[s].key # k
    /\ \A s \in Servers, u \in Names : registry[s][u] # k /\ backups[s][u] # k
    /\ \A c \in Conns : conns[c].key # k

\* register: the account in the vault, or a new one, saved before it is used.
EnsuredRegister(k) ==
    /\ At("ensured") /\ cmd.op = "register"
    /\ IF vaults[cmd.srv].key = Absent
       THEN Fresh(k) /\ todo' = <<SaveAccount(cmd.srv, k)>>
       ELSE k = vaults[cmd.srv].key /\ UNCHANGED todo
    /\ cmd' = [cmd EXCEPT !.at = "open", !.key = k]
    /\ UNCHANGED <<registry, disk, memory, conns, count, history>>

\* connect, which asks for a name where there is none and fails where there is
\* no account; switch_server, which connects when it finds no live link.
EnsuredConnect ==
    LET s == cmd.srv
    IN /\ At("ensured") /\ cmd.op \in {"connect", "switch"}
       /\ cmd' = IF \/ cmd.op = "switch" /\ Pruned[s] # Absent
                    \/ vaults[s].user = Absent \/ vaults[s].key = Absent
                 THEN Idle
                 ELSE [cmd EXCEPT !.at = "open", !.op = "connect",
                                  !.user = vaults[s].user, !.key = vaults[s].key]
       /\ IF cmd.op = "switch" THEN active' = s /\ link' = Pruned /\ conns' = Kept
          ELSE UNCHANGED <<active, link, conns>>
       /\ UNCHANGED <<registry, disk, index, opened, todo, count, history>>

\* import_identity: the file's key, then its name.
EnsuredImport ==
    /\ At("ensured") /\ cmd.op = "import"
    /\ todo' = <<SaveAccount(cmd.srv, backups[cmd.srv][cmd.user]),
                 SetUsername(cmd.srv, cmd.user)>>
    /\ Goto("stored")
    /\ UNCHANGED <<registry, disk, memory, conns, count, history>>

\* Mutant: the backup of a new identity is left to the user.
AcceptedNoBackup ==
    /\ At("wait") /\ conns[cmd.conn].answer = "ok" /\ conns[cmd.conn].reader
    /\ todo' = IF cmd.op = "register"
               THEN <<SetUsername(cmd.srv, cmd.user), SaveAccount(cmd.srv, cmd.key)>>
               ELSE <<SaveAccount(cmd.srv, cmd.key)>>
    /\ Goto("stored")
    /\ UNCHANGED <<registry, disk, memory, conns, count, history>>

\* AuthOk: the name, the account with its new one-time keys, the backup.
Accepted ==
    /\ At("wait") /\ conns[cmd.conn].answer = "ok" /\ conns[cmd.conn].reader
    /\ todo' = IF cmd.op = "register"
               THEN <<SetUsername(cmd.srv, cmd.user), SaveAccount(cmd.srv, cmd.key),
                      Backup(cmd.srv, cmd.user, cmd.key)>>
               ELSE <<SaveAccount(cmd.srv, cmd.key)>>
    /\ Goto("stored")
    /\ UNCHANGED <<registry, disk, memory, conns, count, history>>

\* Mutant: the handler returns without aborting the reader.
RefusedUnaborted ==
    /\ At("wait") /\ conns[cmd.conn].answer = "refused" /\ conns[cmd.conn].reader
    /\ cmd' = Idle
    /\ UNCHANGED <<registry, disk, memory, conns, todo, count, history>>

\* An error for an answer: the reader is aborted.
Refused ==
    /\ At("wait") /\ conns[cmd.conn].answer = "refused" /\ conns[cmd.conn].reader
    /\ conns' = Stopped(conns, cmd.conn)
    /\ cmd' = Idle
    /\ UNCHANGED <<registry, disk, memory, todo, count, history>>

\* An answer that is not this request's (ControlLink shows where it is from).
Unexpected ==
    /\ At("wait") /\ conns[cmd.conn].reader
    /\ Fault
    /\ conns' = Stopped(conns, cmd.conn)
    /\ cmd' = Idle
    /\ UNCHANGED <<registry, disk, memory, todo, history>>

\* No answer within REQUEST_TIMEOUT: `?` leaves, and the reader runs on.
GiveUp ==
    /\ At("wait") /\ conns[cmd.conn].reader
    /\ Fault
    /\ cmd' = Idle
    /\ UNCHANGED <<registry, disk, memory, conns, todo, history>>

\* The reader ended: `?` leaves too.
Closed ==
    /\ At("wait") /\ ~conns[cmd.conn].reader
    /\ conns' = Stopped(conns, cmd.conn)
    /\ cmd' = Idle
    /\ UNCHANGED <<registry, disk, memory, todo, count, history>>

\* The connection becomes the server's; the index learns the name.  An import
\* has no connection and leaves the one there is.
Stored ==
    /\ At("stored")
    /\ IF cmd.op = "import"
       THEN UNCHANGED <<link, active, swapped>>
       ELSE /\ link' = [link EXCEPT ![cmd.srv] = cmd.conn]
            /\ active' = cmd.srv
            /\ swapped' = swapped \ {cmd.srv}
    /\ index' = [index EXCEPT ![cmd.srv] = cmd.user]
    /\ todo' = <<SaveIndex>>
    /\ cmd' = [Idle EXCEPT !.op = cmd.op, !.at = "done", !.srv = cmd.srv]
    /\ UNCHANGED <<registry, disk, opened, conns, count, broken>>

Done ==
    /\ At("done")
    /\ cmd' = Idle
    /\ UNCHANGED <<registry, disk, memory, conns, todo, count, history>>

----------------------------------------------------------------------------
(* The process.                                                            *)

\* What the end of the process leaves of its memory and its connections.
Ended ==
    /\ todo' = <<>>
    /\ cmd' = [Idle EXCEPT !.op = "start", !.at = "down"]
    /\ index' = Unlisted /\ opened' = {} /\ active' = Absent
    /\ link' = [s \in Servers |-> Absent]
    /\ conns' = [c \in Conns |->
          IF conns[c].answer = "none" THEN [conns[c] EXCEPT !.reader = FALSE] ELSE NoConn]
    /\ swapped' = {}
    /\ UNCHANGED registry

\* quit, between two commands
Quit ==
    /\ cmd = Idle
    /\ commands < MaxCommands /\ commands' = commands + 1
    /\ Ended
    /\ UNCHANGED <<disk, faults, broken>>

\* The process dies, with the file it was about to write untouched or torn.
Crash ==
    /\ cmd.at # "down"
    /\ Fault
    /\ \/ UNCHANGED disk
       \/ /\ Writing("index")
          /\ file' = Absent /\ UNCHANGED <<vaults, backups>>
       \/ /\ Writing("backup")
          /\ backups' = [backups EXCEPT ![Head(todo).srv][Head(todo).user] = Absent]
          /\ UNCHANGED <<file, vaults>>
    /\ broken' = Interrupted
    /\ Ended

\* main: an index that cannot be parsed is an empty one, and the official
\* server is added.  refresh_verdicts saves it when some server answered.
Start ==
    /\ cmd.at = "down"
    /\ index' = Ensure(IF file = Absent THEN Unlisted ELSE file, Official)
    /\ \/ cmd' = Idle /\ UNCHANGED todo
       \/ cmd' = [Idle EXCEPT !.op = "start", !.at = "done"] /\ todo' = <<SaveIndex>>
    /\ UNCHANGED <<registry, disk, opened, active, link, conns, count, history>>

Init ==
    /\ registry = [s \in Servers |-> [u \in Names |->
          IF \E k \in Keys : <<s, u, k>> \in Elsewhere
          THEN CHOOSE k \in Keys : <<s, u, k>> \in Elsewhere ELSE Absent]]
    /\ backups = registry
    /\ file = Absent
    /\ vaults = [s \in Servers |-> Empty]
    /\ index = Ensure(Unlisted, Official)
    /\ opened = {} /\ active = Absent
    /\ link = [s \in Servers |-> Absent]
    /\ conns = [c \in Conns |-> NoConn]
    /\ cmd = Idle /\ todo = <<>>
    /\ commands = 0 /\ faults = 0
    /\ broken = {} /\ swapped = {}

Next ==
    \/ Write \/ WriteFails
    \/ \E c \in Conns : Open(c) \/ Serve(c) \/ Break(c)
    \/ OpenFails
    \/ \E s \in Servers, u \in Names : Register(s, u) \/ ImportIdentity(s, u)
    \/ \E s \in Servers :
          Connect(s) \/ SwitchServer(s) \/ CheckServer(s) \/ RemoveServer(s)
    \/ ExportIdentity
    \/ \E k \in Keys : EnsuredRegister(k)
    \/ EnsuredConnect \/ EnsuredImport
    \/ Accepted \/ Refused \/ Unexpected \/ GiveUp \/ Closed \/ Stored \/ Done
    \/ Quit \/ Crash \/ Start

Spec == Init /\ [][Next]_vars

----------------------------------------------------------------------------
(* Properties.                                                             *)

Records(w) == w.file \in {"vault", "index", "account", "username", "backup", "drop"}

\* The variables hold what their declarations say.  `vault_of` relies on one
\* more fact: the active server, and every server with a link, is open.
TypeOK ==
    /\ registry \in [Servers -> [Names -> Keys \cup {Absent}]]
    /\ file \in [Servers -> {Absent, "unnamed"} \cup Names] \cup {Absent}
    /\ vaults \in [Servers -> [dir : BOOLEAN, user : Names \cup {Absent},
                                key : Keys \cup {Absent}]]
    /\ backups \in [Servers -> [Names -> Keys \cup {Absent}]]
    /\ index \in [Servers -> {Absent, "unnamed"} \cup Names]
    /\ opened \subseteq {s \in Servers : Known(index, s)}
    /\ active \in opened \cup {Absent}
    /\ link \in [Servers -> Conns \cup {Absent}]
    /\ \A s \in Servers : link[s] # Absent => s \in opened
    /\ \A i \in 1..Len(todo) : Records(todo[i])
    /\ commands \in 0..MaxCommands /\ faults \in 0..MaxFaults

\* servers.json never names an identity that its vault does not hold, and a
\* vault with a name has an account, so connect's "username present but no
\* device in vault" cannot happen.  This is why register and import write the
\* vault before the index, account first, and remove_server the index before
\* the vault; it has to survive the end of the process between any two writes.
IndexBacked ==
    \A s \in Servers :
       /\ file # Absent /\ file[s] \in Names => vaults[s].user # Absent
       /\ vaults[s].user # Absent => vaults[s].key # Absent /\ vaults[s].dir

\* The name and the account of a vault are one identity of the server's, the
\* one connect will sign for: register stores the name only once the server has
\* taken it for the account's key.  Only an import that stops between its two
\* writes can part them.
IdentityWhole ==
    \A s \in Servers \ Interrupted :
       /\ vaults[s].user # Absent => registry[s][vaults[s].user] = vaults[s].key
       /\ \A u \in Names : backups[s][u] # Absent => registry[s][u] = backups[s][u]

\* A link that commands use is one that its server answered AuthOk on, for the
\* name and key that are in its vault, whatever other connections of the same
\* server were given up, refused or left behind.  Only import_identity, which
\* does not tear the link down, can put another identity under it.
LinkAuthenticated ==
    \A s \in Servers : link[s] # Absent =>
       LET n == conns[link[s]]
       IN /\ n.srv = s /\ n.answer = "ok"
          /\ registry[s][n.user] = n.key
          /\ s \notin swapped => n.user = vaults[s].user /\ n.key = vaults[s].key

\* A reader that runs with nobody left to abort it was left by a request that
\* timed out or a write that failed: every other way out of register and
\* connect aborts the reader they started.
NoStrayReader ==
    Cardinality({c \in Conns : conns[c].reader /\ ~Owned(c)}) <= faults

\* Together: which servers and connections the client has open, and what it
\* takes them for.
Connections == TypeOK /\ LinkAuthenticated /\ NoStrayReader

\* "so the username can never be silently lost (recover with import)": between
\* commands, every name some server has registered for this user is in the
\* server's vault or in a backup, with its key.
Recoverable ==
    \A s \in Servers, u \in Names : registry[s][u] # Absent =>
       \/ vaults[s].user = u /\ vaults[s].key = registry[s][u]
       \/ backups[s][u] = registry[s][u]

RegisteredRecoverable == cmd = Idle => Recoverable

\* The same as long as nothing failed, through every sequence of commands: a
\* removed server, an import over a registered identity, a second register.
RecoverableUnlessFault == cmd = Idle /\ faults = 0 => Recoverable
=============================================================================
