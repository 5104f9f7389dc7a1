----------------------------- MODULE AppProofs -----------------------------
(***************************************************************************)
(* What the files, the vaults and the connections of the client keep to,   *)
(* for every number of servers, names, keys, connections, commands and     *)
(* faults.                                                                 *)
(*                                                                         *)
(* Everything rests on Stage: where a command is decides which writes it   *)
(* has left, and what the writes before them have done.                    *)
(***************************************************************************)
EXTENDS App, FiniteSetTheorems, TLAPS

----------------------------------------------------------------------------
(* The stages of a command.                                                *)

Resting == cmd = Idle /\ todo = <<>>

Down ==
    /\ cmd.at = "down" /\ cmd.op = "start" /\ cmd.conn = Absent /\ todo = <<>>
    /\ opened = {} /\ active = Absent /\ \A s \in Servers : link[s] = Absent

\* The vault is being opened.
Ensuring ==
    /\ cmd.at = "ensured" /\ cmd.op \in {"register", "connect", "switch", "import"}
    /\ cmd.srv \in Servers /\ cmd.conn = Absent
    /\ cmd.op \in {"register", "import"} => cmd.user \in Names
    /\ cmd.op = "import" => backups[cmd.srv][cmd.user] # Absent
    /\ \/ todo = <<MakeVault(cmd.srv), SaveIndex>>
       \/ todo = <<SaveIndex>> /\ cmd.srv \in opened
       \/ todo = <<>> /\ cmd.srv \in opened

\* register and connect know the name and the key they will ask for.
Asking ==
    /\ cmd.op \in {"register", "connect"}
    /\ cmd.srv \in opened /\ cmd.srv \in Servers
    /\ cmd.user \in Names /\ cmd.key \in Keys
    /\ cmd.op = "connect" => vaults[cmd.srv].user = cmd.user

Opening ==
    /\ cmd.at = "open" /\ Asking /\ cmd.conn = Absent
    /\ \/ /\ todo = <<SaveAccount(cmd.srv, cmd.key)>> /\ cmd.op = "register"
          /\ vaults[cmd.srv].key = Absent
       \/ todo = <<>> /\ vaults[cmd.srv].key = cmd.key

\* The connection they opened carries just that, unless it broke.
Carried ==
    LET n == conns[cmd.conn]
    IN n.srv = cmd.srv /\ n.op = cmd.op /\ n.user = cmd.user /\ n.key = cmd.key

Asked ==
    /\ Asking /\ cmd.conn \in Conns /\ link[cmd.srv] = Absent
    /\ vaults[cmd.srv].key = cmd.key

Waiting ==
    /\ cmd.at = "wait" /\ Asked /\ todo = <<>>
    /\ conns[cmd.conn].reader => Carried

Storing ==
    /\ cmd.at = "stored" /\ Asked /\ Carried /\ conns[cmd.conn].answer = "ok"
    /\ \/ /\ cmd.op = "register"
          /\ todo = <<SetUsername(cmd.srv, cmd.user), SaveAccount(cmd.srv, cmd.key),
                      Backup(cmd.srv, cmd.user, cmd.key)>>
       \/ /\ cmd.op = "register" /\ vaults[cmd.srv].user = cmd.user
          /\ todo = <<SaveAccount(cmd.srv, cmd.key), Backup(cmd.srv, cmd.user, cmd.key)>>
       \/ /\ cmd.op = "register" /\ vaults[cmd.srv].user = cmd.user
          /\ todo = <<Backup(cmd.srv, cmd.user, cmd.key)>>
       \/ cmd.op = "connect" /\ todo = <<SaveAccount(cmd.srv, cmd.key)>>
       \/ todo = <<>> /\ vaults[cmd.srv].user = cmd.user

\* The account of the backup is in the vault, under a link that is marked.
Replaced ==
    /\ vaults[cmd.srv].key = backups[cmd.srv][cmd.user]
    /\ link[cmd.srv] = Absent \/ cmd.srv \in swapped

Importing ==
    /\ cmd.at = "stored" /\ cmd.op = "import" /\ cmd.conn = Absent
    /\ cmd.srv \in Servers /\ cmd.srv \in opened /\ cmd.user \in Names
    /\ backups[cmd.srv][cmd.user] # Absent
    /\ \/ todo = <<SaveAccount(cmd.srv, backups[cmd.srv][cmd.user]),
                   SetUsername(cmd.srv, cmd.user)>>
       \/ todo = <<SetUsername(cmd.srv, cmd.user)>> /\ Replaced
       \/ todo = <<>> /\ Replaced /\ vaults[cmd.srv].user = cmd.user

\* A server that is gone from memory.
Forgotten(s) == s \in Servers /\ s \notin opened /\ index[s] = Absent

Finishing ==
    /\ cmd.at = "done" /\ cmd.conn = Absent
    /\ \/ todo = <<>> \/ todo = <<SaveIndex>>
       \/ \E s \in Servers :
             cmd.op = "remove" /\ Forgotten(s) /\ todo = <<SaveIndex, DropVault(s)>>
       \/ \E s \in Servers :
             /\ cmd.op = "remove" /\ Forgotten(s) /\ todo = <<DropVault(s)>>
             /\ file # Absent => file[s] = Absent
       \/ \E s \in Servers, u \in Names, k \in Keys :
             /\ cmd.op = "export" /\ todo = <<Backup(s, u, k)>>
             /\ s \in broken \/ registry[s][u] = k

Stage ==
    \/ Resting \/ Down \/ Ensuring \/ Opening \/ Waiting \/ Storing \/ Importing
    \/ Finishing

----------------------------------------------------------------------------
(* The rest of the inductive invariant.                                    *)

Requests ==
    [srv : Servers, op : {"register", "connect"}, user : Names, key : Keys,
     answer : {"none", "ok", "refused", "lost"}, reader : BOOLEAN]

Shape ==
    cmd \in [op : {"idle", "start", "register", "connect", "switch", "import",
                   "check", "remove", "export"},
             at : {"idle", "down", "ensured", "open", "wait", "stored", "done"},
             srv : Servers \cup {Absent}, user : Names \cup {Absent},
             key : Keys \cup {Absent}, conn : Conns \cup {Absent}]

\* A server that said yes has the key for the name.
ConnsSound ==
    /\ conns \in [Conns -> Requests \cup {NoConn}]
    /\ \A c \in Conns : conns[c].answer = "ok" =>
          registry[conns[c].srv][conns[c].user] = conns[c].key

\* The index in memory names what the vaults hold, and what is open is there.
MemoryBacked ==
    \A s \in Servers :
       /\ index[s] \in Names => vaults[s].user # Absent
       /\ s \in opened => vaults[s].dir

BackupsSound ==
    \A s \in Servers \ broken, u \in Names :
       backups[s][u] # Absent => registry[s][u] = backups[s][u]

VaultsWhole ==
    \A s \in Servers \ Interrupted :
       vaults[s].user # Absent => registry[s][vaults[s].user] = vaults[s].key

\* Without a fault nothing is parted, a command that waits has a reader, and
\* the only request that may still register a name is the one it waits for.
Orderly ==
    faults = 0 =>
       /\ broken = {}
       /\ cmd.at = "wait" => conns[cmd.conn].reader
       /\ \A c \in Conns : conns[c].op = "register" /\ conns[c].answer = "none" =>
             cmd.at = "wait" /\ cmd.conn = c

\* The name that is being registered, from the server's yes to its backup.
Unsaved(s, u) ==
    /\ cmd.op = "register" /\ cmd.srv = s /\ cmd.user = u
    /\ cmd.key = registry[s][u]
    /\ \/ cmd.at = "wait" /\ conns[cmd.conn].answer = "ok"
       \/ cmd.at = "stored" /\ todo # <<>>

AllBackedUp ==
    faults = 0 => \A s \in Servers, u \in Names :
       registry[s][u] # Absent => backups[s][u] = registry[s][u] \/ Unsaved(s, u)

\* A reader that runs with nobody left to abort it.
Stray == {c \in Conns : conns[c].reader /\ ~Owned(c)}
StrayCounted == IsFiniteSet(Stray) /\ Cardinality(Stray) <= faults

DInv == TypeOK /\ Shape /\ ConnsSound /\ Stage /\ MemoryBacked /\ IndexBacked

----------------------------------------------------------------------------
(* Records, sequences and stages.                                          *)

LEMMA IdleFields ==
    /\ Idle.op = "idle" /\ Idle.at = "idle" /\ Idle.srv = Absent /\ Idle.user = Absent
    /\ Idle.key = Absent /\ Idle.conn = Absent
  BY DEF Idle

LEMMA NoConnFields ==
    /\ NoConn.srv = Absent /\ NoConn.op = "none" /\ NoConn.user = Absent
    /\ NoConn.key = Absent /\ NoConn.answer = "none" /\ NoConn.reader = FALSE
  BY DEF NoConn

LEMMA HeadTail ==
    ASSUME NEW a, NEW b, NEW c
    PROVE  /\ Head(<<a>>) = a /\ Tail(<<a>>) = <<>> /\ <<a>> # <<>>
           /\ Head(<<a, b>>) = a /\ Tail(<<a, b>>) = <<b>> /\ <<a, b>> # <<>>
           /\ Head(<<a, b, c>>) = a /\ Tail(<<a, b, c>>) = <<b, c>> /\ <<a, b, c>> # <<>>
  OBVIOUS

\* Where a command is tells its stage.
LEMMA StageAt ==
    ASSUME Stage
    PROVE  /\ cmd.at = "idle" => Resting
           /\ cmd = Idle => Resting
           /\ cmd.at = "down" => Down
           /\ cmd.at = "ensured" => Ensuring
           /\ cmd.at = "open" => Opening
           /\ cmd.at = "wait" => Waiting
           /\ cmd.at = "stored" => Storing \/ Importing
           /\ cmd.at = "done" => Finishing
<1>1. Resting => cmd.at = "idle"
  BY IdleFields DEF Resting
<1>2. Down => cmd.at = "down"
  BY DEF Down
<1>3. Ensuring => cmd.at = "ensured"
  BY DEF Ensuring
<1>4. Opening => cmd.at = "open"
  BY DEF Opening
<1>5. Waiting => cmd.at = "wait"
  BY DEF Waiting
<1>6. (Storing \/ Importing) => cmd.at = "stored"
  BY DEF Storing, Importing
<1>7. Finishing => cmd.at = "done"
  BY DEF Finishing
<1>8. cmd = Idle => cmd.at = "idle"
  BY IdleFields
<1> QED
  BY <1>1, <1>2, <1>3, <1>4, <1>5, <1>6, <1>7, <1>8 DEF Stage

LEMMA FileOf ==
    ASSUME NEW s, NEW u, NEW k
    PROVE  /\ MakeVault(s).file = "vault" /\ MakeVault(s).srv = s
           /\ SaveIndex.file = "index"
           /\ SaveAccount(s, k).file = "account" /\ SaveAccount(s, k).srv = s
           /\ SetUsername(s, u).file = "username" /\ SetUsername(s, u).srv = s
           /\ Backup(s, u, k).file = "backup" /\ Backup(s, u, k).srv = s
           /\ Backup(s, u, k).user = u /\ Backup(s, u, k).key = k
           /\ DropVault(s).file = "drop" /\ DropVault(s).srv = s
  BY DEF MakeVault, SaveIndex, SaveAccount, SetUsername, Backup, DropVault

LEMMA StageRecords ==
    ASSUME Stage PROVE \A i \in 1..Len(todo) : Records(todo[i])
<1>0. ASSUME NEW a, NEW b, NEW c
      PROVE  /\ \A i \in 1..Len(<<>>) : FALSE
             /\ Records(a) => \A i \in 1..Len(<<a>>) : Records(<<a>>[i])
             /\ Records(a) /\ Records(b) => \A i \in 1..Len(<<a, b>>) : Records(<<a, b>>[i])
             /\ Records(a) /\ Records(b) /\ Records(c) =>
                   \A i \in 1..Len(<<a, b, c>>) : Records(<<a, b, c>>[i])
  OBVIOUS
<1>1. ASSUME NEW s, NEW u, NEW k
      PROVE  /\ Records(MakeVault(s)) /\ Records(SaveIndex) /\ Records(SaveAccount(s, k))
             /\ Records(SetUsername(s, u)) /\ Records(Backup(s, u, k)) /\ Records(DropVault(s))
  BY FileOf DEF Records
<1>2. CASE todo = <<>>
  BY <1>0, <1>2
<1>3. CASE Ensuring
  BY <1>0, <1>1, <1>3 DEF Ensuring
<1>4. CASE Opening
  BY <1>0, <1>1, <1>4 DEF Opening
<1>5. CASE Storing
  BY <1>0, <1>1, <1>5 DEF Storing
<1>6. CASE Importing
  BY <1>0, <1>1, <1>6 DEF Importing
<1>7. CASE Finishing
  BY <1>0, <1>1, <1>7 DEF Finishing
<1> QED
  BY <1>2, <1>3, <1>4, <1>5, <1>6, <1>7 DEF Stage, Resting, Down, Waiting

----------------------------------------------------------------------------
(* The writes, one by one.                                                 *)

VaultRec == [dir : BOOLEAN, user : Names \cup {Absent}, key : Keys \cup {Absent}]

\* Every vault but that of s is as it was, and s's but for what is named.
Same(s) == \A t \in Servers \ {s} : vaults'[t] = vaults[t]
HasUser(s, u) == vaults'[s].user = u
HasKey(s, k) == vaults'[s].key = k
HasDir(s, d) == vaults'[s].dir = d

\* What each write does to the disk.
LEMMA WritesVault ==
    ASSUME vaults \in [Servers -> VaultRec], NEW s \in Servers, Written(MakeVault(s))
    PROVE  /\ vaults' \in [Servers -> VaultRec] /\ UNCHANGED <<file, backups>>
           /\ Same(s) /\ HasDir(s, TRUE) /\ HasUser(s, vaults[s].user) /\ HasKey(s, vaults[s].key)
<1>1. vaults' = [vaults EXCEPT ![s].dir = TRUE] /\ UNCHANGED <<file, backups>>
  BY DEF Written, MakeVault
<1> QED
  BY <1>1 DEF VaultRec, Same, HasDir, HasUser, HasKey

LEMMA WritesIndex ==
    ASSUME Written(SaveIndex) PROVE file' = index /\ UNCHANGED <<vaults, backups>>
  BY DEF Written, SaveIndex

LEMMA WritesAccount ==
    ASSUME vaults \in [Servers -> VaultRec], NEW s \in Servers, NEW k \in Keys \cup {Absent},
           Written(SaveAccount(s, k))
    PROVE  /\ vaults' \in [Servers -> VaultRec] /\ UNCHANGED <<file, backups>>
           /\ Same(s) /\ HasKey(s, k) /\ HasUser(s, vaults[s].user) /\ HasDir(s, vaults[s].dir)
<1>1. vaults' = [vaults EXCEPT ![s].key = k] /\ UNCHANGED <<file, backups>>
  BY DEF Written, SaveAccount
<1> QED
  BY <1>1 DEF VaultRec, Same, HasDir, HasUser, HasKey

LEMMA WritesUsername ==
    ASSUME vaults \in [Servers -> VaultRec], NEW s \in Servers, NEW u \in Names,
           Written(SetUsername(s, u))
    PROVE  /\ vaults' \in [Servers -> VaultRec] /\ UNCHANGED <<file, backups>>
           /\ Same(s) /\ HasUser(s, u) /\ HasKey(s, vaults[s].key) /\ HasDir(s, vaults[s].dir)
<1>1. vaults' = [vaults EXCEPT ![s].user = u] /\ UNCHANGED <<file, backups>>
  BY DEF Written, SetUsername
<1> QED
  BY <1>1 DEF VaultRec, Same, HasDir, HasUser, HasKey

LEMMA WritesBackup ==
    ASSUME NEW s, NEW u, NEW k, Written(Backup(s, u, k))
    PROVE  backups' = [backups EXCEPT ![s][u] = k] /\ UNCHANGED <<file, vaults>>
  BY DEF Written, Backup

LEMMA DropsVault ==
    ASSUME vaults \in [Servers -> VaultRec], NEW s \in Servers, Written(DropVault(s))
    PROVE  /\ vaults' \in [Servers -> VaultRec] /\ UNCHANGED <<file, backups>>
           /\ Same(s) /\ HasUser(s, Absent) /\ HasKey(s, Absent) /\ HasDir(s, FALSE)
<1>1. vaults' = [vaults EXCEPT ![s] = Empty] /\ UNCHANGED <<file, backups>>
  BY DEF Written, DropVault
<1> QED
  BY <1>1 DEF VaultRec, Empty, Same, HasDir, HasUser, HasKey

Rest == UNCHANGED <<file, backups, opened, index, swapped>>

WroteVault ==
    /\ Ensuring /\ todo' = <<SaveIndex>>
    /\ Same(cmd.srv) /\ HasDir(cmd.srv, TRUE)
    /\ HasUser(cmd.srv, vaults[cmd.srv].user) /\ HasKey(cmd.srv, vaults[cmd.srv].key)
    /\ opened' = opened \cup {cmd.srv} /\ index' = Ensure(index, cmd.srv)
    /\ UNCHANGED <<file, backups, swapped>>

WroteIndex ==
    /\ \/ Ensuring /\ cmd.srv \in opened /\ todo' = <<>>
       \/ Finishing /\ todo' = <<>>
       \/ Finishing /\ cmd.op = "remove"
          /\ \E s \in Servers : Forgotten(s) /\ todo' = <<DropVault(s)>>
    /\ file' = index
    /\ UNCHANGED <<vaults, backups, opened, index, swapped>>

\* The account that register will ask with.
WroteAccount ==
    /\ Opening /\ cmd.op = "register" /\ vaults[cmd.srv].key = Absent /\ todo' = <<>>
    /\ Same(cmd.srv) /\ HasKey(cmd.srv, cmd.key)
    /\ HasUser(cmd.srv, vaults[cmd.srv].user) /\ HasDir(cmd.srv, vaults[cmd.srv].dir)
    /\ Rest

\* The name that the server has granted.
WroteName ==
    /\ Storing /\ cmd.op = "register"
    /\ todo' = <<SaveAccount(cmd.srv, cmd.key), Backup(cmd.srv, cmd.user, cmd.key)>>
    /\ Same(cmd.srv) /\ HasUser(cmd.srv, cmd.user)
    /\ HasKey(cmd.srv, vaults[cmd.srv].key) /\ HasDir(cmd.srv, vaults[cmd.srv].dir)
    /\ Rest

\* The account with its new one-time keys.
WroteAgain ==
    /\ Storing /\ vaults[cmd.srv].user = cmd.user
    /\ \/ cmd.op = "register" /\ todo' = <<Backup(cmd.srv, cmd.user, cmd.key)>>
       \/ cmd.op = "connect" /\ todo' = <<>>
    /\ Same(cmd.srv) /\ HasUser(cmd.srv, vaults[cmd.srv].user)
    /\ HasKey(cmd.srv, vaults[cmd.srv].key) /\ HasDir(cmd.srv, vaults[cmd.srv].dir)
    /\ Rest

WroteBackup(s, u, k) ==
    /\ \/ /\ Storing /\ cmd.op = "register" /\ vaults[cmd.srv].user = cmd.user
          /\ s = cmd.srv /\ u = cmd.user /\ k = cmd.key
       \/ Finishing
    /\ todo' = <<>>
    /\ s \in broken \/ registry[s][u] = k
    /\ backups' = [backups EXCEPT ![s][u] = k]
    /\ UNCHANGED <<file, vaults, opened, index, swapped>>

WroteImport ==
    /\ Importing /\ todo' = <<SetUsername(cmd.srv, cmd.user)>>
    /\ Same(cmd.srv) /\ HasKey(cmd.srv, backups[cmd.srv][cmd.user])
    /\ HasUser(cmd.srv, vaults[cmd.srv].user) /\ HasDir(cmd.srv, vaults[cmd.srv].dir)
    /\ swapped' = IF link[cmd.srv] # Absent THEN swapped \cup {cmd.srv} ELSE swapped
    /\ UNCHANGED <<file, backups, opened, index>>

WroteImported ==
    /\ Importing /\ Replaced /\ Writing("username") /\ todo' = <<>>
    /\ Same(cmd.srv) /\ HasUser(cmd.srv, cmd.user)
    /\ HasKey(cmd.srv, vaults[cmd.srv].key) /\ HasDir(cmd.srv, vaults[cmd.srv].dir)
    /\ Rest

WroteDrop(s) ==
    /\ Finishing /\ cmd.op = "remove" /\ Forgotten(s) /\ todo' = <<>>
    /\ file # Absent => file[s] = Absent
    /\ Same(s) /\ HasUser(s, Absent) /\ HasKey(s, Absent) /\ HasDir(s, FALSE)
    /\ Rest

\* Every write is one of these, and no write but the last of an import is
\* between the two of an import.
Wrote ==
    \/ WroteVault \/ WroteIndex \/ WroteAccount \/ WroteName \/ WroteAgain
    \/ \E s \in Servers, u \in Names, k \in Keys : WroteBackup(s, u, k)
    \/ WroteImport \/ WroteImported \/ \E s \in Servers : WroteDrop(s)

LEMMA WriteEffect ==
    ASSUME DInv, Write
    PROVE  /\ Wrote
           /\ vaults' \in [Servers -> VaultRec]
           /\ backups' \in [Servers -> [Names -> Keys \cup {Absent}]]
           /\ UNCHANGED <<registry, active, link, conns, cmd, commands, faults, broken>>
<1>0. /\ todo # <<>> /\ Written(Head(todo)) /\ todo' = Tail(todo)
      /\ Writing("vault") =>
            opened' = opened \cup {Head(todo).srv} /\ index' = Ensure(index, Head(todo).srv)
      /\ ~Writing("vault") => UNCHANGED <<opened, index>>
      /\ swapped' = IF cmd.op = "import" /\ Writing("account")
                       /\ link[Head(todo).srv] # Absent
                    THEN swapped \cup {Head(todo).srv} ELSE swapped
      /\ UNCHANGED <<registry, active, link, conns, cmd, commands, faults, broken>>
  BY DEF Write, count
<1>1. vaults \in [Servers -> VaultRec] /\ backups \in [Servers -> [Names -> Keys \cup {Absent}]]
  BY DEF DInv, TypeOK, VaultRec
<1>2. ASSUME NEW s \in Servers, Head(todo) = MakeVault(s)
      PROVE  /\ vaults' \in [Servers -> VaultRec] /\ UNCHANGED <<file, backups, swapped>>
             /\ Same(s) /\ HasDir(s, TRUE) /\ HasUser(s, vaults[s].user) /\ HasKey(s, vaults[s].key)
             /\ opened' = opened \cup {s} /\ index' = Ensure(index, s)
  <2>1. Writing("vault") /\ ~Writing("account") /\ Head(todo).srv = s
    BY <1>0, <1>2, FileOf DEF Writing
  <2> QED
    BY <1>0, <1>1, <1>2, <2>1, WritesVault DEF Rest
<1>3. ASSUME Head(todo) = SaveIndex
      PROVE  file' = index /\ UNCHANGED <<vaults, backups, opened, index, swapped>>
  <2>1. ~Writing("vault") /\ ~Writing("account")
    BY <1>0, <1>3, FileOf DEF Writing
  <2> QED
    BY <1>0, <1>3, <2>1, WritesIndex
<1>4. ASSUME NEW s \in Servers, NEW k \in Keys \cup {Absent}, Head(todo) = SaveAccount(s, k)
      PROVE  /\ vaults' \in [Servers -> VaultRec] /\ UNCHANGED <<file, backups, opened, index>>
             /\ Same(s) /\ HasKey(s, k) /\ HasUser(s, vaults[s].user) /\ HasDir(s, vaults[s].dir)
             /\ swapped' = IF cmd.op = "import" /\ link[s] # Absent THEN swapped \cup {s} ELSE swapped
  <2>1. ~Writing("vault") /\ Writing("account") /\ Head(todo).srv = s
    BY <1>0, <1>4, FileOf DEF Writing
  <2> QED
    BY <1>0, <1>1, <1>4, <2>1, WritesAccount DEF Rest
<1>5. ASSUME NEW s \in Servers, NEW u \in Names, Head(todo) = SetUsername(s, u)
      PROVE  /\ vaults' \in [Servers -> VaultRec] /\ Rest /\ Writing("username")
             /\ Same(s) /\ HasUser(s, u) /\ HasKey(s, vaults[s].key) /\ HasDir(s, vaults[s].dir)
  <2>1. ~Writing("vault") /\ ~Writing("account") /\ Writing("username")
    BY <1>0, <1>5, FileOf DEF Writing
  <2> QED
    BY <1>0, <1>1, <1>5, <2>1, WritesUsername DEF Rest
<1>6. ASSUME NEW s \in Servers, NEW u \in Names, NEW k \in Keys, Head(todo) = Backup(s, u, k)
      PROVE  /\ backups' = [backups EXCEPT ![s][u] = k]
             /\ backups' \in [Servers -> [Names -> Keys \cup {Absent}]]
             /\ UNCHANGED <<file, vaults, opened, index, swapped>>
  <2>1. ~Writing("vault") /\ ~Writing("account")
    BY <1>0, <1>6, FileOf DEF Writing
  <2>2. backups' = [backups EXCEPT ![s][u] = k] /\ UNCHANGED <<file, vaults>>
    BY <1>0, <1>6, WritesBackup
  <2>3. backups' \in [Servers -> [Names -> Keys \cup {Absent}]]
    BY <1>1, <2>2
  <2> QED
    BY <1>0, <2>1, <2>2, <2>3
<1>7. ASSUME NEW s \in Servers, Head(todo) = DropVault(s)
      PROVE  /\ vaults' \in [Servers -> VaultRec] /\ Rest
             /\ Same(s) /\ HasUser(s, Absent) /\ HasKey(s, Absent) /\ HasDir(s, FALSE)
  <2>1. ~Writing("vault") /\ ~Writing("account")
    BY <1>0, <1>7, FileOf DEF Writing
  <2> QED
    BY <1>0, <1>1, <1>7, <2>1, DropsVault DEF Rest
<1>8. CASE Ensuring
  <2>1. CASE todo = <<MakeVault(cmd.srv), SaveIndex>>
    <3>1. Head(todo) = MakeVault(cmd.srv) /\ todo' = <<SaveIndex>> /\ cmd.srv \in Servers
      BY <1>0, <1>8, <2>1, HeadTail DEF Ensuring
    <3>2. WroteVault /\ vaults' \in [Servers -> VaultRec] /\ backups' = backups
      BY <3>1, <1>2, <1>8 DEF WroteVault
    <3> QED
      BY <3>2, <1>0, <1>1 DEF Wrote
  <2>2. CASE todo = <<SaveIndex>> /\ cmd.srv \in opened
    <3>1. Head(todo) = SaveIndex /\ todo' = <<>>
      BY <1>0, <2>2, HeadTail
    <3>2. WroteIndex /\ UNCHANGED <<vaults, backups>>
      BY <3>1, <1>3, <1>8, <2>2 DEF WroteIndex
    <3> QED
      BY <3>2, <1>0, <1>1 DEF Wrote
  <2> QED
    BY <1>0, <1>8, <2>1, <2>2 DEF Ensuring
<1>9. CASE Opening
  <2>1. /\ todo = <<SaveAccount(cmd.srv, cmd.key)>> /\ cmd.op = "register"
        /\ vaults[cmd.srv].key = Absent /\ cmd.srv \in Servers /\ cmd.key \in Keys
    BY <1>0, <1>9 DEF Opening, Asking
  <2>2. Head(todo) = SaveAccount(cmd.srv, cmd.key) /\ todo' = <<>>
    BY <1>0, <2>1, HeadTail
  <2>3. WroteAccount /\ vaults' \in [Servers -> VaultRec] /\ backups' = backups
    BY <2>1, <2>2, <1>4, <1>9 DEF WroteAccount, Rest
  <2> QED
    BY <2>3, <1>0, <1>1 DEF Wrote
<1>10. CASE Storing
  <2>0. /\ cmd.srv \in Servers /\ cmd.user \in Names /\ cmd.key \in Keys
        /\ vaults[cmd.srv].key = cmd.key
        /\ cmd.op = "connect" => vaults[cmd.srv].user = cmd.user
        /\ registry[cmd.srv][cmd.user] = cmd.key
    BY <1>10 DEF Storing, Asked, Asking, Carried, DInv, ConnsSound
  <2>1. CASE /\ cmd.op = "register"
             /\ todo = <<SetUsername(cmd.srv, cmd.user), SaveAccount(cmd.srv, cmd.key),
                         Backup(cmd.srv, cmd.user, cmd.key)>>
    <3>1. /\ Head(todo) = SetUsername(cmd.srv, cmd.user)
          /\ todo' = <<SaveAccount(cmd.srv, cmd.key), Backup(cmd.srv, cmd.user, cmd.key)>>
      BY <1>0, <2>1, HeadTail
    <3>2. WroteName /\ vaults' \in [Servers -> VaultRec] /\ backups' = backups
      BY <3>1, <2>0, <2>1, <1>5, <1>10 DEF WroteName, Rest
    <3> QED
      BY <3>2, <1>0, <1>1 DEF Wrote
  <2>2. CASE /\ cmd.op = "register" /\ vaults[cmd.srv].user = cmd.user
             /\ todo = <<SaveAccount(cmd.srv, cmd.key), Backup(cmd.srv, cmd.user, cmd.key)>>
    <3>1. /\ Head(todo) = SaveAccount(cmd.srv, cmd.key)
          /\ todo' = <<Backup(cmd.srv, cmd.user, cmd.key)>>
      BY <1>0, <2>2, HeadTail
    <3>2. WroteAgain /\ vaults' \in [Servers -> VaultRec] /\ backups' = backups
      BY <3>1, <2>0, <2>2, <1>4, <1>10 DEF WroteAgain, Rest
    <3> QED
      BY <3>2, <1>0, <1>1 DEF Wrote
  <2>3. CASE /\ cmd.op = "register" /\ vaults[cmd.srv].user = cmd.user
             /\ todo = <<Backup(cmd.srv, cmd.user, cmd.key)>>
    <3>1. Head(todo) = Backup(cmd.srv, cmd.user, cmd.key) /\ todo' = <<>>
      BY <1>0, <2>3, HeadTail
    <3>2. /\ WroteBackup(cmd.srv, cmd.user, cmd.key) /\ vaults' = vaults
          /\ backups' \in [Servers -> [Names -> Keys \cup {Absent}]]
      BY <3>1, <2>0, <2>3, <1>6, <1>10 DEF WroteBackup
    <3> QED
      BY <3>2, <2>0, <1>0, <1>1 DEF Wrote
  <2>4. CASE cmd.op = "connect" /\ todo = <<SaveAccount(cmd.srv, cmd.key)>>
    <3>1. Head(todo) = SaveAccount(cmd.srv, cmd.key) /\ todo' = <<>>
      BY <1>0, <2>4, HeadTail
    <3>2. WroteAgain /\ vaults' \in [Servers -> VaultRec] /\ backups' = backups
      BY <3>1, <2>0, <2>4, <1>4, <1>10 DEF WroteAgain, Rest
    <3> QED
      BY <3>2, <1>0, <1>1 DEF Wrote
  <2> QED
    BY <1>0, <1>10, <2>1, <2>2, <2>3, <2>4 DEF Storing
<1>11. CASE Importing
  <2>0. /\ cmd.op = "import" /\ cmd.srv \in Servers /\ cmd.user \in Names
        /\ backups[cmd.srv][cmd.user] \in Keys \cup {Absent}
    BY <1>1, <1>11 DEF Importing
  <2>1. CASE todo = <<SaveAccount(cmd.srv, backups[cmd.srv][cmd.user]),
                      SetUsername(cmd.srv, cmd.user)>>
    <3>1. /\ Head(todo) = SaveAccount(cmd.srv, backups[cmd.srv][cmd.user])
          /\ todo' = <<SetUsername(cmd.srv, cmd.user)>>
      BY <1>0, <2>1, HeadTail
    <3>2. WroteImport /\ vaults' \in [Servers -> VaultRec] /\ backups' = backups
      BY <3>1, <2>0, <1>4, <1>11 DEF WroteImport
    <3> QED
      BY <3>2, <1>0, <1>1 DEF Wrote
  <2>2. CASE todo = <<SetUsername(cmd.srv, cmd.user)>> /\ Replaced
    <3>1. Head(todo) = SetUsername(cmd.srv, cmd.user) /\ todo' = <<>>
      BY <1>0, <2>2, HeadTail
    <3>2. WroteImported /\ vaults' \in [Servers -> VaultRec] /\ backups' = backups
      BY <3>1, <2>0, <2>2, <1>5, <1>11 DEF WroteImported, Rest
    <3> QED
      BY <3>2, <1>0, <1>1 DEF Wrote
  <2> QED
    BY <1>0, <1>11, <2>1, <2>2 DEF Importing
<1>12. CASE Finishing
  <2>1. CASE todo = <<SaveIndex>>
    <3>1. Head(todo) = SaveIndex /\ todo' = <<>>
      BY <1>0, <2>1, HeadTail
    <3>2. WroteIndex /\ UNCHANGED <<vaults, backups>>
      BY <3>1, <1>3, <1>12 DEF WroteIndex
    <3> QED
      BY <3>2, <1>0, <1>1 DEF Wrote
  <2>2. ASSUME NEW s \in Servers, cmd.op = "remove", Forgotten(s), todo = <<SaveIndex, DropVault(s)>>
        PROVE  WroteIndex /\ UNCHANGED <<vaults, backups>>
    <3>1. Head(todo) = SaveIndex /\ todo' = <<DropVault(s)>>
      BY <1>0, <2>2, HeadTail
    <3> QED
      BY <3>1, <1>3, <1>12, <2>2 DEF WroteIndex
  <2>3. ASSUME NEW s \in Servers, cmd.op = "remove", Forgotten(s), todo = <<DropVault(s)>>,
               file # Absent => file[s] = Absent
        PROVE  WroteDrop(s) /\ vaults' \in [Servers -> VaultRec] /\ backups' = backups
    <3>1. Head(todo) = DropVault(s) /\ todo' = <<>>
      BY <1>0, <2>3, HeadTail
    <3> QED
      BY <3>1, <1>7, <1>12, <2>3 DEF WroteDrop, Rest
  <2>4. ASSUME NEW s \in Servers, NEW u \in Names, NEW k \in Keys, cmd.op = "export",
               todo = <<Backup(s, u, k)>>, s \in broken \/ registry[s][u] = k
        PROVE  /\ WroteBackup(s, u, k) /\ vaults' = vaults
               /\ backups' \in [Servers -> [Names -> Keys \cup {Absent}]]
    <3>1. Head(todo) = Backup(s, u, k) /\ todo' = <<>>
      BY <1>0, <2>4, HeadTail
    <3> QED
      BY <3>1, <1>6, <1>12, <2>4 DEF WroteBackup
  <2>5. CASE \E s \in Servers :
                cmd.op = "remove" /\ Forgotten(s) /\ todo = <<SaveIndex, DropVault(s)>>
    BY <2>2, <2>5, <1>0, <1>1 DEF Wrote
  <2>6. CASE \E s \in Servers :
                /\ cmd.op = "remove" /\ Forgotten(s) /\ todo = <<DropVault(s)>>
                /\ file # Absent => file[s] = Absent
    BY <2>3, <2>6, <1>0, <1>1 DEF Wrote
  <2>7. CASE \E s \in Servers, u \in Names, k \in Keys :
                /\ cmd.op = "export" /\ todo = <<Backup(s, u, k)>>
                /\ s \in broken \/ registry[s][u] = k
    BY <2>4, <2>7, <1>0, <1>1 DEF Wrote
  <2> QED
    BY <1>0, <1>12, <2>1, <2>5, <2>6, <2>7 DEF Finishing
<1> QED
  BY <1>0, <1>8, <1>9, <1>10, <1>11, <1>12 DEF DInv, Stage, Resting, Down, Waiting

----------------------------------------------------------------------------
(* The invariant of the disk and of the stages: writes.                    *)

LEMMA EnsureFacts ==
    ASSUME NEW ix \in [Servers -> {Absent, "unnamed"} \cup Names], NEW s \in Servers
    PROVE  /\ Ensure(ix, s) \in [Servers -> {Absent, "unnamed"} \cup Names]
           /\ Ensure(ix, s)[s] # Absent
           /\ \A t \in Servers : Ensure(ix, s)[t] # ix[t] => t = s /\ Ensure(ix, s)[t] \notin Names
           /\ \A t \in Servers : ix[t] # Absent => Ensure(ix, s)[t] = ix[t]
<1>1. CASE Known(ix, s)
  BY <1>1 DEF Ensure, Known
<1>2. CASE ~Known(ix, s)
  BY <1>2, AppConstants DEF Ensure, Known
<1> QED
  BY <1>1, <1>2

LEMMA PrimedRecords == (Stage => \A i \in 1..Len(todo) : Records(todo[i]))'
<1>1. Stage => \A i \in 1..Len(todo) : Records(todo[i])
  BY StageRecords
<1> QED
  BY <1>1, PTL

LEMMA WriteStage ==
    ASSUME DInv, Wrote, vaults' \in [Servers -> VaultRec],
           UNCHANGED <<registry, active, link, conns, cmd, commands, faults, broken>>
    PROVE  Stage'
<1>0. \A s \in opened : s \in Servers
  BY DEF DInv, TypeOK
<1>1. CASE WroteVault
  <2>1. Ensuring'
    BY <1>1 DEF WroteVault, Ensuring
  <2> QED
    BY <2>1 DEF Stage
<1>2. CASE WroteIndex
  <2>1. CASE Ensuring /\ cmd.srv \in opened /\ todo' = <<>>
    <3>1. Ensuring'
      BY <1>2, <2>1 DEF WroteIndex, Ensuring
    <3> QED
      BY <3>1 DEF Stage
  <2>2. CASE Finishing /\ todo' = <<>>
    <3>1. Finishing'
      BY <2>2 DEF Finishing
    <3> QED
      BY <3>1 DEF Stage
  <2>3. ASSUME NEW s \in Servers, Finishing, cmd.op = "remove", Forgotten(s), todo' = <<DropVault(s)>>
        PROVE  Stage'
    <3>1. Forgotten(s)' /\ file'[s] = Absent
      BY <1>2, <2>3 DEF WroteIndex, Forgotten
    <3>2. cmd'.at = "done" /\ cmd'.conn = Absent /\ cmd'.op = "remove"
      BY <2>3 DEF Finishing
    <3>3. Finishing'
      BY <2>3, <3>1, <3>2 DEF Finishing
    <3> QED
      BY <3>3 DEF Stage
  <2> QED
    BY <1>2, <2>1, <2>2, <2>3 DEF WroteIndex
<1>3. CASE WroteAccount
  <2>1. Asking'
    BY <1>3 DEF WroteAccount, Opening, Asking, Rest, HasUser
  <2>2. Opening'
    BY <1>3, <2>1 DEF WroteAccount, Opening, HasKey
  <2> QED
    BY <2>2 DEF Stage
<1>4. CASE WroteName
  <2>1. Asked' /\ vaults'[cmd'.srv].user = cmd'.user
    BY <1>4 DEF WroteName, Storing, Asked, Asking, Rest, HasUser, HasKey
  <2>2. Carried' /\ conns'[cmd'.conn].answer = "ok" /\ cmd'.at = "stored" /\ cmd'.op = "register"
    BY <1>4 DEF WroteName, Storing, Carried
  <2>3. todo' = <<SaveAccount(cmd'.srv, cmd'.key), Backup(cmd'.srv, cmd'.user, cmd'.key)>>
    BY <1>4 DEF WroteName
  <2>4. Storing'
    BY <2>1, <2>2, <2>3 DEF Storing, SaveAccount, Backup
  <2> QED
    BY <2>4 DEF Stage
<1>5. CASE WroteAgain
  <2>1. Asked' /\ vaults'[cmd'.srv].user = cmd'.user
    BY <1>5 DEF WroteAgain, Storing, Asked, Asking, Rest, HasUser, HasKey
  <2>2. Carried' /\ conns'[cmd'.conn].answer = "ok" /\ cmd'.at = "stored"
    BY <1>5 DEF WroteAgain, Storing, Carried
  <2>3. \/ cmd'.op = "register" /\ todo' = <<Backup(cmd'.srv, cmd'.user, cmd'.key)>>
        \/ todo' = <<>>
    BY <1>5 DEF WroteAgain
  <2>4. Storing'
    BY <2>1, <2>2, <2>3 DEF Storing, Backup
  <2> QED
    BY <2>4 DEF Stage
<1>6. ASSUME NEW s \in Servers, NEW u \in Names, NEW k \in Keys, WroteBackup(s, u, k)
      PROVE  Stage'
  <2>1. CASE Storing /\ vaults[cmd.srv].user = cmd.user
    <3>1. Asked' /\ vaults'[cmd'.srv].user = cmd'.user
      BY <1>6, <2>1 DEF WroteBackup, Storing, Asked, Asking
    <3>2. Carried' /\ conns'[cmd'.conn].answer = "ok" /\ cmd'.at = "stored" /\ todo' = <<>>
      BY <1>6, <2>1 DEF WroteBackup, Storing, Carried
    <3>3. Storing'
      BY <3>1, <3>2 DEF Storing
    <3> QED
      BY <3>3 DEF Stage
  <2>2. CASE Finishing
    <3>1. Finishing'
      BY <1>6, <2>2 DEF WroteBackup, Finishing
    <3> QED
      BY <3>1 DEF Stage
  <2> QED
    BY <1>6, <2>1, <2>2 DEF WroteBackup
<1>7. CASE WroteImport
  <2>1. Replaced'
    BY <1>7 DEF WroteImport, Importing, Replaced, HasKey
  <2>2. /\ cmd'.at = "stored" /\ cmd'.op = "import" /\ cmd'.conn = Absent
        /\ cmd'.srv \in Servers /\ cmd'.srv \in opened' /\ cmd'.user \in Names
        /\ backups'[cmd'.srv][cmd'.user] # Absent
    BY <1>7 DEF WroteImport, Importing
  <2>3. todo' = <<SetUsername(cmd'.srv, cmd'.user)>>
    BY <1>7 DEF WroteImport
  <2>4. Importing'
    BY <2>1, <2>2, <2>3 DEF Importing, SetUsername
  <2> QED
    BY <2>4 DEF Stage
<1>8. CASE WroteImported
  <2>1. Replaced' /\ vaults'[cmd'.srv].user = cmd'.user
    BY <1>8 DEF WroteImported, Importing, Replaced, HasKey, HasUser, Rest
  <2>2. /\ cmd'.at = "stored" /\ cmd'.op = "import" /\ cmd'.conn = Absent
        /\ cmd'.srv \in Servers /\ cmd'.srv \in opened' /\ cmd'.user \in Names
        /\ backups'[cmd'.srv][cmd'.user] # Absent
    BY <1>8 DEF WroteImported, Importing, Rest
  <2>3. Importing'
    BY <1>8, <2>1, <2>2 DEF Importing, WroteImported
  <2> QED
    BY <2>3 DEF Stage
<1>9. ASSUME NEW s \in Servers, WroteDrop(s) PROVE Stage'
  <2>1. Finishing'
    BY <1>9 DEF WroteDrop, Finishing
  <2> QED
    BY <2>1 DEF Stage
<1> QED
  BY <1>1, <1>2, <1>3, <1>4, <1>5, <1>6, <1>7, <1>8, <1>9 DEF Wrote

\* Register and import write the vault before the index, remove_server the
\* index before the vault.
LEMMA WriteBacked ==
    ASSUME DInv, Wrote, vaults' \in [Servers -> VaultRec]
    PROVE  MemoryBacked' /\ IndexBacked'
<1>0. Absent \notin Names /\ Absent \notin Keys
  BY AppConstants
<1>1. ASSUME NEW s \in Servers, Same(s), UNCHANGED <<file, opened, index>>,
             \/ HasUser(s, vaults[s].user) /\ HasDir(s, vaults[s].dir) /\ vaults'[s].key # Absent
             \/ HasUser(s, Absent) /\ ~(index[s] \in Names) /\ s \notin opened
                /\ (file # Absent => ~(file[s] \in Names))
             \/ HasUser(s, vaults'[s].user) /\ vaults'[s].user # Absent
                /\ HasDir(s, vaults[s].dir) /\ vaults[s].dir /\ vaults'[s].key # Absent
      PROVE  MemoryBacked' /\ IndexBacked'
  <2>1. MemoryBacked'
    BY <1>1 DEF DInv, MemoryBacked, Same, HasUser, HasDir
  <2>2. IndexBacked'
    BY <1>1 DEF DInv, IndexBacked, Same, HasUser, HasDir
  <2> QED
    BY <2>1, <2>2
<1>2. CASE WroteVault
  <2>0. cmd.srv \in Servers /\ index \in [Servers -> {Absent, "unnamed"} \cup Names]
    BY <1>2 DEF WroteVault, Ensuring, DInv, TypeOK
  <2>1. /\ file' = file /\ opened' = opened \cup {cmd.srv}
        /\ \A t \in Servers : index'[t] \in Names => index'[t] = index[t]
    BY <1>2, <2>0, EnsureFacts DEF WroteVault
  <2>2. \A t \in Servers : /\ vaults'[t].user = vaults[t].user /\ vaults'[t].key = vaults[t].key
                           /\ vaults[t].dir \/ t = cmd.srv => vaults'[t].dir
    BY <1>2 DEF WroteVault, Same, HasUser, HasKey, HasDir
  <2>3. MemoryBacked'
    BY <2>1, <2>2 DEF DInv, MemoryBacked
  <2>4. IndexBacked'
    BY <2>1, <2>2 DEF DInv, IndexBacked
  <2> QED
    BY <2>3, <2>4
<1>3. CASE WroteIndex
  <2>1. MemoryBacked'
    BY <1>3 DEF DInv, MemoryBacked, WroteIndex
  <2>2. IndexBacked'
    BY <1>3 DEF DInv, IndexBacked, MemoryBacked, WroteIndex
  <2> QED
    BY <2>1, <2>2
<1>4. CASE WroteAccount
  <2>1. cmd.srv \in Servers /\ cmd.key \in Keys
    BY <1>4 DEF WroteAccount, Opening, Asking
  <2> QED
    BY <1>0, <1>1, <1>4, <2>1 DEF WroteAccount, HasKey, Rest
<1>5. CASE WroteName
  <2>1. /\ cmd.srv \in Servers /\ cmd.srv \in opened /\ cmd.key \in Keys /\ cmd.user \in Names
        /\ vaults[cmd.srv].key = cmd.key
    BY <1>5 DEF WroteName, Storing, Asked, Asking
  <2>2. vaults[cmd.srv].dir
    BY <2>1 DEF DInv, MemoryBacked
  <2> QED
    BY <1>0, <1>1, <1>5, <2>1, <2>2 DEF WroteName, HasKey, HasUser, HasDir, Rest
<1>6. CASE WroteAgain
  <2>1. /\ cmd.srv \in Servers /\ cmd.key \in Keys /\ vaults[cmd.srv].key = cmd.key
    BY <1>6 DEF WroteAgain, Storing, Asked, Asking
  <2> QED
    BY <1>0, <1>1, <1>6, <2>1 DEF WroteAgain, HasKey, Rest
<1>7. ASSUME NEW s \in Servers, NEW u \in Names, NEW k \in Keys, WroteBackup(s, u, k)
      PROVE  MemoryBacked' /\ IndexBacked'
  BY <1>7 DEF WroteBackup, DInv, MemoryBacked, IndexBacked
<1>8. CASE WroteImport
  <2>1. cmd.srv \in Servers /\ backups[cmd.srv][cmd.user] # Absent
    BY <1>8 DEF WroteImport, Importing
  <2> QED
    BY <1>1, <1>8, <2>1 DEF WroteImport, HasKey
<1>9. CASE WroteImported
  <2>1. /\ cmd.srv \in Servers /\ cmd.srv \in opened /\ cmd.user \in Names
        /\ vaults[cmd.srv].key # Absent
    BY <1>9 DEF WroteImported, Importing, Replaced
  <2>2. vaults[cmd.srv].dir
    BY <2>1 DEF DInv, MemoryBacked
  <2> QED
    BY <1>0, <1>1, <1>9, <2>1, <2>2 DEF WroteImported, HasKey, HasUser, HasDir, Rest
<1>10. ASSUME NEW s \in Servers, WroteDrop(s) PROVE MemoryBacked' /\ IndexBacked'
  BY <1>0, <1>1, <1>10 DEF WroteDrop, Forgotten, Rest
<1> QED
  BY <1>2, <1>3, <1>4, <1>5, <1>6, <1>7, <1>8, <1>9, <1>10 DEF Wrote

LEMMA WriteDInv ==
    ASSUME DInv, Write PROVE DInv'
<1>1. /\ Wrote /\ vaults' \in [Servers -> VaultRec]
      /\ backups' \in [Servers -> [Names -> Keys \cup {Absent}]]
      /\ UNCHANGED <<registry, active, link, conns, cmd, commands, faults, broken>>
  BY WriteEffect
<1>2. Stage'
  BY <1>1, WriteStage
<1>3. MemoryBacked' /\ IndexBacked'
  BY <1>1, WriteBacked
<1>4. Shape' /\ ConnsSound'
  BY <1>1 DEF DInv, Shape, ConnsSound
<1>5. /\ index' \in [Servers -> {Absent, "unnamed"} \cup Names]
      /\ opened' \subseteq {s \in Servers : Known(index', s)}
      /\ opened \subseteq opened'
  <2>1. CASE WroteVault
    <3>1. cmd.srv \in Servers /\ index \in [Servers -> {Absent, "unnamed"} \cup Names]
          /\ opened \subseteq {s \in Servers : Known(index, s)}
      BY <2>1 DEF WroteVault, Ensuring, DInv, TypeOK
    <3> QED
      BY <2>1, <3>1, EnsureFacts DEF WroteVault, Known
  <2>2. CASE ~WroteVault
    <3>1. UNCHANGED <<opened, index>>
      BY <1>1, <2>2 DEF Wrote, WroteIndex, WroteAccount, WroteName, WroteAgain, WroteBackup,
                        WroteImport, WroteImported, WroteDrop, Rest
    <3> QED
      BY <3>1 DEF DInv, TypeOK, Known
  <2> QED
    BY <2>1, <2>2
<1>6. file' \in [Servers -> {Absent, "unnamed"} \cup Names] \cup {Absent}
  <2>1. file' = file \/ file' = index
    BY <1>1 DEF Wrote, WroteVault, WroteIndex, WroteAccount, WroteName, WroteAgain, WroteBackup,
                WroteImport, WroteImported, WroteDrop, Rest
  <2> QED
    BY <2>1 DEF DInv, TypeOK
<1>7. \A i \in 1..Len(todo') : Records(todo'[i])
  BY <1>2, PrimedRecords
<1>8. TypeOK'
  BY <1>1, <1>5, <1>6, <1>7 DEF DInv, TypeOK, VaultRec
<1> QED
  BY <1>2, <1>3, <1>4, <1>8 DEF DInv

----------------------------------------------------------------------------
(* Connections that end.                                                   *)

ConnRecs == Requests \cup {NoConn}

SameRequest(c) ==
    /\ conns'[c].srv = conns[c].srv /\ conns'[c].op = conns[c].op
    /\ conns'[c].user = conns[c].user /\ conns'[c].key = conns[c].key

\* A connection goes on, loses its reader or is gone.
Fades(c) ==
    /\ conns'[c] \in ConnRecs
    /\ \/ conns'[c] = NoConn
       \/ /\ SameRequest(c) /\ conns'[c].answer = conns[c].answer
          /\ conns'[c].reader => conns[c].reader

Fade == conns' \in [Conns -> ConnRecs] /\ \A c \in Conns : Fades(c)

LEMMA StoppedFacts ==
    ASSUME NEW cs \in [Conns -> ConnRecs], NEW d \in Conns \cup {Absent}
    PROVE  /\ Stopped(cs, d) \in [Conns -> ConnRecs]
           /\ \A c \in Conns \ {d} : Stopped(cs, d)[c] = cs[c]
           /\ d \in Conns =>
                 /\ ~Stopped(cs, d)[d].reader
                 /\ cs[d].answer # "none" => Stopped(cs, d)[d] = NoConn
                 /\ cs[d].answer = "none" =>
                       /\ Stopped(cs, d)[d].answer = "none"
                       /\ Stopped(cs, d)[d].srv = cs[d].srv /\ Stopped(cs, d)[d].op = cs[d].op
                       /\ Stopped(cs, d)[d].user = cs[d].user /\ Stopped(cs, d)[d].key = cs[d].key
<1>1. CASE d = Absent
  <2>1. Stopped(cs, d) = cs /\ d \notin Conns
    BY <1>1, AppConstants DEF Stopped
  <2> QED
    BY <2>1
<1>2. CASE d # Absent
  <2>1. d \in Conns /\ cs[d] \in ConnRecs
    BY <1>2
  <2>2. PICK n \in ConnRecs :
           n = IF cs[d].answer = "none" THEN [cs[d] EXCEPT !.reader = FALSE] ELSE NoConn
    <3>1. [NoConn EXCEPT !.reader = FALSE] = NoConn
      <4> DEFINE R == [srv : {Absent}, op : {"none"}, user : {Absent}, key : {Absent},
                       answer : {"none"}, reader : {FALSE}]
      <4>1. NoConn \in R
        BY DEF NoConn
      <4>2. [NoConn EXCEPT !.reader = FALSE] \in R
        BY <4>1
      <4> QED
        BY <4>1, <4>2
    <3>2. cs[d] \in Requests => [cs[d] EXCEPT !.reader = FALSE] \in Requests
      BY DEF Requests
    <3> QED
      BY <2>1, <3>1, <3>2 DEF ConnRecs
  <2>3. Stopped(cs, d) = [cs EXCEPT ![d] = n]
    BY <1>2, <2>1, <2>2 DEF Stopped
  <2>4. /\ ~n.reader
        /\ cs[d].answer # "none" => n = NoConn
        /\ cs[d].answer = "none" =>
              /\ n.answer = "none" /\ n.srv = cs[d].srv /\ n.op = cs[d].op
              /\ n.user = cs[d].user /\ n.key = cs[d].key
    BY <2>1, <2>2 DEF ConnRecs, Requests, NoConn
  <2> QED
    BY <2>1, <2>3, <2>4
<1> QED
  BY <1>1, <1>2

LEMMA StopFades ==
    ASSUME ConnsSound, NEW d \in Conns \cup {Absent}, conns' = Stopped(conns, d)
    PROVE  Fade
<1>1. conns \in [Conns -> ConnRecs]
  BY DEF ConnsSound, ConnRecs
<1>2. /\ conns' \in [Conns -> ConnRecs]
      /\ \A c \in Conns \ {d} : conns'[c] = conns[c]
      /\ d \in Conns =>
            /\ ~conns'[d].reader
            /\ conns[d].answer # "none" => conns'[d] = NoConn
            /\ conns[d].answer = "none" =>
                  /\ conns'[d].answer = "none" /\ SameRequest(d)
  BY <1>1, StoppedFacts DEF SameRequest
<1>3. \A c \in Conns : Fades(c)
  BY <1>2 DEF Fades, SameRequest
<1> QED
  BY <1>2, <1>3 DEF Fade

LEMMA SameFades ==
    ASSUME ConnsSound, conns' = conns PROVE Fade
  BY DEF ConnsSound, Fade, Fades, SameRequest, ConnRecs

LEMMA PruneFacts ==
    ASSUME DInv
    PROVE  /\ Pruned \in [Servers -> Conns \cup {Absent}]
           /\ \A s \in Servers : Pruned[s] = link[s] \/ Pruned[s] = Absent
           /\ Kept \in [Conns -> ConnRecs]
           /\ \A c \in Conns : Kept[c] = conns[c] \/ Kept[c] = NoConn
<1>1. link \in [Servers -> Conns \cup {Absent}] /\ conns \in [Conns -> ConnRecs]
  BY DEF DInv, TypeOK, ConnsSound, ConnRecs
<1>2. /\ Pruned \in [Servers -> Conns \cup {Absent}]
      /\ \A s \in Servers : Pruned[s] = link[s] \/ Pruned[s] = Absent
  BY <1>1 DEF Pruned
<1>3. NoConn \in ConnRecs
  BY DEF ConnRecs
<1>4. \A c \in Conns : Kept[c] = conns[c] \/ Kept[c] = NoConn
  BY DEF Kept
<1>5. Kept \in [Conns -> ConnRecs]
  BY <1>1, <1>3 DEF Kept
<1> QED
  BY <1>2, <1>4, <1>5

LEMMA PruneFades ==
    ASSUME DInv, conns' = Kept PROVE Fade
<1>1. conns' \in [Conns -> ConnRecs] /\ \A c \in Conns : conns'[c] = conns[c] \/ conns'[c] = NoConn
  BY PruneFacts
<1>2. \A c \in Conns : Fades(c)
  BY <1>1 DEF Fades, SameRequest
<1> QED
  BY <1>1, <1>2 DEF Fade

Grown ==
    /\ registry' \in [Servers -> [Names -> Keys \cup {Absent}]]
    /\ \A s \in Servers, u \in Names : registry[s][u] # Absent => registry'[s][u] = registry[s][u]

LEMMA FadeSound ==
    ASSUME DInv, Fade, registry' = registry PROVE ConnsSound'
<1>1. conns' \in [Conns -> Requests \cup {NoConn}]
  BY DEF Fade, ConnRecs
<1>2. ASSUME NEW c \in Conns, conns'[c].answer = "ok"
      PROVE  registry[conns'[c].srv][conns'[c].user] = conns'[c].key
  <2>1. conns'[c] # NoConn
    BY <1>2, NoConnFields
  <2>2. SameRequest(c) /\ conns[c].answer = "ok"
    BY <1>2, <2>1 DEF Fade, Fades
  <2> QED
    BY <2>2 DEF SameRequest, DInv, ConnsSound
<1> QED
  BY <1>1, <1>2 DEF ConnsSound

----------------------------------------------------------------------------
(* The invariant of the disk and of the stages: the other steps.           *)

Counts == commands' \in 0..MaxCommands /\ faults' \in 0..MaxFaults

LEMMA FaultCounts ==
    ASSUME DInv, Fault PROVE Counts /\ faults' = faults + 1 /\ faults' > 0
  BY AppConstants DEF DInv, TypeOK, Fault, Counts

LEMMA OrderCounts ==
    ASSUME DInv, commands < MaxCommands, commands' = commands + 1, faults' = faults
    PROVE Counts
  BY AppConstants DEF DInv, TypeOK, Counts

LEMMA SameCounts ==
    ASSUME DInv, UNCHANGED count PROVE Counts
  BY DEF DInv, TypeOK, Counts, count

\* Links that stay or go, and at most one that comes.
Links ==
    /\ link' \in [Servers -> Conns \cup {Absent}]
    /\ \A s \in Servers : link'[s] = link[s] \/ link'[s] = Absent \/ s \in opened

LEMMA DFrame ==
    ASSUME DInv, Stage', Shape', ConnsSound', Counts, Links,
           UNCHANGED <<registry, disk, index, opened>>, active' \in opened \cup {Absent}
    PROVE  DInv'
<1>0. UNCHANGED <<registry, file, vaults, backups, index, opened>>
  BY DEF disk
<1>1. MemoryBacked'
  BY <1>0 DEF DInv, MemoryBacked
<1>2. IndexBacked'
  BY <1>0 DEF DInv, IndexBacked
<1>3. \A i \in 1..Len(todo') : Records(todo'[i])
  BY PrimedRecords
<1>4. \A s \in Servers : link'[s] # Absent => s \in opened
  BY DEF DInv, TypeOK, Links
<1>5. TypeOK'
  BY <1>0, <1>3, <1>4 DEF DInv, TypeOK, Counts, Links, Known
<1> QED
  BY <1>1, <1>2, <1>5 DEF DInv

LEMMA SameLinks ==
    ASSUME DInv, link' = link PROVE Links
  BY DEF DInv, TypeOK, Links

LEMMA IdleShape ==
    ASSUME cmd' = Idle, todo' = <<>> PROVE Shape' /\ Stage'
  BY DEF Shape, Idle, Stage, Resting

\* The command ends.
LEMMA LeaveD ==
    ASSUME DInv, cmd' = Idle, todo' = <<>>, Counts, Links, Fade,
           UNCHANGED <<registry, disk, index, opened>>, active' \in opened \cup {Absent}
    PROVE  DInv'
  BY DFrame, IdleShape, FadeSound

LEMMA SameActive ==
    ASSUME DInv, active' = active PROVE active' \in opened \cup {Absent}
  BY DEF DInv, TypeOK

\* A write that fails ends the command, or is passed over.
LEMMA WriteFailsD ==
    ASSUME DInv, WriteFails PROVE DInv'
<1>0. /\ todo # <<>> /\ UNCHANGED <<registry, disk, memory, conns, swapped>>
      /\ Ignored(Head(todo)) => todo' = Tail(todo) /\ UNCHANGED <<cmd, broken>>
      /\ ~Ignored(Head(todo)) => todo' = <<>> /\ cmd' = Idle
  BY DEF WriteFails
<1>1. UNCHANGED <<registry, file, vaults, backups, index, opened, active, link, conns, swapped>>
  BY <1>0 DEF disk, memory
<1>2. Counts
  BY FaultCounts DEF WriteFails
<1>3. Links /\ Fade /\ active' \in opened \cup {Absent}
  BY <1>1, SameLinks, SameFades, SameActive DEF DInv
<1>4. CASE ~Ignored(Head(todo))
  BY <1>0, <1>1, <1>2, <1>3, <1>4, LeaveD
<1>5. CASE Ignored(Head(todo))
  <2>0. UNCHANGED <<cmd, broken>> /\ todo' = Tail(todo)
    BY <1>0, <1>5
  <2>1. Head(todo).file = "drop" \/ (Head(todo).file = "backup" /\ cmd.op = "register")
    BY <1>5 DEF Ignored
  <2>2. ASSUME Finishing PROVE Stage'
    <3>1. ASSUME NEW s, todo = <<DropVault(s)>> PROVE todo' = <<>>
      BY <2>0, <3>1, HeadTail
    <3>2. todo # <<SaveIndex>> /\ \A s : todo # <<SaveIndex, DropVault(s)>>
      BY <2>1, HeadTail, FileOf
    <3>3. todo' = <<>>
      BY <1>0, <2>1, <2>2, <3>1, <3>2 DEF Finishing
    <3>4. Finishing'
      BY <2>0, <2>2, <3>3 DEF Finishing
    <3> QED
      BY <3>4 DEF Stage
  <2>3. ASSUME Storing PROVE Stage'
    <3>1. /\ Asked /\ Carried /\ conns[cmd.conn].answer = "ok" /\ cmd.at = "stored"
      BY <2>3 DEF Storing
    <3>2. /\ \A s, u, k, x, y : todo # <<SetUsername(s, u), x, y>>
          /\ \A s, k, x : todo # <<SaveAccount(s, k), x>> /\ todo # <<SaveAccount(s, k)>>
      BY <2>1, HeadTail, FileOf
    <3>3. vaults[cmd.srv].user = cmd.user /\ todo = <<Backup(cmd.srv, cmd.user, cmd.key)>>
      BY <1>0, <2>3, <3>2 DEF Storing
    <3>4. todo' = <<>>
      BY <2>0, <3>3, HeadTail
    <3>5. Asked' /\ Carried' /\ conns'[cmd'.conn].answer = "ok" /\ cmd'.at = "stored"
          /\ vaults'[cmd'.srv].user = cmd'.user
      BY <1>1, <2>0, <3>1, <3>3 DEF Asked, Asking, Carried
    <3>6. Storing'
      BY <3>4, <3>5 DEF Storing
    <3> QED
      BY <3>6 DEF Stage
  <2>4. ~Ensuring
    <3> SUFFICES ASSUME Ensuring PROVE FALSE
      OBVIOUS
    <3>1. PICK s : todo = <<MakeVault(s), SaveIndex>> \/ todo = <<SaveIndex>>
      BY <1>0 DEF Ensuring
    <3> QED
      BY <2>1, <3>1, HeadTail, FileOf
  <2>5. ~Opening
    <3> SUFFICES ASSUME Opening PROVE FALSE
      OBVIOUS
    <3>1. PICK s, k : todo = <<SaveAccount(s, k)>>
      BY <1>0 DEF Opening
    <3> QED
      BY <2>1, <3>1, HeadTail, FileOf
  <2>6. ~Importing
    <3> SUFFICES ASSUME Importing PROVE FALSE
      OBVIOUS
    <3>1. PICK s, k, u : todo = <<SaveAccount(s, k), SetUsername(s, u)>> \/ todo = <<SetUsername(s, u)>>
      BY <1>0 DEF Importing
    <3> QED
      BY <2>1, <3>1, HeadTail, FileOf
  <2>7. Stage'
    BY <1>0, <2>2, <2>3, <2>4, <2>5, <2>6 DEF DInv, Stage, Resting, Down, Waiting
  <2>8. Shape' /\ ConnsSound'
    BY <1>1, <1>3, <2>0, FadeSound DEF DInv, Shape
  <2> QED
    BY <1>0, <1>1, <1>2, <1>3, <2>7, <2>8, DFrame
<1> QED
  BY <1>4, <1>5

\* The answers to a request end the command.
LEMMA AnswersD ==
    ASSUME DInv, Refused \/ Unexpected \/ GiveUp \/ Closed PROVE DInv'
<1>1. /\ cmd' = Idle /\ cmd.at = "wait" /\ todo = <<>> /\ todo' = todo
      /\ UNCHANGED <<registry, disk, memory>>
      /\ conns' = conns \/ conns' = Stopped(conns, cmd.conn)
  BY DEF Refused, Unexpected, GiveUp, Closed, At
<1>2. UNCHANGED <<index, opened, active, link>>
  BY <1>1 DEF memory
<1>3. cmd.conn \in Conns \cup {Absent}
  BY DEF DInv, Shape
<1>4. Fade
  BY <1>1, <1>3, StopFades, SameFades DEF DInv
<1>5. Counts
  BY FaultCounts, SameCounts DEF Refused, Unexpected, GiveUp, Closed
<1>6. Links /\ active' \in opened \cup {Absent}
  BY <1>2, SameLinks, SameActive
<1> QED
  BY <1>1, <1>2, <1>4, <1>5, <1>6, LeaveD

LEMMA DoneD ==
    ASSUME DInv, Done PROVE DInv'
<1>1. /\ cmd' = Idle /\ todo' = <<>> /\ UNCHANGED <<registry, disk, memory, conns, count>>
  BY DEF Done, At
<1>2. UNCHANGED <<index, opened, active, link>>
  BY <1>1 DEF memory
<1>3. Fade /\ Counts /\ Links /\ active' \in opened \cup {Absent}
  BY <1>1, <1>2, SameFades, SameCounts, SameLinks, SameActive DEF DInv
<1> QED
  BY <1>1, <1>2, <1>3, LeaveD

LEMMA OpenFailsD ==
    ASSUME DInv, OpenFails PROVE DInv'
<1>1. /\ cmd' = Idle /\ todo' = <<>> /\ cmd.at = "open"
      /\ conns' = Stopped(conns, link[cmd.srv])
      /\ link' = [link EXCEPT ![cmd.srv] = Absent]
      /\ UNCHANGED <<registry, disk, index, opened, active>>
  BY DEF OpenFails, At
<1>2. cmd.srv \in Servers
  BY <1>1, StageAt DEF DInv, Opening, Asking
<1>3. Links /\ link[cmd.srv] \in Conns \cup {Absent}
  BY <1>1, <1>2 DEF DInv, TypeOK, Links
<1>4. Fade
  BY <1>1, <1>3, StopFades DEF DInv
<1>5. Counts
  BY FaultCounts DEF OpenFails
<1> QED
  BY <1>1, <1>3, <1>4, <1>5, LeaveD, SameActive

\* The old link goes, the new connection carries the request.
LEMMA OpenD ==
    ASSUME DInv, NEW c \in Conns, Open(c) PROVE DInv'
<1>0. PICK r : r = [srv |-> cmd.srv, op |-> cmd.op, user |-> cmd.user,
                    key |-> cmd.key, answer |-> "none", reader |-> TRUE]
  OBVIOUS
<1>1. /\ cmd' = [cmd EXCEPT !.at = "wait", !.conn = c] /\ todo' = <<>> /\ cmd.at = "open" /\ todo = <<>>
      /\ conns' = [Stopped(conns, link[cmd.srv]) EXCEPT ![c] = r]
      /\ Stopped(conns, link[cmd.srv])[c] = NoConn
      /\ link' = [link EXCEPT ![cmd.srv] = Absent]
      /\ UNCHANGED <<registry, disk, index, opened, active, count>>
      /\ UNCHANGED <<file, vaults, backups>>
  BY <1>0 DEF Open, At, disk
<1>2. Opening
  BY <1>1, StageAt DEF DInv
<1>3. Asking /\ vaults[cmd.srv].key = cmd.key
  <2>1. <<SaveAccount(cmd.srv, cmd.key)>> # <<>>
    BY HeadTail
  <2> QED
    BY <1>1, <1>2, <2>1 DEF Opening
<1>4. /\ cmd'.at = "wait" /\ cmd'.conn = c /\ cmd'.srv = cmd.srv /\ cmd'.op = cmd.op
      /\ cmd'.user = cmd.user /\ cmd'.key = cmd.key
      /\ Shape'
  BY <1>1 DEF DInv, Shape
<1>5. r \in Requests
  BY <1>0, <1>3 DEF Asking, Requests
<1>6. Links /\ link[cmd.srv] \in Conns \cup {Absent} /\ link'[cmd.srv] = Absent
  BY <1>1, <1>3 DEF DInv, TypeOK, Links, Asking
<1>7. conns \in [Conns -> ConnRecs]
  BY DEF DInv, ConnsSound, ConnRecs
<1>8. PICK cs \in [Conns -> ConnRecs] : cs = Stopped(conns, link[cmd.srv])
  BY <1>6, <1>7, StoppedFacts
<1>9. /\ conns' \in [Conns -> ConnRecs] /\ conns'[c] = r
      /\ \A d \in Conns \ {c} : conns'[d] = cs[d]
  BY <1>1, <1>5, <1>8 DEF ConnRecs
<1>10. \A d \in Conns : cs[d].answer = "ok" => cs[d] = conns[d]
  <2> SUFFICES ASSUME NEW d \in Conns, cs[d].answer = "ok" PROVE cs[d] = conns[d]
    OBVIOUS
  <2>1. CASE d = link[cmd.srv]
    <3>1. cs[d].answer = "none"
      BY <1>6, <1>7, <1>8, <2>1, StoppedFacts, NoConnFields
    <3> QED
      BY <3>1
  <2>2. CASE d # link[cmd.srv]
    BY <1>6, <1>7, <1>8, <2>2, StoppedFacts
  <2> QED
    BY <2>1, <2>2
<1>11. ConnsSound'
  <2>1. r.answer # "ok"
    BY <1>0
  <2> QED
    BY <1>1, <1>9, <1>10, <2>1 DEF DInv, ConnsSound, ConnRecs
<1>12. Asked'
  BY <1>1, <1>3, <1>4, <1>6 DEF Asked, Asking
<1>13. Carried'
  BY <1>0, <1>4, <1>9 DEF Carried
<1>14. Stage'
  BY <1>1, <1>4, <1>12, <1>13 DEF Stage, Waiting
<1>15. Counts
  BY <1>1, SameCounts
<1> QED
  BY <1>1, <1>4, <1>6, <1>11, <1>14, <1>15, DFrame, SameActive

\* What a server's answer or a broken connection leaves of the connections
\* that somebody owns: what was answered stays, what still reads carries the
\* same request.
Faithful ==
    \A c \in Conns : Owned(c) =>
       /\ conns[c].answer = "ok" => SameRequest(c) /\ conns'[c].answer = "ok"
       /\ conns'[c].reader => SameRequest(c) /\ conns[c].reader

LEMMA NetworkStage ==
    ASSUME DInv, Grown, Faithful,
           UNCHANGED <<file, vaults, backups, index, opened, active, link, cmd, todo, broken, swapped>>
    PROVE  Stage'
<1>0. cmd.conn \in Conns => Owned(cmd.conn)
  BY DEF Owned
<1>1. CASE Resting
  BY <1>1 DEF Stage, Resting
<1>2. CASE Down
  BY <1>2 DEF Stage, Down
<1>3. CASE Ensuring
  <2>1. Ensuring'
    BY <1>3 DEF Ensuring
  <2> QED
    BY <2>1 DEF Stage
<1>4. CASE Opening
  <2>1. Opening'
    BY <1>4 DEF Opening, Asking
  <2> QED
    BY <2>1 DEF Stage
<1>5. CASE Waiting
  <2>1. Asked' /\ cmd'.at = "wait" /\ todo' = <<>> /\ cmd.conn \in Conns
    BY <1>5 DEF Waiting, Asked, Asking
  <2>2. conns'[cmd.conn].reader => Carried'
    BY <1>0, <1>5, <2>1 DEF Waiting, Carried, Faithful, SameRequest
  <2> QED
    BY <2>1, <2>2 DEF Stage, Waiting
<1>6. CASE Storing
  <2>1. Asked' /\ cmd'.at = "stored" /\ cmd.conn \in Conns /\ conns[cmd.conn].answer = "ok" /\ Carried
    BY <1>6 DEF Storing, Asked, Asking
  <2>2. Carried' /\ conns'[cmd'.conn].answer = "ok"
    BY <1>0, <2>1 DEF Carried, Faithful, SameRequest
  <2>3. Storing'
    BY <1>6, <2>1, <2>2 DEF Storing
  <2> QED
    BY <2>3 DEF Stage
<1>7. CASE Importing
  <2>1. Importing'
    BY <1>7 DEF Importing, Replaced
  <2> QED
    BY <2>1 DEF Stage
<1>8. CASE Finishing
  <2>1. \A s \in Servers, u \in Names, k \in Keys : registry[s][u] = k => registry'[s][u] = k
    BY AppConstants DEF Grown
  <2>2. Finishing'
    BY <1>8, <2>1 DEF Finishing, Forgotten
  <2> QED
    BY <2>2 DEF Stage
<1> QED
  BY <1>1, <1>2, <1>3, <1>4, <1>5, <1>6, <1>7, <1>8 DEF DInv, Stage

\* The server registers a name that it does not know, and nothing else.
LEMMA ServeEffect ==
    ASSUME DInv, NEW c \in Conns, Serve(c)
    PROVE  /\ Grown /\ Faithful /\ conns' \in [Conns -> ConnRecs]
           /\ conns[c] \in Requests /\ conns[c].answer = "none"
           /\ \A d \in Conns \ {c} : conns'[d] = conns[d]
           /\ \/ conns'[c] = NoConn
              \/ /\ SameRequest(c) /\ conns'[c].reader = conns[c].reader
                 /\ conns'[c].answer \in {"ok", "refused"} /\ conns[c].reader
           /\ conns[c].reader /\ Grants(conns[c]) =>
                 SameRequest(c) /\ conns'[c].answer = "ok" /\ conns'[c].reader
           /\ conns[c].reader => conns'[c].reader
           /\ conns'[c].answer = "ok" => Grants(conns[c])
           /\ Grants(conns[c]) => registry'[conns[c].srv][conns[c].user] = conns[c].key
           /\ ~Grants(conns[c]) => registry' = registry
           /\ \A s \in Servers, u \in Names :
                 registry'[s][u] # registry[s][u] =>
                    /\ conns[c].op = "register" /\ Grants(conns[c])
                    /\ conns[c].srv = s /\ conns[c].user = u
           /\ UNCHANGED <<file, vaults, backups, index, opened, active, link, cmd, todo, broken, swapped>>
           /\ UNCHANGED count
<1>0. PICK n : n = conns[c]
  OBVIOUS
<1>1. /\ n.op # "none" /\ n.answer = "none"
      /\ registry' = IF Grants(n) THEN [registry EXCEPT ![n.srv][n.user] = n.key] ELSE registry
      /\ conns' = [conns EXCEPT ![c] =
             IF n.reader THEN [n EXCEPT !.answer = IF Grants(n) THEN "ok" ELSE "refused"]
             ELSE NoConn]
      /\ UNCHANGED <<file, vaults, backups, index, opened, active, link, cmd, todo, broken, swapped>>
      /\ UNCHANGED count
  BY <1>0 DEF Serve, disk, memory, history
<1>2. n \in Requests
  BY <1>0, <1>1, NoConnFields DEF DInv, ConnsSound
<1>3. conns \in [Conns -> ConnRecs]
  BY DEF DInv, ConnsSound, ConnRecs
<1>4. PICK m \in ConnRecs :
         m = IF n.reader THEN [n EXCEPT !.answer = IF Grants(n) THEN "ok" ELSE "refused"]
             ELSE NoConn
  <2>1. [n EXCEPT !.answer = IF Grants(n) THEN "ok" ELSE "refused"] \in Requests
    BY <1>2 DEF Requests
  <2> QED
    BY <2>1 DEF ConnRecs
<1>5. /\ m.reader => n.reader
      /\ ~n.reader => m = NoConn
      /\ n.reader => /\ m.reader /\ m.srv = n.srv /\ m.op = n.op /\ m.user = n.user /\ m.key = n.key
                     /\ m.answer = IF Grants(n) THEN "ok" ELSE "refused"
  BY <1>2, <1>4 DEF Requests, NoConn
<1>6. conns' \in [Conns -> ConnRecs] /\ conns'[c] = m /\ \A d \in Conns \ {c} : conns'[d] = conns[d]
  BY <1>1, <1>3, <1>4
<1>7. n.srv \in Servers /\ n.user \in Names /\ n.key \in Keys /\ n.op \in {"register", "connect"}
      /\ n.reader \in BOOLEAN
  BY <1>2 DEF Requests
<1>8. registry \in [Servers -> [Names -> Keys \cup {Absent}]]
  BY DEF DInv, TypeOK
<1>9. /\ Grants(n) => registry'[n.srv][n.user] = n.key
      /\ ~Grants(n) => registry' = registry
      /\ registry' \in [Servers -> [Names -> Keys \cup {Absent}]]
      /\ \A s \in Servers, u \in Names :
            registry'[s][u] # registry[s][u] => Grants(n) /\ n.srv = s /\ n.user = u
  BY <1>1, <1>7, <1>8
<1>10. Grants(n) => registry[n.srv][n.user] = n.key \/ (n.op = "register" /\ registry[n.srv][n.user] = Absent)
  BY <1>7 DEF Grants
<1>11. \A s \in Servers, u \in Names :
          registry'[s][u] # registry[s][u] =>
             Grants(n) /\ n.srv = s /\ n.user = u /\ n.op = "register" /\ registry[s][u] = Absent
  BY <1>9, <1>10
<1>12. Grown
  BY <1>9, <1>11 DEF Grown
<1>13. Faithful
  <2>1. ~m.reader \/ m.reader
    OBVIOUS
  <2>2. m = NoConn => ~m.reader
    BY NoConnFields
  <2> QED
    BY <1>0, <1>1, <1>5, <1>6, <1>7, <2>2 DEF Faithful, SameRequest
<1>14. \/ conns'[c] = NoConn
       \/ /\ SameRequest(c) /\ conns'[c].reader = conns[c].reader
          /\ conns'[c].answer \in {"ok", "refused"} /\ conns[c].reader
  BY <1>0, <1>4, <1>5, <1>6, <1>7 DEF SameRequest, ConnRecs, Requests, NoConn
<1>15. conns'[c].answer = "ok" => Grants(conns[c])
  BY <1>0, <1>5, <1>6, NoConnFields
<1>16. conns[c].reader /\ Grants(conns[c]) => SameRequest(c) /\ conns'[c].answer = "ok" /\ conns'[c].reader
  BY <1>0, <1>5, <1>6 DEF SameRequest
<1>17. conns[c].reader => conns'[c].reader
  BY <1>0, <1>5, <1>6
<1> QED
  BY <1>0, <1>1, <1>2, <1>6, <1>9, <1>11, <1>12, <1>13, <1>14, <1>15, <1>16, <1>17

LEMMA ServeD ==
    ASSUME DInv, NEW c \in Conns, Serve(c) PROVE DInv'
<1>1. /\ Grown /\ Faithful /\ conns' \in [Conns -> ConnRecs]
      /\ \A d \in Conns \ {c} : conns'[d] = conns[d]
      /\ UNCHANGED <<file, vaults, backups, index, opened, active, link, cmd, todo, broken, swapped>>
      /\ UNCHANGED count
  BY ServeEffect
<1>2. Stage'
  BY <1>1, NetworkStage
<1>3. ConnsSound'
  <2> SUFFICES ASSUME NEW d \in Conns, conns'[d].answer = "ok"
               PROVE  registry'[conns'[d].srv][conns'[d].user] = conns'[d].key
    BY <1>1 DEF ConnsSound, ConnRecs
  <2>1. CASE d = c
    <3>1. conns'[c] # NoConn
      BY <2>1, NoConnFields
    <3>2. SameRequest(c) /\ Grants(conns[c])
      BY <2>1, <3>1, ServeEffect
    <3>3. registry'[conns[c].srv][conns[c].user] = conns[c].key
      BY <3>2, ServeEffect
    <3> QED
      BY <2>1, <3>2, <3>3 DEF SameRequest
  <2>2. CASE d # c
    <3>1. conns'[d] = conns[d] /\ conns[d].answer = "ok"
      BY <1>1, <2>2
    <3>2. conns[d] \in Requests
      BY <3>1, NoConnFields DEF DInv, ConnsSound
    <3>3. conns[d].srv \in Servers /\ conns[d].user \in Names /\ conns[d].key \in Keys
      BY <3>2 DEF Requests
    <3>4. registry[conns[d].srv][conns[d].user] = conns[d].key
      BY <3>1 DEF DInv, ConnsSound
    <3> QED
      BY <1>1, <3>1, <3>3, <3>4, AppConstants DEF Grown
  <2> QED
    BY <2>1, <2>2
<1>4. Shape' /\ MemoryBacked' /\ IndexBacked'
  BY <1>1 DEF DInv, Shape, MemoryBacked, IndexBacked
<1>5. TypeOK'
  BY <1>1 DEF DInv, TypeOK, Grown, Known, count
<1> QED
  BY <1>2, <1>3, <1>4, <1>5 DEF DInv

LEMMA BreakEffect ==
    ASSUME DInv, NEW c \in Conns, Break(c)
    PROVE  /\ Faithful /\ conns' \in [Conns -> ConnRecs]
           /\ \A d \in Conns \ {c} : conns'[d] = conns[d]
           /\ ~conns'[c].reader /\ conns[c].reader
           /\ conns'[c].answer = "ok" => SameRequest(c) /\ conns[c].answer = "ok"
           /\ Counts /\ faults' = faults + 1 /\ faults' > 0
           /\ UNCHANGED <<registry, file, vaults, backups, index, opened, active, link, cmd,
                          todo, broken, swapped>>
<1>1. /\ conns[c].reader /\ Fault
      /\ UNCHANGED <<registry, file, vaults, backups, index, opened, active, link, cmd,
                     todo, broken, swapped>>
  BY DEF Break, disk, memory, history
<1>2. PICK lost \in {FALSE, conns[c].answer = "none"} :
         LET broke == [conns EXCEPT ![c].answer = IF lost THEN "lost" ELSE @]
         IN conns' = IF Owned(c) THEN [broke EXCEPT ![c].reader = FALSE] ELSE Stopped(broke, c)
  BY DEF Break
<1>3. PICK b : b = [conns EXCEPT ![c].answer = IF lost THEN "lost" ELSE @]
  OBVIOUS
<1>4. conns \in [Conns -> ConnRecs] /\ conns[c] \in Requests
  BY <1>1, NoConnFields DEF DInv, ConnsSound, ConnRecs
<1>5. lost => conns[c].answer = "none"
  BY <1>2
<1>6. PICK n \in Requests : n = [conns[c] EXCEPT !.answer = IF lost THEN "lost" ELSE @]
  BY <1>4 DEF Requests
<1>7. b = [conns EXCEPT ![c] = n]
  BY <1>3, <1>4, <1>6
<1>8. /\ b \in [Conns -> ConnRecs] /\ b[c] = n /\ \A d \in Conns \ {c} : b[d] = conns[d]
  BY <1>4, <1>6, <1>7 DEF ConnRecs
<1>9. /\ n.srv = conns[c].srv /\ n.op = conns[c].op /\ n.user = conns[c].user /\ n.key = conns[c].key
      /\ n.answer = "ok" => conns[c].answer = "ok"
      /\ conns[c].answer = "ok" => n.answer = "ok"
  BY <1>4, <1>5, <1>6 DEF Requests
<1>10. CASE Owned(c)
  <2>1. conns' = [b EXCEPT ![c].reader = FALSE]
    BY <1>2, <1>3, <1>10
  <2>2. PICK m \in Requests : m = [n EXCEPT !.reader = FALSE]
    BY <1>6 DEF Requests
  <2>3. conns' = [b EXCEPT ![c] = m]
    BY <1>8, <2>1, <2>2
  <2>4. /\ conns' \in [Conns -> ConnRecs] /\ conns'[c] = m /\ \A d \in Conns \ {c} : conns'[d] = conns[d]
    BY <1>8, <2>2, <2>3 DEF ConnRecs
  <2>5. /\ ~m.reader /\ m.srv = n.srv /\ m.op = n.op /\ m.user = n.user /\ m.key = n.key
        /\ m.answer = n.answer
    BY <1>6, <2>2 DEF Requests
  <2>6. SameRequest(c) /\ ~conns'[c].reader
    BY <1>9, <2>4, <2>5 DEF SameRequest
  <2>7. Faithful
    BY <1>9, <2>4, <2>5, <2>6 DEF Faithful, SameRequest
  <2> QED
    BY <1>1, <1>9, <2>4, <2>5, <2>6, <2>7, FaultCounts
<1>11. CASE ~Owned(c)
  <2>1. conns' = Stopped(b, c)
    BY <1>2, <1>3, <1>11
  <2>2. /\ conns' \in [Conns -> ConnRecs] /\ \A d \in Conns \ {c} : conns'[d] = conns[d]
        /\ ~conns'[c].reader /\ conns'[c].answer = "none"
    BY <1>8, <2>1, StoppedFacts, NoConnFields
  <2>3. Faithful
    BY <1>11, <2>2 DEF Faithful, SameRequest
  <2> QED
    BY <1>1, <2>2, <2>3, FaultCounts
<1> QED
  BY <1>10, <1>11

LEMMA BreakD ==
    ASSUME DInv, NEW c \in Conns, Break(c) PROVE DInv'
<1>1. /\ Faithful /\ conns' \in [Conns -> ConnRecs]
      /\ \A d \in Conns \ {c} : conns'[d] = conns[d]
      /\ conns'[c].answer = "ok" => SameRequest(c) /\ conns[c].answer = "ok"
      /\ Counts
      /\ UNCHANGED <<registry, file, vaults, backups, index, opened, active, link, cmd,
                     todo, broken, swapped>>
  BY BreakEffect
<1>2. Grown
  BY <1>1 DEF Grown, DInv, TypeOK
<1>3. Stage'
  BY <1>1, <1>2, NetworkStage
<1>4. ConnsSound'
  BY <1>1 DEF DInv, ConnsSound, ConnRecs, SameRequest
<1>5. Shape'
  BY <1>1 DEF DInv, Shape
<1> QED
  BY <1>1, <1>3, <1>4, <1>5, DFrame, SameLinks, SameActive DEF disk

\* run, up to the handler.
LEMMA PruneLinks ==
    ASSUME DInv, link' = Pruned, conns' = Kept, registry' = registry
    PROVE  Links /\ Fade /\ ConnsSound'
<1>1. Links
  BY PruneFacts DEF Links
<1>2. Fade
  BY PruneFades
<1> QED
  BY <1>1, <1>2, FadeSound

LEMMA OrderD ==
    ASSUME DInv, NEW s \in Servers, NEW op \in {"register", "connect", "switch", "import"},
           NEW u \in Names \cup {Absent}, Order(op, s, u),
           op \in {"register", "import"} => u \in Names,
           op = "import" => backups[s][u] # Absent
    PROVE  DInv'
<1>1. /\ cmd' = [Idle EXCEPT !.op = op, !.at = "ensured", !.srv = s, !.user = u]
      /\ todo' = EnsureServer(s) /\ link' = Pruned /\ conns' = Kept
      /\ commands < MaxCommands /\ commands' = commands + 1
      /\ UNCHANGED <<registry, disk, index, opened, active, faults>>
  BY DEF Order
<1>2. /\ cmd'.op = op /\ cmd'.at = "ensured" /\ cmd'.srv = s /\ cmd'.user = u /\ cmd'.conn = Absent
      /\ Shape'
  BY <1>1 DEF Idle, Shape
<1>3. todo' = <<MakeVault(s), SaveIndex>> \/ (todo' = <<>> /\ s \in opened)
  BY <1>1 DEF EnsureServer
<1>4. Ensuring'
  BY <1>1, <1>2, <1>3 DEF Ensuring, disk, MakeVault
<1>5. Stage'
  BY <1>4 DEF Stage
<1>6. Counts
  BY <1>1, OrderCounts
<1>7. Links /\ ConnsSound'
  BY <1>1, PruneLinks
<1> QED
  BY <1>1, <1>2, <1>5, <1>6, <1>7, DFrame, SameActive

LEMMA OrdersD ==
    ASSUME DInv, NEW s \in Servers, NEW u \in Names,
           Register(s, u) \/ ImportIdentity(s, u) \/ Connect(s) \/ SwitchServer(s)
    PROVE  DInv'
<1>1. CASE Register(s, u)
  BY <1>1, OrderD DEF Register
<1>2. CASE ImportIdentity(s, u)
  BY <1>2, OrderD DEF ImportIdentity
<1>3. CASE Connect(s)
  <2>1. Order("connect", s, Absent)
    BY <1>3 DEF Connect
  <2> QED
    BY <2>1, OrderD
<1>4. CASE SwitchServer(s)
  <2>1. Order("switch", s, Absent)
    BY <1>4 DEF SwitchServer
  <2> QED
    BY <2>1, OrderD
<1> QED
  BY <1>1, <1>2, <1>3, <1>4

LEMMA ExportD ==
    ASSUME DInv, VaultsWhole, ExportIdentity PROVE DInv'
<1>1. /\ cmd = Idle /\ commands < MaxCommands /\ commands' = commands + 1
      /\ active \in opened /\ vaults[active].user # Absent /\ vaults[active].key # Absent
      /\ cmd' = [Idle EXCEPT !.op = "export", !.at = "done"]
      /\ todo' = <<Backup(active, vaults[active].user, vaults[active].key)>>
      /\ link' = Pruned /\ conns' = Kept
      /\ UNCHANGED <<registry, disk, index, opened, active, faults, broken>>
  BY DEF ExportIdentity, OrderNow, history
<1>2. cmd'.op = "export" /\ cmd'.at = "done" /\ cmd'.conn = Absent /\ Shape'
  BY <1>1 DEF Idle, Shape
<1>3. active \in Servers /\ vaults[active].user \in Names /\ vaults[active].key \in Keys
  BY <1>1 DEF DInv, TypeOK
<1>4. active \in broken \/ registry[active][vaults[active].user] = vaults[active].key
  <2>1. Interrupted = broken
    BY <1>1, IdleFields DEF Interrupted
  <2> QED
    BY <1>1, <1>3, <2>1 DEF VaultsWhole
<1>5. PICK s \in Servers, u \in Names, k \in Keys :
         s = active /\ u = vaults[active].user /\ k = vaults[active].key
  BY <1>3
<1>6. todo' = <<Backup(s, u, k)>> /\ (s \in broken' \/ registry'[s][u] = k)
  BY <1>1, <1>4, <1>5
<1>7. Finishing'
  BY <1>2, <1>6 DEF Finishing
<1>8. Counts /\ Links /\ ConnsSound'
  BY <1>1, OrderCounts, PruneLinks
<1>9. Stage'
  BY <1>7 DEF Stage
<1> QED
  BY <1>1, <1>2, <1>8, <1>9, DFrame, SameActive

LEMMA EnsuredD ==
    ASSUME DInv,
           (\E k \in Keys : EnsuredRegister(k)) \/ EnsuredConnect \/ EnsuredImport
    PROVE  DInv'
<1>0. Ensuring /\ todo = <<>> /\ cmd.srv \in opened /\ cmd.srv \in Servers
  <2>1. cmd.at = "ensured" /\ todo = <<>>
    BY DEF EnsuredRegister, EnsuredConnect, EnsuredImport, At
  <2>2. Ensuring
    BY <2>1, StageAt DEF DInv
  <2>3. \A a, b : <<a>> # <<>> /\ <<a, b>> # <<>>
    BY HeadTail
  <2> QED
    BY <2>1, <2>2, <2>3 DEF Ensuring
<1>1. ASSUME NEW k \in Keys, EnsuredRegister(k) PROVE DInv'
  <2>1. /\ cmd.op = "register" /\ cmd' = [cmd EXCEPT !.at = "open", !.key = k]
        /\ \/ vaults[cmd.srv].key = Absent /\ todo' = <<SaveAccount(cmd.srv, k)>>
           \/ k = vaults[cmd.srv].key /\ todo' = <<>>
        /\ UNCHANGED <<registry, disk, memory, conns, count>>
    BY <1>0, <1>1 DEF EnsuredRegister
  <2>2. UNCHANGED <<file, vaults, backups, index, opened, active, link>>
    BY <2>1 DEF disk, memory
  <2>3. /\ cmd'.at = "open" /\ cmd'.key = k /\ cmd'.op = "register" /\ cmd'.srv = cmd.srv
        /\ cmd'.user = cmd.user /\ cmd'.conn = cmd.conn /\ Shape'
    BY <2>1 DEF DInv, Shape
  <2>4. Asking' /\ cmd'.conn = Absent
    BY <1>0, <2>1, <2>2, <2>3 DEF Asking, Ensuring
  <2>5. Opening'
    BY <2>1, <2>2, <2>3, <2>4 DEF Opening, SaveAccount
  <2>6. Stage'
    BY <2>5 DEF Stage
  <2>7. ConnsSound'
    BY <2>1 DEF DInv, ConnsSound
  <2> QED
    BY <2>1, <2>2, <2>3, <2>6, <2>7, DFrame, SameActive, SameLinks, SameCounts
<1>2. CASE EnsuredConnect
  <2>1. /\ cmd.op \in {"connect", "switch"} /\ todo' = <<>>
        /\ UNCHANGED <<registry, disk, index, opened, count>>
        /\ \/ cmd' = Idle
           \/ /\ vaults[cmd.srv].user # Absent /\ vaults[cmd.srv].key # Absent
              /\ cmd' = [cmd EXCEPT !.at = "open", !.op = "connect",
                            !.user = vaults[cmd.srv].user, !.key = vaults[cmd.srv].key]
        /\ \/ active' = cmd.srv /\ link' = Pruned /\ conns' = Kept
           \/ UNCHANGED <<active, link, conns>>
    BY <1>0, <1>2 DEF EnsuredConnect
  <2>2. Links /\ Fade /\ ConnsSound' /\ active' \in opened \cup {Absent}
    BY <1>0, <2>1, PruneLinks, SameLinks, SameFades, SameActive, FadeSound DEF DInv
  <2>3. Counts
    BY <2>1, SameCounts
  <2>4. CASE cmd' = Idle
    BY <2>1, <2>2, <2>3, <2>4, LeaveD
  <2>5. CASE /\ vaults[cmd.srv].user # Absent /\ vaults[cmd.srv].key # Absent
             /\ cmd' = [cmd EXCEPT !.at = "open", !.op = "connect",
                            !.user = vaults[cmd.srv].user, !.key = vaults[cmd.srv].key]
    <3>1. vaults[cmd.srv].user \in Names /\ vaults[cmd.srv].key \in Keys
      BY <1>0, <2>5 DEF DInv, TypeOK
    <3>2. /\ cmd'.at = "open" /\ cmd'.op = "connect" /\ cmd'.srv = cmd.srv /\ cmd'.conn = cmd.conn
          /\ cmd'.user = vaults[cmd.srv].user /\ cmd'.key = vaults[cmd.srv].key /\ Shape'
      BY <2>5, <3>1 DEF DInv, Shape
    <3>3. UNCHANGED <<file, vaults, backups, opened>>
      BY <2>1 DEF disk
    <3>4. Asking' /\ cmd'.conn = Absent
      BY <1>0, <3>1, <3>2, <3>3 DEF Asking, Ensuring
    <3>5. Opening'
      BY <2>1, <3>2, <3>3, <3>4 DEF Opening
    <3>6. Stage'
      BY <3>5 DEF Stage
    <3> QED
      BY <2>1, <2>2, <2>3, <3>2, <3>6, DFrame
  <2> QED
    BY <2>1, <2>4, <2>5
<1>3. CASE EnsuredImport
  <2>1. /\ cmd.op = "import" /\ cmd' = [cmd EXCEPT !.at = "stored"]
        /\ todo' = <<SaveAccount(cmd.srv, backups[cmd.srv][cmd.user]), SetUsername(cmd.srv, cmd.user)>>
        /\ UNCHANGED <<registry, disk, memory, conns, count>>
    BY <1>3 DEF EnsuredImport, Goto
  <2>2. UNCHANGED <<file, vaults, backups, index, opened, active, link>>
    BY <2>1 DEF disk, memory
  <2>3. /\ cmd'.at = "stored" /\ cmd'.op = "import" /\ cmd'.srv = cmd.srv
        /\ cmd'.user = cmd.user /\ cmd'.conn = cmd.conn /\ Shape'
    BY <2>1 DEF DInv, Shape
  <2>4. /\ cmd'.conn = Absent /\ cmd'.srv \in Servers /\ cmd'.srv \in opened'
        /\ cmd'.user \in Names /\ backups'[cmd'.srv][cmd'.user] # Absent
    BY <1>0, <2>1, <2>2, <2>3 DEF Ensuring
  <2>5. todo' = <<SaveAccount(cmd'.srv, backups'[cmd'.srv][cmd'.user]), SetUsername(cmd'.srv, cmd'.user)>>
    BY <2>1, <2>2, <2>3
  <2>6. Importing'
    BY <2>3, <2>4, <2>5 DEF Importing, SaveAccount, SetUsername
  <2>7. Stage'
    BY <2>6 DEF Stage
  <2>8. ConnsSound'
    BY <2>1 DEF DInv, ConnsSound
  <2> QED
    BY <2>1, <2>2, <2>3, <2>7, <2>8, DFrame, SameActive, SameLinks, SameCounts
<1> QED
  BY <1>1, <1>2, <1>3

LEMMA AcceptedD ==
    ASSUME DInv, Accepted PROVE DInv'
<1>1. /\ cmd.at = "wait" /\ conns[cmd.conn].answer = "ok" /\ conns[cmd.conn].reader
      /\ cmd' = [cmd EXCEPT !.at = "stored"]
      /\ todo' = IF cmd.op = "register"
               THEN <<SetUsername(cmd.srv, cmd.user), SaveAccount(cmd.srv, cmd.key),
                      Backup(cmd.srv, cmd.user, cmd.key)>>
               ELSE <<SaveAccount(cmd.srv, cmd.key)>>
      /\ UNCHANGED <<registry, disk, memory, conns, count>>
  BY DEF Accepted, At, Goto
<1>2. UNCHANGED <<file, vaults, backups, index, opened, active, link>>
  BY <1>1 DEF disk, memory
<1>3. /\ cmd'.at = "stored" /\ cmd'.op = cmd.op /\ cmd'.srv = cmd.srv
      /\ cmd'.user = cmd.user /\ cmd'.key = cmd.key /\ cmd'.conn = cmd.conn /\ Shape'
  BY <1>1 DEF DInv, Shape
<1>4. Waiting
  BY <1>1, StageAt DEF DInv
<1>5. Asked' /\ Carried' /\ conns'[cmd'.conn].answer = "ok" /\ cmd'.op \in {"register", "connect"}
  BY <1>1, <1>2, <1>3, <1>4 DEF Waiting, Asked, Asking, Carried
<1>6. \/ /\ cmd'.op = "register"
         /\ todo' = <<SetUsername(cmd'.srv, cmd'.user), SaveAccount(cmd'.srv, cmd'.key),
                      Backup(cmd'.srv, cmd'.user, cmd'.key)>>
      \/ cmd'.op = "connect" /\ todo' = <<SaveAccount(cmd'.srv, cmd'.key)>>
  BY <1>1, <1>3, <1>5
<1>7. Storing'
  BY <1>3, <1>5, <1>6 DEF Storing, SetUsername, SaveAccount, Backup
<1>8. Stage'
  BY <1>7 DEF Stage
<1>9. ConnsSound'
  BY <1>1 DEF DInv, ConnsSound
<1> QED
  BY <1>1, <1>2, <1>3, <1>8, <1>9, DFrame, SameActive, SameLinks, SameCounts

\* What a command has when everything is written.
LEMMA StoredFacts ==
    ASSUME DInv, cmd.at = "stored", todo = <<>>
    PROVE  /\ cmd.srv \in Servers /\ cmd.srv \in opened /\ cmd.user \in Names
           /\ vaults[cmd.srv].user = cmd.user
           /\ cmd.op = "import" => Importing
           /\ cmd.op # "import" =>
                 /\ cmd.conn \in Conns /\ link[cmd.srv] = Absent /\ Carried
                 /\ conns[cmd.conn].answer = "ok" /\ vaults[cmd.srv].key = cmd.key
<1>0. \A a, b, c : <<>> # <<a>> /\ <<>> # <<a, b>> /\ <<>> # <<a, b, c>>
  BY HeadTail
<1>1. CASE Storing
  BY <1>0, <1>1 DEF Storing, Asked, Asking
<1>2. CASE Importing
  BY <1>0, <1>2 DEF Importing
<1> QED
  BY <1>1, <1>2, StageAt DEF DInv

LEMMA StoredEffect ==
    ASSUME DInv, Stored
    PROVE  /\ cmd.at = "stored" /\ todo = <<>>
           /\ cmd' = [Idle EXCEPT !.op = cmd.op, !.at = "done", !.srv = cmd.srv]
           /\ todo' = <<SaveIndex>>
           /\ index' = [index EXCEPT ![cmd.srv] = cmd.user]
           /\ \/ cmd.op = "import" /\ UNCHANGED <<link, active, swapped>>
              \/ /\ cmd.op # "import" /\ link' = [link EXCEPT ![cmd.srv] = cmd.conn]
                 /\ active' = cmd.srv /\ swapped' = swapped \ {cmd.srv}
           /\ UNCHANGED <<registry, file, vaults, backups, opened, conns, commands, faults, broken>>
  BY DEF Stored, At, disk, count

LEMMA StoredD ==
    ASSUME DInv, Stored PROVE DInv'
<1>1. /\ cmd.at = "stored" /\ todo = <<>>
      /\ cmd' = [Idle EXCEPT !.op = cmd.op, !.at = "done", !.srv = cmd.srv]
      /\ todo' = <<SaveIndex>>
      /\ index' = [index EXCEPT ![cmd.srv] = cmd.user]
      /\ \/ cmd.op = "import" /\ UNCHANGED <<link, active, swapped>>
         \/ /\ cmd.op # "import" /\ link' = [link EXCEPT ![cmd.srv] = cmd.conn]
            /\ active' = cmd.srv /\ swapped' = swapped \ {cmd.srv}
      /\ UNCHANGED <<registry, file, vaults, backups, opened, conns, commands, faults, broken>>
  BY StoredEffect
<1>2. /\ cmd.srv \in Servers /\ cmd.srv \in opened /\ cmd.user \in Names
      /\ vaults[cmd.srv].user = cmd.user
      /\ cmd.op # "import" => cmd.conn \in Conns
  BY <1>1, StoredFacts
<1>3. cmd'.at = "done" /\ cmd'.conn = Absent /\ Shape'
  BY <1>1 DEF DInv, Shape, Idle
<1>4. Stage'
  BY <1>1, <1>3 DEF Stage, Finishing
<1>5. /\ link' \in [Servers -> Conns \cup {Absent}] /\ active' \in opened \cup {Absent}
      /\ \A s \in Servers : link'[s] # Absent => s \in opened
  BY <1>1, <1>2 DEF DInv, TypeOK
<1>6. /\ index' \in [Servers -> {Absent, "unnamed"} \cup Names]
      /\ index'[cmd.srv] = cmd.user /\ \A s \in Servers \ {cmd.srv} : index'[s] = index[s]
  BY <1>1, <1>2 DEF DInv, TypeOK
<1>7. opened \subseteq {s \in Servers : Known(index', s)}
  BY <1>2, <1>6, AppConstants DEF DInv, TypeOK, Known
<1>8. MemoryBacked'
  BY <1>1, <1>2, <1>6, AppConstants DEF DInv, MemoryBacked
<1>9. IndexBacked' /\ ConnsSound'
  BY <1>1 DEF DInv, IndexBacked, ConnsSound
<1>10. \A i \in 1..Len(todo') : Records(todo'[i])
  BY <1>4, PrimedRecords
<1>11. TypeOK'
  BY <1>1, <1>5, <1>6, <1>7, <1>10 DEF DInv, TypeOK
<1> QED
  BY <1>3, <1>4, <1>8, <1>9, <1>11 DEF DInv

LEMMA CheckD ==
    ASSUME DInv, NEW s \in Servers, CheckServer(s) PROVE DInv'
<1>1. /\ cmd' = [Idle EXCEPT !.op = "check", !.at = "done"] /\ todo' = <<SaveIndex>>
      /\ index' = Ensure(index, s) /\ link' = Pruned /\ conns' = Kept
      /\ commands < MaxCommands /\ commands' = commands + 1 /\ faults' = faults
      /\ UNCHANGED <<registry, file, vaults, backups, opened, active>>
  BY DEF CheckServer, OrderNow, disk
<1>2. cmd'.at = "done" /\ cmd'.conn = Absent /\ Shape'
  BY <1>1 DEF Idle, Shape
<1>3. Stage'
  BY <1>1, <1>2 DEF Stage, Finishing
<1>4. Counts /\ Links /\ ConnsSound'
  BY <1>1, OrderCounts, PruneLinks
<1>5. index \in [Servers -> {Absent, "unnamed"} \cup Names]
  BY DEF DInv, TypeOK
<1>6. /\ index' \in [Servers -> {Absent, "unnamed"} \cup Names]
      /\ \A t \in Servers : index[t] # Absent => index'[t] # Absent
      /\ \A t \in Servers : index'[t] \in Names => index'[t] = index[t]
  BY <1>1, <1>5, EnsureFacts
<1>7. MemoryBacked'
  BY <1>1, <1>6 DEF DInv, MemoryBacked
<1>8. IndexBacked'
  BY <1>1 DEF DInv, IndexBacked
<1>9. \A t \in Servers : link'[t] # Absent => t \in opened
  BY <1>4 DEF DInv, TypeOK, Links
<1>10. opened \subseteq {t \in Servers : Known(index', t)}
  BY <1>6 DEF DInv, TypeOK, Known
<1>11. \A i \in 1..Len(todo') : Records(todo'[i])
  BY <1>3, PrimedRecords
<1>12. TypeOK'
  BY <1>1, <1>4, <1>6, <1>9, <1>10, <1>11 DEF DInv, TypeOK, Counts, Links
<1> QED
  BY <1>2, <1>3, <1>4, <1>7, <1>8, <1>12 DEF DInv

LEMMA RemoveEffect ==
    ASSUME DInv, NEW s \in Servers, RemoveServer(s)
    PROVE  /\ cmd = Idle /\ todo = <<>>
           /\ cmd' = [Idle EXCEPT !.op = "remove", !.at = "done"]
           /\ todo' = <<SaveIndex, DropVault(s)>>
           /\ opened' = opened \ {s} /\ index' = [index EXCEPT ![s] = Absent]
           /\ active' = (IF active = s THEN Absent ELSE active)
           /\ commands < MaxCommands /\ commands' = commands + 1 /\ faults' = faults
           /\ UNCHANGED <<registry, file, vaults, backups, broken>>
           /\ swapped' = swapped \ {s}
           /\ link' \in [Servers -> Conns \cup {Absent}] /\ link'[s] = Absent
           /\ \A t \in Servers : link'[t] # Absent => link'[t] = link[t] /\ link'[t] = Pruned[t] /\ t # s
           /\ Fade
           /\ \A c \in Conns : c # Pruned[s] => conns'[c] = Kept[c]
           /\ Pruned[s] # Absent => ~conns'[Pruned[s]].reader
           /\ \A c \in Conns : conns'[c].answer = "none" =>
                 conns'[c] = NoConn \/ (conns[c].answer = "none" /\ SameRequest(c))
<1>1. /\ cmd = Idle /\ cmd' = [Idle EXCEPT !.op = "remove", !.at = "done"]
      /\ todo' = <<SaveIndex, DropVault(s)>>
      /\ opened' = opened \ {s} /\ index' = [index EXCEPT ![s] = Absent]
      /\ active' = (IF active = s THEN Absent ELSE active)
      /\ commands < MaxCommands /\ commands' = commands + 1 /\ faults' = faults
      /\ UNCHANGED <<registry, file, vaults, backups, broken>>
      /\ swapped' = swapped \ {s}
      /\ link' = [Pruned EXCEPT ![s] = Absent]
      /\ conns' = Stopped(Kept, Pruned[s])
  BY DEF RemoveServer, OrderNow, disk
<1>2. todo = <<>>
  BY <1>1, StageAt DEF DInv, Resting
<1>3. PICK cs \in [Conns -> ConnRecs] : cs = Kept
  BY PruneFacts
<1>4. PICK d \in Conns \cup {Absent} : d = Pruned[s]
  BY PruneFacts
<1>5. /\ conns' \in [Conns -> ConnRecs]
      /\ \A c \in Conns \ {d} : conns'[c] = cs[c]
      /\ d \in Conns =>
            /\ ~conns'[d].reader
            /\ cs[d].answer # "none" => conns'[d] = NoConn
            /\ cs[d].answer = "none" =>
                  /\ conns'[d].answer = "none"
                  /\ conns'[d].srv = cs[d].srv /\ conns'[d].op = cs[d].op
                  /\ conns'[d].user = cs[d].user /\ conns'[d].key = cs[d].key
  BY <1>1, <1>3, <1>4, StoppedFacts
<1>6. \A c \in Conns : cs[c] = conns[c] \/ cs[c] = NoConn
  BY <1>3, PruneFacts
<1>7. /\ link' \in [Servers -> Conns \cup {Absent}] /\ link'[s] = Absent
      /\ \A t \in Servers : link'[t] # Absent => link'[t] = link[t] /\ link'[t] = Pruned[t] /\ t # s
  BY <1>1, PruneFacts
<1>7a. ASSUME d \in Conns, cs[d] = NoConn PROVE conns'[d].op = "none"
  BY <1>5, <1>7a, NoConnFields
<1>7b. \A n \in ConnRecs : n.op = "none" => n = NoConn
  BY DEF ConnRecs, Requests
<1>8. \A c \in Conns : Fades(c)
  <2> SUFFICES ASSUME NEW c \in Conns PROVE Fades(c)
    OBVIOUS
  <2>1. conns'[c] \in ConnRecs
    BY <1>5
  <2>2. CASE c # d
    BY <1>5, <1>6, <2>1, <2>2 DEF Fades, SameRequest
  <2>3. CASE c = d /\ cs[c] = NoConn
    BY <1>7a, <1>7b, <2>1, <2>3 DEF Fades
  <2>4. CASE c = d /\ cs[c] = conns[c]
    BY <1>5, <2>1, <2>4 DEF Fades, SameRequest
  <2> QED
    BY <1>6, <2>2, <2>3, <2>4
<1>9. Fade
  BY <1>5, <1>8 DEF Fade
<1>10. \A c \in Conns : c # Pruned[s] => conns'[c] = Kept[c]
  BY <1>3, <1>4, <1>5
<1>11. Pruned[s] # Absent => ~conns'[Pruned[s]].reader
  BY <1>4, <1>5
<1>12. \A c \in Conns : conns'[c].answer = "none" =>
          conns'[c] = NoConn \/ (conns[c].answer = "none" /\ SameRequest(c))
  BY <1>8 DEF Fades
<1> QED
  BY <1>1, <1>2, <1>7, <1>9, <1>10, <1>11, <1>12

LEMMA RemoveD ==
    ASSUME DInv, NEW s \in Servers, RemoveServer(s) PROVE DInv'
<1>1. /\ cmd' = [Idle EXCEPT !.op = "remove", !.at = "done"]
      /\ todo' = <<SaveIndex, DropVault(s)>>
      /\ opened' = opened \ {s} /\ index' = [index EXCEPT ![s] = Absent]
      /\ active' = (IF active = s THEN Absent ELSE active)
      /\ commands < MaxCommands /\ commands' = commands + 1 /\ faults' = faults
      /\ UNCHANGED <<registry, file, vaults, backups, broken>>
      /\ link' \in [Servers -> Conns \cup {Absent}]
      /\ \A t \in Servers : link'[t] # Absent => link'[t] = link[t] /\ t # s
      /\ Fade
  BY RemoveEffect
<1>2. cmd'.at = "done" /\ cmd'.conn = Absent /\ cmd'.op = "remove" /\ Shape'
  BY <1>1 DEF Idle, Shape
<1>3. /\ index' \in [Servers -> {Absent, "unnamed"} \cup Names] /\ index'[s] = Absent
      /\ \A t \in Servers \ {s} : index'[t] = index[t]
  BY <1>1 DEF DInv, TypeOK
<1>4. Forgotten(s)'
  BY <1>1, <1>3 DEF Forgotten
<1>5. Finishing'
  BY <1>1, <1>2, <1>4 DEF Finishing
<1>6. Stage'
  BY <1>5 DEF Stage
<1>7. ConnsSound' /\ Counts
  BY <1>1, FadeSound, OrderCounts
<1>8. MemoryBacked'
  BY <1>1, <1>3, AppConstants DEF DInv, MemoryBacked
<1>9. IndexBacked'
  BY <1>1 DEF DInv, IndexBacked
<1>10. \A i \in 1..Len(todo') : Records(todo'[i])
  BY <1>6, PrimedRecords
<1>11. /\ opened' \subseteq {t \in Servers : Known(index', t)}
       /\ active' \in opened' \cup {Absent}
       /\ \A t \in Servers : link'[t] # Absent => t \in opened'
  BY <1>1, <1>3 DEF DInv, TypeOK, Known
<1>12. TypeOK'
  BY <1>1, <1>3, <1>7, <1>10, <1>11 DEF DInv, TypeOK, Counts
<1> QED
  BY <1>2, <1>6, <1>7, <1>8, <1>9, <1>12 DEF DInv

\* The end of the process, with the disk as it is or one file torn.
LEMMA EndedEffect ==
    ASSUME DInv, Quit \/ Crash
    PROVE  /\ cmd' = [Idle EXCEPT !.op = "start", !.at = "down"] /\ todo' = <<>>
           /\ index' = Unlisted /\ opened' = {} /\ active' = Absent /\ swapped' = {}
           /\ link' = [s \in Servers |-> Absent]
           /\ Fade /\ \A c \in Conns : ~conns'[c].reader /\ conns'[c].answer = "none"
           /\ file' = file \/ file' = Absent
           /\ backups' \in [Servers -> [Names -> Keys \cup {Absent}]]
           /\ \A s \in Servers, u \in Names :
                 backups'[s][u] = backups[s][u] \/ backups'[s][u] = Absent
           /\ UNCHANGED <<registry, vaults>>
           /\ \/ cmd = Idle /\ UNCHANGED <<backups, broken, faults>>
              \/ broken' = Interrupted /\ faults' > 0 /\ faults' = faults + 1
           /\ Counts
<1>1. Ended
  BY DEF Quit, Crash
<1>2. \A c \in Conns : conns'[c] = Stopped(conns, c)[c]
  <2>1. conns \in [Conns -> ConnRecs] /\ Absent \notin Conns
    BY AppConstants DEF DInv, ConnsSound, ConnRecs
  <2> SUFFICES ASSUME NEW c \in Conns PROVE conns'[c] = Stopped(conns, c)[c]
    OBVIOUS
  <2>2. PICK n : n = IF conns[c].answer = "none" THEN [conns[c] EXCEPT !.reader = FALSE] ELSE NoConn
    OBVIOUS
  <2>3. conns'[c] = n
    BY <1>1, <2>2 DEF Ended
  <2>4. Stopped(conns, c) = [conns EXCEPT ![c] = n]
    BY <2>1, <2>2 DEF Stopped
  <2> QED
    BY <2>1, <2>3, <2>4
<1>3. conns \in [Conns -> ConnRecs]
  BY DEF DInv, ConnsSound, ConnRecs
<1>4. ASSUME NEW c \in Conns
      PROVE  Fades(c) /\ ~conns'[c].reader /\ conns'[c].answer = "none"
  <2>1. PICK n : n = Stopped(conns, c)[c]
    OBVIOUS
  <2>2. /\ n \in ConnRecs /\ ~n.reader
        /\ conns[c].answer # "none" => n = NoConn
        /\ conns[c].answer = "none" =>
              /\ n.answer = "none" /\ n.srv = conns[c].srv /\ n.op = conns[c].op
              /\ n.user = conns[c].user /\ n.key = conns[c].key
    BY <1>3, <2>1, StoppedFacts
  <2>3. conns'[c] = n
    BY <1>2, <2>1
  <2> QED
    BY <2>2, <2>3, NoConnFields DEF Fades, SameRequest
<1>5. Fade
  <2>1. DOMAIN conns' = Conns /\ conns' = [c \in Conns |-> conns'[c]]
    BY <1>1 DEF Ended
  <2> QED
    BY <1>4, <2>1 DEF Fade, Fades
<1>6. CASE Quit
  <2>1. UNCHANGED <<file, vaults, backups, broken, faults>> /\ cmd = Idle
    BY <1>6 DEF Quit, disk
  <2>2. Counts
    BY <1>6, OrderCounts DEF Quit
  <2> QED
    BY <1>1, <1>4, <1>5, <2>1, <2>2 DEF Ended, DInv, TypeOK
<1>7. CASE Crash
  <2>1. /\ Counts /\ faults' > 0 /\ faults' = faults + 1 /\ broken' = Interrupted
    BY <1>7, FaultCounts DEF Crash
  <2>2. vaults' = vaults /\ (file' = file \/ file' = Absent)
    BY <1>7 DEF Crash, disk
  <2>3. \/ backups' = backups
        \/ backups' = [backups EXCEPT ![Head(todo).srv][Head(todo).user] = Absent]
    BY <1>7 DEF Crash, disk
  <2>4. backups \in [Servers -> [Names -> Keys \cup {Absent}]]
    BY DEF DInv, TypeOK
  <2>5. ASSUME NEW s, NEW u, backups' = [backups EXCEPT ![s][u] = Absent]
        PROVE  /\ backups' \in [Servers -> [Names -> Keys \cup {Absent}]]
               /\ \A t \in Servers, v \in Names :
                     backups'[t][v] = backups[t][v] \/ backups'[t][v] = Absent
    BY <2>4, <2>5
  <2>6. /\ backups' \in [Servers -> [Names -> Keys \cup {Absent}]]
        /\ \A t \in Servers, v \in Names :
              backups'[t][v] = backups[t][v] \/ backups'[t][v] = Absent
    BY <2>3, <2>4, <2>5
  <2> QED
    BY <1>1, <1>4, <1>5, <2>1, <2>2, <2>6 DEF Ended
<1> QED
  BY <1>6, <1>7

LEMMA EndedD ==
    ASSUME DInv, Quit \/ Crash PROVE DInv'
<1>1. /\ cmd' = [Idle EXCEPT !.op = "start", !.at = "down"] /\ todo' = <<>>
      /\ index' = Unlisted /\ opened' = {} /\ active' = Absent
      /\ link' = [s \in Servers |-> Absent]
      /\ Fade /\ Counts
      /\ file' = file \/ file' = Absent
      /\ backups' \in [Servers -> [Names -> Keys \cup {Absent}]]
      /\ UNCHANGED <<registry, vaults>>
  BY EndedEffect
<1>2. cmd'.at = "down" /\ cmd'.op = "start" /\ cmd'.conn = Absent /\ Shape'
  BY <1>1 DEF Idle, Shape
<1>3. Stage'
  BY <1>1, <1>2 DEF Stage, Down
<1>4. ConnsSound'
  BY <1>1, FadeSound
<1>5. index' \in [Servers -> {Absent, "unnamed"} \cup Names] /\ \A s \in Servers : index'[s] \notin Names
  BY <1>1, AppConstants DEF Unlisted
<1>6. MemoryBacked'
  BY <1>1, <1>5 DEF MemoryBacked
<1>7. IndexBacked'
  BY <1>1 DEF DInv, IndexBacked
<1>8. \A i \in 1..Len(todo') : Records(todo'[i])
  BY <1>3, PrimedRecords
<1>9. TypeOK'
  BY <1>1, <1>5, <1>8 DEF DInv, TypeOK, Counts
<1> QED
  BY <1>2, <1>3, <1>4, <1>6, <1>7, <1>9 DEF DInv

\* The file names what the vaults hold: so does the index that is read from it.
LEMMA StartD ==
    ASSUME DInv, Start PROVE DInv'
<1>1. /\ cmd.at = "down"
      /\ index' = Ensure(IF file = Absent THEN Unlisted ELSE file, Official)
      /\ \/ cmd' = Idle /\ todo' = todo
         \/ cmd' = [Idle EXCEPT !.op = "start", !.at = "done"] /\ todo' = <<SaveIndex>>
      /\ UNCHANGED <<registry, file, vaults, backups, opened, active, link, conns, commands, faults>>
  BY DEF Start, disk, count
<1>2. opened = {} /\ active = Absent /\ todo = <<>> /\ \A s \in Servers : link[s] = Absent
  BY <1>1, StageAt DEF DInv, Down
<1>3. Shape' /\ Stage'
  <2>1. CASE cmd' = Idle /\ todo' = todo
    BY <1>2, <2>1, IdleShape
  <2>2. CASE cmd' = [Idle EXCEPT !.op = "start", !.at = "done"] /\ todo' = <<SaveIndex>>
    <3>1. cmd'.at = "done" /\ cmd'.conn = Absent /\ Shape'
      BY <2>2 DEF Idle, Shape
    <3> QED
      BY <2>2, <3>1 DEF Stage, Finishing
  <2> QED
    BY <1>1, <2>1, <2>2
<1>4. PICK ix : ix = IF file = Absent THEN Unlisted ELSE file
  OBVIOUS
<1>5. /\ ix \in [Servers -> {Absent, "unnamed"} \cup Names]
      /\ \A s \in Servers : ix[s] \in Names => vaults[s].user # Absent
  BY <1>4, AppConstants DEF DInv, TypeOK, IndexBacked, Unlisted
<1>6. /\ index' \in [Servers -> {Absent, "unnamed"} \cup Names]
      /\ \A s \in Servers : index'[s] \in Names => index'[s] = ix[s]
  BY <1>1, <1>4, <1>5, EnsureFacts, AppConstants
<1>7. MemoryBacked'
  BY <1>1, <1>2, <1>5, <1>6 DEF MemoryBacked
<1>8. IndexBacked' /\ ConnsSound'
  BY <1>1 DEF DInv, IndexBacked, ConnsSound
<1>9. \A i \in 1..Len(todo') : Records(todo'[i])
  BY <1>3, PrimedRecords
<1>10. TypeOK'
  BY <1>1, <1>2, <1>6, <1>9 DEF DInv, TypeOK
<1> QED
  BY <1>3, <1>7, <1>8, <1>10 DEF DInv

LEMMA InitD ==
    ASSUME Init PROVE DInv
<1>1. /\ backups = registry /\ file = Absent /\ vaults = [s \in Servers |-> Empty]
      /\ index = Ensure(Unlisted, Official) /\ opened = {} /\ active = Absent
      /\ link = [s \in Servers |-> Absent] /\ conns = [c \in Conns |-> NoConn]
      /\ cmd = Idle /\ todo = <<>> /\ commands = 0 /\ faults = 0
  BY DEF Init
<1>2. registry \in [Servers -> [Names -> Keys \cup {Absent}]]
  <2>1. \A s \in Servers, u \in Names :
           (IF \E k \in Keys : <<s, u, k>> \in Elsewhere
            THEN CHOOSE k \in Keys : <<s, u, k>> \in Elsewhere ELSE Absent) \in Keys \cup {Absent}
    OBVIOUS
  <2> QED
    BY <2>1 DEF Init
<1>3. Shape /\ Stage
  BY <1>1 DEF Shape, Stage, Resting, Idle
<1>4. ConnsSound
  <2>1. \A c \in Conns : conns[c] = NoConn /\ conns[c].answer # "ok"
    BY <1>1, NoConnFields
  <2> QED
    BY <1>1, <2>1 DEF ConnsSound
<1>5. Unlisted \in [Servers -> {Absent, "unnamed"} \cup Names] /\ \A s \in Servers : Unlisted[s] \notin Names
  BY AppConstants DEF Unlisted
<1>6. /\ index \in [Servers -> {Absent, "unnamed"} \cup Names]
      /\ \A s \in Servers : index[s] \notin Names
  BY <1>1, <1>5, EnsureFacts, AppConstants
<1>7. vaults \in [Servers -> VaultRec] /\ \A s \in Servers : vaults[s].user = Absent
  BY <1>1 DEF Empty, VaultRec
<1>8. MemoryBacked /\ IndexBacked
  BY <1>1, <1>6, <1>7 DEF MemoryBacked, IndexBacked
<1>9. TypeOK
  BY <1>1, <1>2, <1>6, <1>7, AppConstants DEF TypeOK, VaultRec
<1> QED
  BY <1>3, <1>4, <1>8, <1>9 DEF DInv

LEMMA SameD ==
    ASSUME DInv, UNCHANGED vars PROVE DInv'
<1>1. UNCHANGED <<registry, file, vaults, backups, index, opened, active, link, conns, cmd, todo,
                  commands, faults, broken, swapped>>
  BY DEF vars, disk, memory, count, history
<1>2. TypeOK' /\ Shape' /\ ConnsSound' /\ MemoryBacked' /\ IndexBacked'
  BY <1>1 DEF DInv, TypeOK, Shape, ConnsSound, MemoryBacked, IndexBacked, Known
<1>3. Grown /\ Faithful
  BY <1>1 DEF DInv, TypeOK, Grown, Faithful, SameRequest
<1>4. Stage'
  BY <1>1, <1>3, NetworkStage
<1> QED
  BY <1>2, <1>4 DEF DInv

----------------------------------------------------------------------------
(* The identities: the name and the key of a vault belong together.        *)

Whole == BackupsSound /\ VaultsWhole

\* Only the last write of an import finds the vault between two identities.
LEMMA InterruptedAt ==
    /\ todo = <<>> => Interrupted = broken
    /\ cmd.op # "import" => Interrupted = broken
    /\ Stage /\ ~Importing => Interrupted = broken
    /\ broken \subseteq Interrupted
    /\ Interrupted \subseteq broken \cup {cmd.srv}
<1>1. ~(cmd.op = "import" /\ Writing("username")) => Interrupted = broken
  BY DEF Interrupted
<1>2. todo = <<>> => ~Writing("username")
  BY DEF Writing
<1>3. ASSUME Stage, ~Importing, cmd.op = "import", Writing("username") PROVE FALSE
  <2>1. todo # <<>> /\ Head(todo).file = "username"
    BY <1>3 DEF Writing
  <2>2. \A s, x : todo # <<MakeVault(s), x>> /\ todo # <<SaveIndex>>
    BY <2>1, HeadTail, FileOf
  <2>3. ~Ensuring
    BY <2>1, <2>2 DEF Ensuring
  <2>4. ~Finishing
    BY <1>3, <2>1, <2>2 DEF Finishing
  <2>5. ~Storing /\ ~Opening
    BY <1>3 DEF Storing, Opening, Asked, Asking
  <2> QED
    BY <1>3, <2>1, <2>3, <2>4, <2>5 DEF Stage, Resting, Down, Waiting
<1>4. broken \subseteq Interrupted /\ Interrupted \subseteq broken \cup {cmd.srv}
  BY DEF Interrupted
<1> QED
  BY <1>1, <1>2, <1>3, <1>4

\* The server forgets nothing, the vaults stay, a backup stays or is torn.
LEMMA WholeFrame ==
    ASSUME DInv, Whole, Grown, vaults' = vaults,
           \A s \in Servers, u \in Names : backups'[s][u] = backups[s][u] \/ backups'[s][u] = Absent,
           broken \subseteq broken', Interrupted \subseteq Interrupted'
    PROVE  Whole'
<1>1. ASSUME NEW s \in Servers \ broken', NEW u \in Names, backups'[s][u] # Absent
      PROVE  registry'[s][u] = backups'[s][u]
  <2>1. backups'[s][u] = backups[s][u] /\ s \in Servers \ broken
    BY <1>1
  <2>2. registry[s][u] = backups[s][u]
    BY <1>1, <2>1 DEF Whole, BackupsSound
  <2> QED
    BY <1>1, <2>1, <2>2 DEF Grown
<1>2. ASSUME NEW s \in Servers \ Interrupted', vaults'[s].user # Absent
      PROVE  registry'[s][vaults'[s].user] = vaults'[s].key
  <2>1. s \in Servers \ Interrupted /\ vaults[s].user \in Names /\ vaults[s].key # Absent
    BY <1>2 DEF DInv, TypeOK, IndexBacked
  <2>2. registry[s][vaults[s].user] = vaults[s].key
    BY <1>2, <2>1 DEF Whole, VaultsWhole
  <2> QED
    BY <1>2, <2>1, <2>2 DEF Grown
<1> QED
  BY <1>1, <1>2 DEF Whole, BackupsSound, VaultsWhole

LEMMA WriteWhole ==
    ASSUME DInv, Whole, Write PROVE Whole'
<1>0. /\ Wrote /\ vaults' \in [Servers -> VaultRec]
      /\ UNCHANGED <<registry, active, link, conns, cmd, commands, faults, broken>>
  BY WriteEffect
<1>1. broken \subseteq Interrupted'
  BY <1>0 DEF Interrupted
<1>2. ASSUME NEW s \in Servers, Same(s), UNCHANGED backups,
             \/ s \in Interrupted'
             \/ vaults'[s].user = Absent
             \/ vaults'[s].user = vaults[s].user /\ vaults'[s].key = vaults[s].key /\ Interrupted = broken
             \/ s \notin broken => registry[s][vaults'[s].user] = vaults'[s].key,
             Interrupted \subseteq broken \cup {s}
      PROVE  Whole'
  <2>1. BackupsSound'
    BY <1>0, <1>2 DEF Whole, BackupsSound
  <2>2. ASSUME NEW t \in Servers \ Interrupted', vaults'[t].user # Absent
        PROVE  registry'[t][vaults'[t].user] = vaults'[t].key
    <3>1. t \notin broken
      BY <1>1
    <3>2. CASE t # s
      <4>1. vaults'[t] = vaults[t] /\ t \notin Interrupted
        BY <1>2, <3>1, <3>2 DEF Same
      <4> QED
        BY <1>0, <2>2, <4>1 DEF Whole, VaultsWhole
    <3>3. CASE t = s
      BY <1>0, <1>2, <2>2, <3>1, <3>3 DEF Whole, VaultsWhole
    <3> QED
      BY <3>2, <3>3
  <2>3. VaultsWhole'
    BY <2>2 DEF VaultsWhole
  <2> QED
    BY <2>1, <2>3 DEF Whole
<1>3. Interrupted \subseteq broken \cup {cmd.srv} /\ (~Importing => Interrupted = broken)
  BY InterruptedAt DEF DInv
<1>4. /\ cmd.at = "ensured" => ~Importing
      /\ cmd.at = "open" => ~Importing
      /\ Storing => ~Importing
      /\ cmd.at = "done" => ~Importing
  BY DEF Importing, Storing, Asked, Asking
<1>5. CASE WroteVault
  <2>1. cmd.srv \in Servers /\ ~Importing
    BY <1>4, <1>5 DEF WroteVault, Ensuring
  <2> QED
    BY <1>2, <1>3, <1>5, <2>1 DEF WroteVault, HasUser, HasKey
<1>6. CASE WroteIndex
  <2>1. ~Importing
    BY <1>4, <1>6 DEF WroteIndex, Ensuring, Finishing
  <2>2. UNCHANGED <<vaults, backups>> /\ Interrupted \subseteq Interrupted'
    BY <1>1, <1>3, <1>6, <2>1 DEF WroteIndex
  <2>3. Grown
    BY <1>0 DEF Grown, DInv, TypeOK
  <2> QED
    BY <1>0, <2>2, <2>3, WholeFrame
<1>7. CASE WroteAccount
  <2>1. cmd.srv \in Servers /\ vaults[cmd.srv].key = Absent
    BY <1>7 DEF WroteAccount, Opening, Asking
  <2>2. vaults[cmd.srv].user = Absent
    BY <2>1 DEF DInv, IndexBacked
  <2> QED
    BY <1>2, <1>3, <1>7, <2>1, <2>2 DEF WroteAccount, HasUser, Rest
<1>8. CASE WroteName
  <2>1. cmd.srv \in Servers /\ vaults[cmd.srv].key = cmd.key /\ registry[cmd.srv][cmd.user] = cmd.key
    BY <1>8 DEF WroteName, Storing, Asked, Asking, Carried, DInv, ConnsSound
  <2> QED
    BY <1>2, <1>3, <1>8, <2>1 DEF WroteName, HasUser, HasKey, Rest
<1>9. CASE WroteAgain
  <2>1. cmd.srv \in Servers /\ ~Importing
    BY <1>4, <1>9 DEF WroteAgain, Storing, Asked, Asking
  <2> QED
    BY <1>2, <1>3, <1>9, <2>1 DEF WroteAgain, HasUser, HasKey, Rest
<1>10. ASSUME NEW s \in Servers, NEW u \in Names, NEW k \in Keys, WroteBackup(s, u, k)
       PROVE  Whole'
  <2>1. ~Importing
    BY <1>4, <1>10 DEF WroteBackup, Finishing
  <2>2. VaultsWhole'
    BY <1>0, <1>1, <1>3, <1>10, <2>1 DEF WroteBackup, Whole, VaultsWhole
  <2>3. backups' = [backups EXCEPT ![s][u] = k] /\ (s \in broken \/ registry[s][u] = k)
        /\ backups \in [Servers -> [Names -> Keys \cup {Absent}]]
    BY <1>10 DEF WroteBackup, DInv, TypeOK
  <2>4. \A t \in Servers, v \in Names : backups'[t][v] = IF t = s /\ v = u THEN k ELSE backups[t][v]
    BY <2>3
  <2>5. BackupsSound'
    BY <1>0, <2>3, <2>4 DEF Whole, BackupsSound
  <2> QED
    BY <2>2, <2>5 DEF Whole
<1>11. CASE WroteImport
  <2>1. cmd.srv \in Servers /\ cmd.op = "import"
    BY <1>11 DEF WroteImport, Importing
  <2>2. cmd.srv \in Interrupted'
    <3>1. Writing("username")'
      BY <1>11, HeadTail, FileOf DEF WroteImport, Writing
    <3> QED
      BY <1>0, <2>1, <3>1 DEF Interrupted
  <2> QED
    BY <1>2, <1>3, <1>11, <2>1, <2>2 DEF WroteImport
<1>12. CASE WroteImported
  <2>1. /\ cmd.srv \in Servers /\ cmd.user \in Names /\ backups[cmd.srv][cmd.user] # Absent
        /\ vaults[cmd.srv].key = backups[cmd.srv][cmd.user]
    BY <1>12 DEF WroteImported, Importing, Replaced
  <2>2. cmd.srv \notin broken => registry[cmd.srv][cmd.user] = vaults[cmd.srv].key
    BY <2>1 DEF Whole, BackupsSound
  <2> QED
    BY <1>2, <1>3, <1>12, <2>1, <2>2 DEF WroteImported, HasUser, HasKey, Rest
<1>13. ASSUME NEW s \in Servers, WroteDrop(s) PROVE Whole'
  <2>1. ~Importing
    BY <1>4, <1>13 DEF WroteDrop, Finishing
  <2> QED
    BY <1>2, <1>3, <1>13, <2>1 DEF WroteDrop, HasUser, Rest
<1> QED
  BY <1>0, <1>5, <1>6, <1>7, <1>8, <1>9, <1>10, <1>11, <1>12, <1>13 DEF Wrote

\* The steps of Next, one by one, for the proofs by cases below.
Orders ==
    \E s \in Servers : \E u \in Names :
       Register(s, u) \/ ImportIdentity(s, u)
Visits == \E s \in Servers : Connect(s) \/ SwitchServer(s)
Ensures == (\E k \in Keys : EnsuredRegister(k)) \/ EnsuredConnect \/ EnsuredImport
Answers == Refused \/ Unexpected \/ GiveUp \/ Closed

LEMMA StepCases ==
    ASSUME [Next]_vars
    PROVE  \/ Write \/ WriteFails
           \/ \E c \in Conns : Open(c) \/ Serve(c) \/ Break(c)
           \/ OpenFails \/ Orders \/ Visits
           \/ \E s \in Servers : CheckServer(s) \/ RemoveServer(s)
           \/ ExportIdentity \/ Ensures \/ Accepted \/ Answers \/ Stored \/ Done
           \/ Quit \/ Crash \/ Start \/ UNCHANGED vars
  BY DEF Next, Orders, Visits, Ensures, Answers

\* Steps that leave the disk alone.
LEMMA QuietWhole ==
    ASSUME DInv, Whole,
           \/ \E c \in Conns : Open(c) \/ Serve(c) \/ Break(c)
           \/ OpenFails \/ Orders \/ Visits
           \/ \E s \in Servers : CheckServer(s) \/ RemoveServer(s)
           \/ ExportIdentity \/ Ensures \/ Accepted \/ Answers \/ Stored \/ Done \/ Start
           \/ UNCHANGED vars
    PROVE  UNCHANGED <<file, vaults, backups, broken>> /\ Whole'
<1>1. UNCHANGED <<file, vaults, backups, broken>>
  <2>1. CASE \E c \in Conns : Open(c) \/ Serve(c) \/ Break(c)
    BY <2>1 DEF Open, Serve, Break, disk, history
  <2>2. CASE OpenFails \/ Answers \/ Stored \/ Done \/ Start
    BY <2>2 DEF OpenFails, Answers, Refused, Unexpected, GiveUp, Closed, Stored, Done, Start,
                disk, history
  <2>3. CASE Orders \/ Visits
    BY <2>3 DEF Orders, Visits, Register, ImportIdentity, Connect, SwitchServer, Order, disk, history
  <2>4. CASE (\E s \in Servers : CheckServer(s) \/ RemoveServer(s)) \/ ExportIdentity
    BY <2>4 DEF CheckServer, RemoveServer, ExportIdentity, OrderNow, disk, history
  <2>5. CASE Ensures \/ Accepted
    BY <2>5 DEF Ensures, EnsuredRegister, EnsuredConnect, EnsuredImport, Accepted, disk, history
  <2>6. CASE UNCHANGED vars
    BY <2>6 DEF vars, disk, history
  <2> QED
    BY <2>1, <2>2, <2>3, <2>4, <2>5, <2>6
<1>2. Grown
  <2>1. CASE \E c \in Conns : Serve(c)
    BY <2>1, ServeEffect
  <2>2. CASE registry' = registry
    BY <2>2 DEF Grown, DInv, TypeOK
  <2>3. (\E c \in Conns : Serve(c)) \/ registry' = registry
    BY DEF Open, Break, OpenFails, Answers, Refused, Unexpected, GiveUp, Closed, Stored, Done, Start,
           Orders, Visits, Register, ImportIdentity, Connect, SwitchServer, Order,
           CheckServer, RemoveServer, ExportIdentity, OrderNow,
           Ensures, EnsuredRegister, EnsuredConnect, EnsuredImport, Accepted, vars
  <2> QED
    BY <2>1, <2>2, <2>3
<1>3. Interrupted \subseteq Interrupted'
  <2>1. CASE UNCHANGED <<cmd, todo>>
    BY <1>1, <2>1 DEF Interrupted, Writing
  <2>2. CASE todo = <<>>
    BY <1>1, <2>2, InterruptedAt DEF Interrupted
  <2>3. cmd = Idle => todo = <<>>
    BY StageAt DEF DInv, Resting
  <2>4. cmd.at = "down" => todo = <<>>
    BY StageAt DEF DInv, Down
  <2>5. UNCHANGED <<cmd, todo>> \/ todo = <<>> \/ cmd = Idle \/ cmd.at = "down"
    BY DEF Open, Serve, Break, OpenFails, Answers, Refused, Unexpected, GiveUp, Closed, Stored, Done,
           Start, Orders, Visits, Register, ImportIdentity, Connect, SwitchServer, Order,
           CheckServer, RemoveServer, ExportIdentity, OrderNow,
           Ensures, EnsuredRegister, EnsuredConnect, EnsuredImport, Accepted, At, vars
  <2> QED
    BY <2>1, <2>2, <2>3, <2>4, <2>5
<1>4. Whole'
  BY <1>1, <1>2, <1>3, WholeFrame
<1> QED
  BY <1>1, <1>4

LEMMA FailsWhole ==
    ASSUME DInv, Whole, WriteFails PROVE Whole'
<1>1. /\ UNCHANGED <<registry, vaults, backups>>
      /\ \/ broken' = broken /\ Ignored(Head(todo))
         \/ broken' = Interrupted
  BY DEF WriteFails, disk
<1>2. Grown
  BY <1>1 DEF Grown, DInv, TypeOK
<1>3. Ignored(Head(todo)) => Interrupted = broken
  BY DEF Ignored, Interrupted, Writing
<1>4. broken \subseteq broken' /\ Interrupted \subseteq broken' /\ broken' \subseteq Interrupted'
  BY <1>1, <1>3, InterruptedAt DEF Interrupted
<1>5. Interrupted \subseteq Interrupted'
  BY <1>4
<1> QED
  BY <1>1, <1>2, <1>4, <1>5, WholeFrame

LEMMA EndedWhole ==
    ASSUME DInv, Whole, Quit \/ Crash PROVE Whole'
<1>1. /\ UNCHANGED <<registry, vaults>>
      /\ \A s \in Servers, u \in Names : backups'[s][u] = backups[s][u] \/ backups'[s][u] = Absent
      /\ (cmd = Idle /\ broken' = broken) \/ broken' = Interrupted
  BY EndedEffect
<1>2. Grown
  BY <1>1 DEF Grown, DInv, TypeOK
<1>3. cmd = Idle => Interrupted = broken
  BY InterruptedAt, IdleFields
<1>4. broken \subseteq broken' /\ Interrupted \subseteq broken' /\ broken' \subseteq Interrupted'
  BY <1>1, <1>3, InterruptedAt DEF Interrupted
<1>5. Interrupted \subseteq Interrupted'
  BY <1>4
<1> QED
  BY <1>1, <1>2, <1>4, <1>5, WholeFrame

LEMMA StepWhole ==
    ASSUME DInv, Whole, [Next]_vars PROVE DInv' /\ Whole'
<1>1. CASE Write
  BY <1>1, WriteDInv, WriteWhole
<1>2. CASE WriteFails
  BY <1>2, WriteFailsD, FailsWhole
<1>3. CASE \E c \in Conns : Open(c) \/ Serve(c) \/ Break(c)
  BY <1>3, OpenD, ServeD, BreakD, QuietWhole
<1>4. CASE OpenFails \/ Ensures \/ Accepted \/ Answers \/ Stored \/ Done \/ Start \/ UNCHANGED vars
  <2>1. DInv'
    BY <1>4, OpenFailsD, EnsuredD, AcceptedD, AnswersD, StoredD, DoneD, StartD, SameD
       DEF Ensures, Answers
  <2> QED
    BY <1>4, <2>1, QuietWhole
<1>5. CASE Orders
  <2>1. DInv'
    BY <1>5, OrdersD DEF Orders
  <2> QED
    BY <1>5, <2>1, QuietWhole
<1>6. CASE Visits
  <2>1. PICK s \in Servers : Connect(s) \/ SwitchServer(s)
    BY <1>6 DEF Visits
  <2>2. ASSUME NEW op \in {"connect", "switch"}, Order(op, s, Absent) PROVE DInv'
    BY <2>2, OrderD
  <2>3. DInv'
    BY <2>1, <2>2 DEF Connect, SwitchServer
  <2> QED
    BY <1>6, <2>3, QuietWhole
<1>7. CASE \E s \in Servers : CheckServer(s) \/ RemoveServer(s)
  BY <1>7, CheckD, RemoveD, QuietWhole
<1>8. CASE ExportIdentity
  BY <1>8, ExportD, QuietWhole DEF Whole
<1>9. CASE Quit \/ Crash
  BY <1>9, EndedD, EndedWhole
<1> QED
  BY <1>1, <1>2, <1>3, <1>4, <1>5, <1>6, <1>7, <1>8, <1>9, StepCases

LEMMA InitWhole ==
    ASSUME Init PROVE Whole
<1>1. backups = registry /\ \A s \in Servers : vaults[s].user = Absent
  BY DEF Init, Empty
<1> QED
  BY <1>1 DEF Whole, BackupsSound, VaultsWhole

\* The files and the vaults keep to the index, and every vault is whole, for
\* every behaviour of the client.
LEMMA WholeAlways == Spec => [](DInv /\ Whole)
<1>1. Init => DInv /\ Whole
  BY InitD, InitWhole
<1>2. DInv /\ Whole /\ [Next]_vars => (DInv /\ Whole)'
  BY StepWhole
<1> QED
  BY <1>1, <1>2, PTL DEF Spec

\* servers.json never names an identity that its vault does not hold, and a
\* vault with a name has an account, whatever writes fail and wherever the
\* process ends between the writes of register, import_identity and
\* remove_server.
THEOREM IndexAlwaysBacked == Spec => []IndexBacked
<1>1. DInv /\ Whole => IndexBacked
  BY DEF DInv
<1> QED
  BY <1>1, WholeAlways, PTL

\* The name and the account of a vault, and those of a backup, are one identity
\* that the server has, except where an import was cut between its two writes.
THEOREM IdentityAlwaysWhole == Spec => []IdentityWhole
<1>1. Whole => IdentityWhole
  BY InterruptedAt DEF Whole, BackupsSound, VaultsWhole, IdentityWhole
<1> QED
  BY <1>1, WholeAlways, PTL

----------------------------------------------------------------------------
(* The links.                                                              *)

\* The connection that a command waits on is nobody's link yet.
Unlinked == cmd.conn # Absent => \A s \in Servers : link[s] # cmd.conn

Linked == LinkAuthenticated /\ Unlinked

LEMMA LinkFacts ==
    ASSUME DInv, LinkAuthenticated
    PROVE  /\ \A s \in Servers : link[s] # Absent =>
                 /\ link[s] \in Conns /\ conns[link[s]] \in Requests /\ conns[link[s]].key \in Keys
                 /\ conns[link[s]].srv = s /\ conns[link[s]].answer = "ok"
           /\ \A s, t \in Servers : link[s] # Absent /\ link[s] = link[t] => s = t
<1>1. ASSUME NEW s \in Servers, link[s] # Absent
      PROVE  /\ link[s] \in Conns /\ conns[link[s]].srv = s /\ conns[link[s]].answer = "ok"
  BY <1>1 DEF DInv, TypeOK, LinkAuthenticated
<1>2. ASSUME NEW s \in Servers, link[s] # Absent
      PROVE  conns[link[s]] \in Requests
  BY <1>1, <1>2, NoConnFields DEF DInv, ConnsSound
<1>3. ASSUME NEW s \in Servers, link[s] # Absent
      PROVE  conns[link[s]].key \in Keys
  BY <1>2, <1>3 DEF Requests
<1>4. ASSUME NEW s \in Servers, NEW t \in Servers, link[s] # Absent, link[s] = link[t] PROVE s = t
  BY <1>1, <1>4
<1> QED
  BY <1>1, <1>2, <1>3, <1>4

\* Every link there is was there, on a connection that was not touched.
KeepLinks ==
    \A s \in Servers : link'[s] # Absent =>
       link'[s] = link[s] /\ SameRequest(link[s]) /\ conns'[link[s]].answer = "ok"

LEMMA LinkFrame ==
    ASSUME DInv, DInv', Linked, KeepLinks, vaults' = vaults,
           \A s \in Servers : link'[s] # Absent /\ s \in swapped => s \in swapped',
           cmd'.conn = Absent \/ cmd'.conn = cmd.conn
    PROVE  Linked'
<1>1. ASSUME NEW s \in Servers, link'[s] # Absent
      PROVE  LET n == conns'[link'[s]]
             IN /\ n.srv = s /\ n.answer = "ok"
                /\ registry'[s][n.user] = n.key
                /\ s \notin swapped' => n.user = vaults'[s].user /\ n.key = vaults'[s].key
  <2>0. PICK c : c = link[s]
    OBVIOUS
  <2>1. link'[s] = c /\ SameRequest(c) /\ conns'[c].answer = "ok"
    BY <1>1, <2>0 DEF KeepLinks
  <2>2. conns[c].srv = s /\ (s \notin swapped => conns[c].user = vaults[s].user /\ conns[c].key = vaults[s].key)
    BY <1>1, <2>0, <2>1 DEF Linked, LinkAuthenticated
  <2>3. c \in Conns
    BY <1>1, <2>1 DEF DInv, TypeOK
  <2>4. conns'[c].srv = s
    BY <2>1, <2>2 DEF SameRequest
  <2>5. registry'[s][conns'[c].user] = conns'[c].key
    BY <2>1, <2>3, <2>4 DEF DInv, ConnsSound
  <2>6. s \notin swapped' => conns'[c].user = vaults'[s].user /\ conns'[c].key = vaults'[s].key
    BY <1>1, <2>1, <2>2 DEF SameRequest
  <2> QED
    BY <2>1, <2>4, <2>5, <2>6
<1>2. LinkAuthenticated'
  BY <1>1 DEF LinkAuthenticated
<1>3. Unlinked'
  BY DEF Unlinked, Linked, KeepLinks
<1> QED
  BY <1>2, <1>3 DEF Linked

\* Links that stay, on connections that stay.
LEMMA SameKeep ==
    ASSUME DInv, Linked, link' = link, \A s \in Servers : link[s] # Absent => conns'[link[s]] = conns[link[s]]
    PROVE  KeepLinks
  BY LinkFacts DEF Linked, KeepLinks, SameRequest

\* prune_dead_links drops no connection that somebody still uses.
LEMMA PruneKeep ==
    ASSUME DInv, Linked
    PROVE  /\ \A s \in Servers : Pruned[s] # Absent =>
                 Pruned[s] = link[s] /\ Kept[link[s]] = conns[link[s]] /\ conns[link[s]].reader
           /\ link' = Pruned /\ conns' = Kept => KeepLinks
<1>1. ASSUME NEW s \in Servers, Pruned[s] # Absent
      PROVE  Pruned[s] = link[s] /\ Kept[link[s]] = conns[link[s]] /\ conns[link[s]].reader
  <2>1. ~Dead(s) /\ Pruned[s] = link[s]
    BY <1>1 DEF Pruned
  <2>2. link[s] \in Conns /\ \A t \in Servers : link[t] = link[s] => t = s
    BY <1>1, <2>1, LinkFacts DEF Linked
  <2>3. ~\E t \in Servers : Dead(t) /\ link[t] = link[s]
    BY <2>1, <2>2
  <2>4. Kept[link[s]] = conns[link[s]]
    BY <2>2, <2>3 DEF Kept
  <2> QED
    BY <1>1, <2>1, <2>4 DEF Dead
<1>2. ASSUME link' = Pruned, conns' = Kept PROVE KeepLinks
  <2>1. ASSUME NEW s \in Servers, link'[s] # Absent
        PROVE  link'[s] = link[s] /\ conns'[link[s]] = conns[link[s]] /\ conns[link[s]].answer = "ok"
    BY <1>1, <1>2, <2>1, LinkFacts DEF Linked
  <2> QED
    BY <2>1 DEF KeepLinks, SameRequest
<1> QED
  BY <1>1, <1>2

\* Only import_identity writes under a link.
LEMMA WriteLinked ==
    ASSUME DInv, DInv', Linked, Write PROVE Linked'
<1>0. /\ Wrote /\ UNCHANGED <<registry, active, link, conns, cmd, commands, faults, broken>>
  BY WriteEffect
<1>1. ASSUME NEW s \in Servers, link[s] # Absent, s \notin swapped'
      PROVE  s \notin swapped /\ vaults'[s].user = vaults[s].user /\ vaults'[s].key = vaults[s].key
  <2>0. swapped \subseteq swapped'
    BY <1>0 DEF Wrote, WroteVault, WroteIndex, WroteAccount, WroteName, WroteAgain, WroteBackup,
                WroteImport, WroteImported, WroteDrop, Rest
  <2>1. s \notin swapped /\ s \in opened /\ vaults[s].key \in Keys
    BY <1>1, <2>0, LinkFacts DEF Linked, LinkAuthenticated, DInv, TypeOK
  <2>2. CASE WroteVault
    BY <2>1, <2>2 DEF WroteVault, Same, HasUser, HasKey
  <2>3. CASE WroteIndex
    BY <2>1, <2>3 DEF WroteIndex
  <2>4. CASE WroteAccount
    BY <2>1, <2>4, AppConstants DEF WroteAccount, Same
  <2>5. CASE WroteName
    BY <1>1, <2>1, <2>5 DEF WroteName, Same, Storing, Asked
  <2>6. CASE WroteAgain
    BY <2>1, <2>6 DEF WroteAgain, Same, HasUser, HasKey
  <2>7. CASE \E t \in Servers, u \in Names, k \in Keys : WroteBackup(t, u, k)
    BY <2>1, <2>7 DEF WroteBackup
  <2>8. CASE WroteImport
    BY <1>1, <2>1, <2>8 DEF WroteImport, Same
  <2>9. CASE WroteImported
    BY <1>1, <2>1, <2>9 DEF WroteImported, Same, Replaced
  <2>10. CASE \E t \in Servers : WroteDrop(t)
    BY <2>1, <2>10 DEF WroteDrop, Forgotten, Same
  <2> QED
    BY <1>0, <2>2, <2>3, <2>4, <2>5, <2>6, <2>7, <2>8, <2>9, <2>10 DEF Wrote
<1>2. LinkAuthenticated'
  BY <1>0, <1>1 DEF Linked, LinkAuthenticated
<1>3. Unlinked'
  BY <1>0 DEF Linked, Unlinked
<1> QED
  BY <1>2, <1>3 DEF Linked

\* The reader of a request is stopped: that is no link.
LEMMA EndLinked ==
    ASSUME DInv, DInv', Linked, WriteFails \/ Answers \/ Done \/ Accepted \/ EnsuredImport
                                \/ \E k \in Keys : EnsuredRegister(k)
    PROVE  Linked'
<1>1. /\ link' = link /\ vaults' = vaults /\ swapped' = swapped
      /\ conns' = conns \/ conns' = Stopped(conns, cmd.conn)
  BY DEF WriteFails, Answers, Refused, Unexpected, GiveUp, Closed, Done, Accepted, EnsuredImport,
         EnsuredRegister, memory, disk, history
<1>2. cmd'.conn = Absent \/ cmd'.conn = cmd.conn
  <2>1. \/ cmd' = Idle \/ cmd' = cmd \/ cmd' = [cmd EXCEPT !.at = "stored"]
        \/ \E k \in Keys : cmd' = [cmd EXCEPT !.at = "open", !.key = k]
    BY DEF WriteFails, Answers, Refused, Unexpected, GiveUp, Closed, Done, Accepted, EnsuredImport,
           EnsuredRegister, Goto
  <2> QED
    BY <2>1, IdleFields DEF DInv, Shape
<1>3. cmd.conn \in Conns \cup {Absent} /\ conns \in [Conns -> ConnRecs]
  BY DEF DInv, Shape, ConnsSound, ConnRecs
<1>4. ASSUME NEW s \in Servers, link[s] # Absent PROVE conns'[link[s]] = conns[link[s]]
  <2>1. link[s] \in Conns /\ link[s] # cmd.conn
    BY <1>4, LinkFacts DEF Linked, Unlinked
  <2>2. Stopped(conns, cmd.conn)[link[s]] = conns[link[s]]
    BY <1>3, <2>1, StoppedFacts
  <2> QED
    BY <1>1, <2>2
<1>5. KeepLinks
  BY <1>1, <1>4, SameKeep
<1> QED
  BY <1>1, <1>2, <1>5, LinkFrame

\* The old link of the server goes, and no other server's.
LEMMA OpenLinked ==
    ASSUME DInv, DInv', Linked, OpenFails \/ \E c \in Conns : Open(c)
    PROVE  Linked'
<1>1. /\ cmd.at = "open" /\ link' = [link EXCEPT ![cmd.srv] = Absent]
      /\ vaults' = vaults /\ swapped' = swapped
  BY DEF OpenFails, Open, At, disk, history
<1>2. cmd.srv \in Servers /\ cmd.conn = Absent
  BY <1>1, StageAt DEF DInv, Opening, Asking
<1>3. link \in [Servers -> Conns \cup {Absent}] /\ conns \in [Conns -> ConnRecs]
  BY DEF DInv, TypeOK, ConnsSound, ConnRecs
<1>4. PICK cs : cs = Stopped(conns, link[cmd.srv])
  OBVIOUS
<1>5. ASSUME NEW s \in Servers, link'[s] # Absent
      PROVE  /\ link'[s] = link[s] /\ link[s] \in Conns /\ cs[link[s]] = conns[link[s]]
             /\ conns[link[s]].answer = "ok"
  <2>1. s # cmd.srv /\ link'[s] = link[s]
    BY <1>1, <1>2, <1>3, <1>5
  <2>2. link[s] # link[cmd.srv] /\ link[s] \in Conns /\ conns[link[s]].answer = "ok"
    BY <1>2, <1>5, <2>1, LinkFacts DEF Linked
  <2> QED
    BY <1>2, <1>3, <1>4, <2>1, <2>2, StoppedFacts
<1>6. CASE OpenFails
  <2>1. conns' = cs /\ cmd'.conn = Absent
    BY <1>4, <1>6, IdleFields DEF OpenFails
  <2>2. KeepLinks
    BY <1>5, <2>1 DEF KeepLinks, SameRequest
  <2> QED
    BY <1>1, <2>1, <2>2, LinkFrame
<1>7. ASSUME NEW c \in Conns, Open(c) PROVE Linked'
  <2>0. PICK r : r = [srv |-> cmd.srv, op |-> cmd.op, user |-> cmd.user,
                      key |-> cmd.key, answer |-> "none", reader |-> TRUE]
    OBVIOUS
  <2>1. cs[c] = NoConn /\ conns' = [cs EXCEPT ![c] = r] /\ cmd' = [cmd EXCEPT !.at = "wait", !.conn = c]
    BY <1>4, <1>7, <2>0 DEF Open
  <2>2. cs \in [Conns -> ConnRecs]
    BY <1>2, <1>3, <1>4, StoppedFacts
  <2>3. ASSUME NEW s \in Servers, link'[s] # Absent
        PROVE  link'[s] = link[s] /\ link[s] # c /\ conns'[link[s]] = conns[link[s]]
               /\ conns[link[s]].answer = "ok"
    <3>1. link[s] # c
      BY <1>5, <2>1, <2>3, NoConnFields
    <3> QED
      BY <1>5, <2>1, <2>2, <2>3, <3>1
  <2>4. KeepLinks
    BY <2>3 DEF KeepLinks, SameRequest
  <2>5. cmd'.conn = c /\ c # Absent
    BY <2>1, AppConstants DEF DInv, Shape
  <2>6. Unlinked'
    BY <2>3, <2>5 DEF Unlinked
  <2>7. LinkAuthenticated'
    <3>1. ASSUME NEW s \in Servers, link'[s] # Absent
          PROVE  LET n == conns'[link'[s]]
                 IN /\ n.srv = s /\ n.answer = "ok" /\ registry'[s][n.user] = n.key
                    /\ s \notin swapped' => n.user = vaults'[s].user /\ n.key = vaults'[s].key
      <4>1. registry' = registry
        BY <1>7 DEF Open
      <4> QED
        BY <1>1, <2>3, <3>1, <4>1 DEF Linked, LinkAuthenticated
    <3> QED
      BY <3>1 DEF LinkAuthenticated
  <2> QED
    BY <2>6, <2>7 DEF Linked
<1> QED
  BY <1>6, <1>7

LEMMA NetworkLinked ==
    ASSUME DInv, DInv', Linked, NEW c \in Conns, Serve(c) \/ Break(c)
    PROVE  Linked'
<1>1. Faithful /\ UNCHANGED <<vaults, link, cmd, swapped>>
  BY ServeEffect, BreakEffect
<1>2. KeepLinks
  <2>1. ASSUME NEW s \in Servers, link[s] # Absent
        PROVE  SameRequest(link[s]) /\ conns'[link[s]].answer = "ok"
    BY <1>1, <2>1, LinkFacts DEF Linked, Faithful, Owned
  <2> QED
    BY <1>1, <2>1 DEF KeepLinks
<1> QED
  BY <1>1, <1>2, LinkFrame

LEMMA OrderLinked ==
    ASSUME DInv, DInv', Linked,
           Orders \/ Visits \/ ExportIdentity \/ \E s \in Servers : CheckServer(s)
    PROVE  Linked'
<1>1. link' = Pruned /\ conns' = Kept /\ UNCHANGED <<vaults, swapped>>
  BY DEF Orders, Visits, Register, ImportIdentity, Connect, SwitchServer, Order, CheckServer,
         ExportIdentity, OrderNow, disk, history
<1>2. cmd'.conn = Absent
  <2>1. \/ \E op, s, u : cmd' = [Idle EXCEPT !.op = op, !.at = "ensured", !.srv = s, !.user = u]
        \/ \E op : cmd' = [Idle EXCEPT !.op = op, !.at = "done"]
    BY DEF Orders, Visits, Register, ImportIdentity, Connect, SwitchServer, Order, CheckServer,
           ExportIdentity
  <2> QED
    BY <2>1 DEF Idle
<1>3. KeepLinks
  BY <1>1, PruneKeep
<1> QED
  BY <1>1, <1>2, <1>3, LinkFrame

LEMMA ConnectLinked ==
    ASSUME DInv, DInv', Linked, EnsuredConnect PROVE Linked'
<1>1. /\ \/ link' = Pruned /\ conns' = Kept
         \/ UNCHANGED <<link, conns>>
      /\ \/ cmd' = Idle
         \/ cmd' = [cmd EXCEPT !.at = "open", !.op = "connect",
                               !.user = vaults[cmd.srv].user, !.key = vaults[cmd.srv].key]
      /\ UNCHANGED <<vaults, swapped>>
  BY DEF EnsuredConnect, disk, history
<1>2. cmd'.conn = Absent \/ cmd'.conn = cmd.conn
  BY <1>1, IdleFields DEF DInv, Shape
<1>3. KeepLinks
  BY <1>1, PruneKeep, SameKeep
<1> QED
  BY <1>1, <1>2, <1>3, LinkFrame

LEMMA RemoveLinked ==
    ASSUME DInv, DInv', Linked, NEW s \in Servers, RemoveServer(s) PROVE Linked'
<1>1. /\ cmd' = [Idle EXCEPT !.op = "remove", !.at = "done"] /\ swapped' = swapped \ {s}
      /\ vaults' = vaults
      /\ \A t \in Servers : link'[t] # Absent => link'[t] = link[t] /\ link'[t] = Pruned[t] /\ t # s
      /\ \A c \in Conns : c # Pruned[s] => conns'[c] = Kept[c]
  BY RemoveEffect
<1>2. cmd'.conn = Absent
  BY <1>1 DEF Idle
<1>3. ASSUME NEW t \in Servers, link'[t] # Absent
      PROVE  link'[t] = link[t] /\ conns'[link[t]] = conns[link[t]] /\ conns[link[t]].answer = "ok"
  <2>1. link'[t] = link[t] /\ link[t] = Pruned[t] /\ t # s /\ link[t] # Absent
    BY <1>1, <1>3
  <2>2. link[t] \in Conns /\ link[t] # link[s] /\ conns[link[t]].answer = "ok"
    BY <2>1, LinkFacts DEF Linked
  <2>3. Pruned[s] = link[s] \/ Pruned[s] = Absent
    BY PruneFacts
  <2>4. conns'[link[t]] = Kept[link[t]]
    BY <1>1, <2>1, <2>2, <2>3
  <2>5. Kept[link[t]] = conns[link[t]]
    BY <2>1, PruneKeep
  <2> QED
    BY <2>1, <2>2, <2>4, <2>5
<1>4. KeepLinks
  BY <1>3 DEF KeepLinks, SameRequest
<1>5. \A t \in Servers : link'[t] # Absent /\ t \in swapped => t \in swapped'
  BY <1>1
<1> QED
  BY <1>1, <1>2, <1>4, <1>5, LinkFrame

\* The connection that was answered becomes the link of its server.
LEMMA StoredLinked ==
    ASSUME DInv, DInv', Linked, Stored PROVE Linked'
<1>1. /\ cmd.at = "stored" /\ todo = <<>>
      /\ cmd' = [Idle EXCEPT !.op = cmd.op, !.at = "done", !.srv = cmd.srv]
      /\ \/ cmd.op = "import" /\ UNCHANGED <<link, active, swapped>>
         \/ /\ cmd.op # "import" /\ link' = [link EXCEPT ![cmd.srv] = cmd.conn]
            /\ swapped' = swapped \ {cmd.srv}
      /\ UNCHANGED <<registry, vaults, conns>>
  BY StoredEffect
<1>2. cmd'.conn = Absent
  BY <1>1 DEF Idle
<1>3. CASE cmd.op = "import"
  <2>1. KeepLinks
    BY <1>1, <1>3, SameKeep
  <2> QED
    BY <1>1, <1>2, <1>3, <2>1, LinkFrame
<1>4. CASE cmd.op # "import"
  <2>1. /\ cmd.srv \in Servers /\ cmd.conn \in Conns
        /\ Carried /\ conns[cmd.conn].answer = "ok"
        /\ vaults[cmd.srv].user = cmd.user /\ vaults[cmd.srv].key = cmd.key
    BY <1>1, <1>4, StoredFacts
  <2>2. /\ conns[cmd.conn].srv = cmd.srv /\ conns[cmd.conn].user = cmd.user
        /\ conns[cmd.conn].key = cmd.key /\ registry[cmd.srv][cmd.user] = cmd.key
    BY <2>1 DEF Carried, DInv, ConnsSound
  <2>3. /\ link'[cmd.srv] = cmd.conn /\ swapped' = swapped \ {cmd.srv}
        /\ \A s \in Servers \ {cmd.srv} : link'[s] = link[s]
    BY <1>1, <1>4, <2>1 DEF DInv, TypeOK
  <2>4. ASSUME NEW s \in Servers, link'[s] # Absent
        PROVE  LET n == conns'[link'[s]]
               IN /\ n.srv = s /\ n.answer = "ok" /\ registry'[s][n.user] = n.key
                  /\ s \notin swapped' => n.user = vaults'[s].user /\ n.key = vaults'[s].key
    <3>1. CASE s = cmd.srv
      BY <1>1, <2>1, <2>2, <2>3, <3>1
    <3>2. CASE s # cmd.srv
      BY <1>1, <2>3, <2>4, <3>2 DEF Linked, LinkAuthenticated
    <3> QED
      BY <3>1, <3>2
  <2>5. LinkAuthenticated'
    BY <2>4 DEF LinkAuthenticated
  <2>6. Unlinked'
    BY <1>2 DEF Unlinked
  <2> QED
    BY <2>5, <2>6 DEF Linked
<1> QED
  BY <1>3, <1>4

LEMMA ProcessLinked ==
    ASSUME DInv, DInv', Linked, Quit \/ Crash \/ Start \/ UNCHANGED vars
    PROVE  Linked'
<1>1. CASE Quit \/ Crash
  <2>1. /\ \A s \in Servers : link'[s] = Absent
        /\ cmd' = [Idle EXCEPT !.op = "start", !.at = "down"]
    BY <1>1, EndedEffect
  <2>2. cmd'.conn = Absent
    BY <2>1 DEF Idle
  <2> QED
    BY <2>1, <2>2 DEF Linked, LinkAuthenticated, Unlinked
<1>2. CASE Start
  <2>1. /\ UNCHANGED <<link, conns, vaults, swapped>>
        /\ cmd' = Idle \/ cmd' = [Idle EXCEPT !.op = "start", !.at = "done"]
    BY <1>2 DEF Start, disk, history
  <2>2. cmd'.conn = Absent
    <3>1. [Idle EXCEPT !.op = "start", !.at = "done"].conn = Absent
      BY DEF Idle
    <3> QED
      BY <2>1, <3>1, IdleFields
  <2>3. KeepLinks
    BY <2>1, SameKeep
  <2> QED
    BY <2>1, <2>2, <2>3, LinkFrame
<1>3. CASE UNCHANGED vars
  <2>1. UNCHANGED <<registry, link, conns, vaults, swapped, cmd>>
    BY <1>3 DEF vars, disk, memory, history
  <2>2. KeepLinks
    BY <2>1, SameKeep
  <2> QED
    BY <2>1, <2>2, LinkFrame
<1> QED
  BY <1>1, <1>2, <1>3

LEMMA StepLinked ==
    ASSUME DInv, DInv', Linked, [Next]_vars PROVE Linked'
<1>1. CASE \E c \in Conns : Open(c) \/ Serve(c) \/ Break(c)
  BY <1>1, OpenLinked, NetworkLinked
<1>2. CASE Ensures
  BY <1>2, EndLinked, ConnectLinked DEF Ensures
<1> QED
  BY <1>1, <1>2, StepCases, WriteLinked, EndLinked, OpenLinked, OrderLinked, RemoveLinked,
     StoredLinked, ProcessLinked

LEMMA InitLinked ==
    ASSUME Init PROVE Linked
<1>1. (\A s \in Servers : link[s] = Absent) /\ cmd = Idle
  BY DEF Init
<1> QED
  BY <1>1, IdleFields DEF Linked, LinkAuthenticated, Unlinked

----------------------------------------------------------------------------
(* The readers.                                                            *)

LEMMA FewerStray ==
    ASSUME DInv, DInv', StrayCounted, faults' >= faults, Stray' \subseteq Stray
    PROVE  StrayCounted'
<1>1. IsFiniteSet(Stray') /\ Cardinality(Stray') <= Cardinality(Stray)
  BY FS_Subset DEF StrayCounted
<1>2. Cardinality(Stray) \in Nat /\ Cardinality(Stray') \in Nat
  BY <1>1, FS_CardinalityType DEF StrayCounted
<1>3. faults \in Nat /\ faults' \in Nat
  BY AppConstants DEF DInv, TypeOK
<1> QED
  BY <1>1, <1>2, <1>3 DEF StrayCounted

LEMMA OneMoreStray ==
    ASSUME DInv, DInv', StrayCounted, faults' = faults + 1, NEW c,
           Stray' \subseteq Stray \cup {c}
    PROVE  StrayCounted'
<1>1. IsFiniteSet(Stray \cup {c}) /\ Cardinality(Stray \cup {c}) <= Cardinality(Stray) + 1
  <2>1. IsFiniteSet(Stray) /\ Cardinality(Stray) \in Nat
    BY FS_CardinalityType DEF StrayCounted
  <2> QED
    BY <2>1, FS_AddElement
<1>2. IsFiniteSet(Stray') /\ Cardinality(Stray') <= Cardinality(Stray \cup {c})
  BY <1>1, FS_Subset
<1>3. /\ Cardinality(Stray) \in Nat /\ Cardinality(Stray') \in Nat
      /\ Cardinality(Stray \cup {c}) \in Nat
  BY <1>1, <1>2, FS_CardinalityType DEF StrayCounted
<1>4. faults \in Nat /\ faults' \in Nat
  BY AppConstants DEF DInv, TypeOK
<1> QED
  BY <1>1, <1>2, <1>3, <1>4 DEF StrayCounted

\* A command that ends without stopping its reader leaves that one.
LEMMA LeaveStray ==
    ASSUME DInv, DInv', StrayCounted, WriteFails \/ GiveUp PROVE StrayCounted'
<1>1. UNCHANGED <<conns, link>> /\ faults' = faults + 1
  BY DEF WriteFails, GiveUp, Fault, memory
<1>2. Stray' \subseteq Stray \cup {cmd.conn}
  BY <1>1 DEF Stray, Owned
<1> QED
  BY <1>1, <1>2, OneMoreStray

\* The other ends of a request stop the reader first.
LEMMA StopStray ==
    ASSUME DInv, Refused \/ Unexpected \/ Closed PROVE Stray' \subseteq Stray
<1>1. conns' = Stopped(conns, cmd.conn) /\ link' = link
  BY DEF Refused, Unexpected, Closed, memory
<1>2. conns \in [Conns -> ConnRecs] /\ cmd.conn \in Conns \cup {Absent}
  BY DEF DInv, ConnsSound, ConnRecs, Shape
<1>3. \A c \in Conns : conns'[c].reader => c # cmd.conn /\ conns'[c] = conns[c]
  BY <1>1, <1>2, StoppedFacts
<1> QED
  BY <1>1, <1>3 DEF Stray, Owned

LEMMA OpenStray ==
    ASSUME DInv, OpenFails \/ \E c \in Conns : Open(c) PROVE Stray' \subseteq Stray
<1>1. cmd.at = "open" /\ link' = [link EXCEPT ![cmd.srv] = Absent]
  BY DEF OpenFails, Open, At
<1>2. cmd.srv \in Servers /\ cmd.conn = Absent
  BY <1>1, StageAt DEF DInv, Opening, Asking
<1>3. /\ link \in [Servers -> Conns \cup {Absent}] /\ conns \in [Conns -> ConnRecs]
      /\ Absent \notin Conns
  BY AppConstants DEF DInv, TypeOK, ConnsSound, ConnRecs
<1>4. PICK cs \in [Conns -> ConnRecs] : cs = Stopped(conns, link[cmd.srv])
  BY <1>2, <1>3, StoppedFacts
<1>5. ASSUME NEW d \in Conns, cs[d].reader
      PROVE  conns[d].reader /\ (Owned(d) => \E s \in Servers : link'[s] = d)
  <2>1. d # link[cmd.srv] /\ cs[d] = conns[d]
    BY <1>2, <1>3, <1>4, <1>5, StoppedFacts
  <2>2. ASSUME NEW s \in Servers, link[s] = d PROVE link'[s] = d
    BY <1>1, <1>2, <1>3, <2>1, <2>2
  <2> QED
    BY <1>2, <1>3, <1>5, <2>1, <2>2 DEF Owned
<1>6. CASE OpenFails
  <2>1. conns' = cs
    BY <1>4, <1>6 DEF OpenFails
  <2> QED
    BY <1>5, <2>1 DEF Stray, Owned
<1>7. ASSUME NEW c \in Conns, Open(c) PROVE Stray' \subseteq Stray
  <2>1. PICK r : conns' = [cs EXCEPT ![c] = r]
    BY <1>4, <1>7 DEF Open
  <2>2. cmd'.conn = c
    BY <1>7 DEF Open, DInv, Shape
  <2>3. \A d \in Conns : d # c => conns'[d] = cs[d]
    BY <1>4, <2>1
  <2> QED
    BY <1>5, <2>2, <2>3 DEF Stray, Owned
<1> QED
  BY <1>6, <1>7

\* A dead link has no reader: prune_dead_links leaves nothing behind.
LEMMA PruneStray ==
    ASSUME DInv, NEW c \in Conns, Kept[c].reader
    PROVE  conns[c].reader /\ \A s \in Servers : link[s] = c => Pruned[s] = c
<1>1. Kept[c] # NoConn
  BY NoConnFields
<1>2. Kept[c] = conns[c] /\ ~\E s \in Servers : Dead(s) /\ link[s] = c
  BY <1>1 DEF Kept
<1> QED
  BY <1>2 DEF Pruned

LEMMA OrderStray ==
    ASSUME DInv,
           Orders \/ Visits \/ ExportIdentity \/ \E s \in Servers : CheckServer(s)
    PROVE  Stray' \subseteq Stray
<1>1. link' = Pruned /\ conns' = Kept /\ cmd = Idle
  BY DEF Orders, Visits, Register, ImportIdentity, Connect, SwitchServer, Order, CheckServer,
         ExportIdentity, OrderNow
<1>2. cmd.conn = Absent /\ Absent \notin Conns
  BY <1>1, IdleFields, AppConstants
<1> QED
  BY <1>1, <1>2, PruneStray DEF Stray, Owned

LEMMA ConnectStray ==
    ASSUME DInv, EnsuredConnect PROVE Stray' \subseteq Stray
<1>1. /\ cmd.at = "ensured"
      /\ (link' = Pruned /\ conns' = Kept) \/ UNCHANGED <<link, conns>>
  BY DEF EnsuredConnect, At
<1>2. cmd.conn = Absent /\ Absent \notin Conns
  BY <1>1, StageAt, AppConstants DEF DInv, Ensuring
<1>3. CASE link' = Pruned /\ conns' = Kept
  BY <1>2, <1>3, PruneStray DEF Stray, Owned
<1>4. CASE UNCHANGED <<link, conns>>
  BY <1>2, <1>4 DEF Stray, Owned
<1> QED
  BY <1>1, <1>3, <1>4

LEMMA RemoveStray ==
    ASSUME DInv, NEW s \in Servers, RemoveServer(s) PROVE Stray' \subseteq Stray
<1>1. /\ cmd = Idle /\ link' = [Pruned EXCEPT ![s] = Absent]
  BY DEF RemoveServer, OrderNow
<1>2. /\ \A c \in Conns : c # Pruned[s] => conns'[c] = Kept[c]
      /\ Pruned[s] # Absent => ~conns'[Pruned[s]].reader
  BY RemoveEffect
<1>3. cmd.conn = Absent /\ Absent \notin Conns /\ Pruned \in [Servers -> Conns \cup {Absent}]
  BY <1>1, IdleFields, AppConstants, PruneFacts
<1>4. ASSUME NEW c \in Conns, conns'[c].reader
      PROVE  conns[c].reader /\ \A t \in Servers : link[t] = c => link'[t] = c
  <2>1. c # Pruned[s] /\ Kept[c].reader
    BY <1>2, <1>3, <1>4
  <2>2. conns[c].reader /\ \A t \in Servers : link[t] = c => Pruned[t] = c
    BY <2>1, PruneStray
  <2> QED
    BY <1>1, <1>3, <2>1, <2>2
<1> QED
  BY <1>3, <1>4 DEF Stray, Owned

LEMMA StoredStray ==
    ASSUME DInv, Stored PROVE Stray' \subseteq Stray
<1>1. /\ cmd.at = "stored" /\ todo = <<>> /\ conns' = conns
      /\ \/ cmd.op = "import" /\ link' = link
         \/ cmd.op # "import" /\ link' = [link EXCEPT ![cmd.srv] = cmd.conn]
  BY StoredEffect
<1>2. Absent \notin Conns /\ link \in [Servers -> Conns \cup {Absent}]
  BY AppConstants DEF DInv, TypeOK
<1>3. CASE cmd.op = "import"
  <2>1. cmd.conn = Absent /\ link' = link
    BY <1>1, <1>3, StoredFacts DEF Importing
  <2> QED
    BY <1>1, <1>2, <2>1 DEF Stray, Owned
<1>4. CASE cmd.op # "import"
  <2>1. cmd.srv \in Servers /\ link[cmd.srv] = Absent /\ link' = [link EXCEPT ![cmd.srv] = cmd.conn]
    BY <1>1, <1>4, StoredFacts
  <2>2. link'[cmd.srv] = cmd.conn /\ \A s \in Servers : link[s] # Absent => link'[s] = link[s]
    BY <1>2, <2>1
  <2> QED
    BY <1>1, <1>2, <2>1, <2>2 DEF Stray, Owned
<1> QED
  BY <1>3, <1>4

\* Steps that leave the connections and their owners.
LEMMA SameStray ==
    ASSUME DInv,
           \/ Write \/ Done \/ Accepted \/ EnsuredImport \/ Start \/ UNCHANGED vars
           \/ \E k \in Keys : EnsuredRegister(k)
    PROVE  Stray' \subseteq Stray
<1>1. UNCHANGED <<link, conns>>
  BY DEF Write, Done, Accepted, EnsuredImport, Start, EnsuredRegister, memory, vars
<1>2. cmd'.conn = cmd.conn \/ cmd.conn = Absent
  <2>1. CASE Done
    BY <2>1, StageAt DEF Done, At, DInv, Finishing
  <2>2. CASE Start
    BY <2>2, StageAt DEF Start, DInv, Down
  <2>3. CASE ~Done /\ ~Start
    <3>1. \/ cmd' = cmd \/ cmd' = [cmd EXCEPT !.at = "stored"]
          \/ \E k \in Keys : cmd' = [cmd EXCEPT !.at = "open", !.key = k]
      BY <2>3 DEF Write, Accepted, EnsuredImport, EnsuredRegister, Goto, vars
    <3> QED
      BY <3>1 DEF DInv, Shape
  <2> QED
    BY <2>1, <2>2, <2>3
<1>3. Absent \notin Conns
  BY AppConstants
<1> QED
  BY <1>1, <1>2, <1>3 DEF Stray, Owned

LEMMA NetworkStray ==
    ASSUME DInv, NEW c \in Conns, Serve(c) \/ Break(c) PROVE Stray' \subseteq Stray
<1>1. UNCHANGED <<link, cmd>> /\ \A d \in Conns \ {c} : conns'[d] = conns[d]
  BY ServeEffect, BreakEffect
<1>2. conns'[c].reader => conns[c].reader
  <2>1. CASE Serve(c)
    BY <2>1, ServeEffect, NoConnFields
  <2>2. CASE Break(c)
    BY <2>2, BreakEffect
  <2> QED
    BY <2>1, <2>2
<1> QED
  BY <1>1, <1>2 DEF Stray, Owned

LEMMA FaultsGrow ==
    ASSUME DInv, [Next]_vars PROVE faults' >= faults
<1>1. faults \in Int
  BY AppConstants DEF DInv, TypeOK
<1>2. faults' = faults \/ Fault
  BY StepCases DEF Write, WriteFails, Open, Serve, Break, OpenFails, Orders, Visits, Register,
     ImportIdentity, Connect, SwitchServer, Order, CheckServer, RemoveServer, ExportIdentity, OrderNow,
     Ensures, EnsuredRegister, EnsuredConnect, EnsuredImport, Accepted, Answers, Refused, Unexpected,
     GiveUp, Closed, Stored, Done, Quit, Crash, Start, count, vars
<1> QED
  BY <1>1, <1>2 DEF Fault

LEMMA StepStray ==
    ASSUME DInv, DInv', StrayCounted, [Next]_vars PROVE StrayCounted'
<1>1. CASE WriteFails \/ GiveUp
  BY <1>1, LeaveStray
<1>2. CASE Quit \/ Crash
  <2>1. \A c \in Conns : ~conns'[c].reader
    BY <1>2, EndedEffect
  <2>2. Stray' \subseteq Stray
    BY <2>1 DEF Stray
  <2> QED
    BY <2>2, FewerStray, FaultsGrow
<1>3. CASE ~(WriteFails \/ GiveUp \/ Quit \/ Crash)
  <2>1. Stray' \subseteq Stray
    BY <1>3, StepCases, StopStray, OpenStray, OrderStray, ConnectStray, RemoveStray, StoredStray,
       SameStray, NetworkStray DEF Answers, Ensures
  <2> QED
    BY <2>1, FewerStray, FaultsGrow
<1> QED
  BY <1>1, <1>2, <1>3

LEMMA InitStray ==
    ASSUME Init PROVE StrayCounted
<1>1. Stray = {} /\ faults = 0
  BY NoConnFields DEF Init, Stray
<1> QED
  BY <1>1, FS_EmptySet DEF StrayCounted

LEMMA LinkedAlways == Spec => [](DInv /\ Whole /\ Linked /\ StrayCounted)
<1>1. Init => DInv /\ Whole /\ Linked /\ StrayCounted
  BY InitD, InitWhole, InitLinked, InitStray
<1>2. DInv /\ Whole /\ Linked /\ StrayCounted /\ [Next]_vars
         => (DInv /\ Whole /\ Linked /\ StrayCounted)'
  BY StepWhole, StepLinked, StepStray
<1> QED
  BY <1>1, <1>2, PTL DEF Spec

\* What the client has open is what it says: every variable has its type, a
\* link was answered AuthOk by its server for the identity in its vault unless
\* an import replaced that under it, and there are never more readers without an
\* owner than there were faults.
THEOREM ConnectionsAlways == Spec => []Connections
<1>1. DInv /\ Whole /\ Linked /\ StrayCounted => Connections
  BY DEF DInv, Linked, StrayCounted, Stray, Connections, NoStrayReader
<1> QED
  BY <1>1, LinkedAlways, PTL

----------------------------------------------------------------------------
(* Without a fault no name is lost.                                        *)

Calm == Orderly /\ AllBackedUp

\* Steps outside the wait, and outside the writes of a register: no request
\* is under way, and none is made.
LEMMA CalmFrame ==
    ASSUME Calm, faults = 0, cmd.at # "wait", cmd'.at # "wait", Fade,
           cmd.op # "register" \/ cmd.at # "stored" \/ todo = <<>>,
           UNCHANGED <<registry, backups, broken>>
    PROVE  Calm'
<1>1. \A c \in Conns : ~(conns'[c].op = "register" /\ conns'[c].answer = "none")
  <2> SUFFICES ASSUME NEW c \in Conns, conns'[c].op = "register", conns'[c].answer = "none"
               PROVE  FALSE
    OBVIOUS
  <2>1. conns'[c] # NoConn
    BY NoConnFields
  <2>2. conns[c].op = "register" /\ conns[c].answer = "none"
    BY <2>1 DEF Fade, Fades, SameRequest
  <2> QED
    BY <2>2 DEF Calm, Orderly
<1>2. Orderly'
  BY <1>1 DEF Calm, Orderly
<1>3. \A s \in Servers, u \in Names : ~Unsaved(s, u)
  BY DEF Unsaved
<1>4. AllBackedUp'
  BY <1>3 DEF Calm, AllBackedUp
<1> QED
  BY <1>2, <1>4 DEF Calm

LEMMA WriteCalm ==
    ASSUME DInv, Calm, Write PROVE Calm'
<1>0. /\ Wrote /\ UNCHANGED <<registry, active, link, conns, cmd, commands, faults, broken>>
  BY WriteEffect
<1>1. Orderly'
  BY <1>0 DEF Calm, Orderly
<1>2. ASSUME NEW s \in Servers, NEW u \in Names, faults = 0, registry[s][u] # Absent
      PROVE  backups'[s][u] = registry[s][u] \/ Unsaved(s, u)'
  <2>0. backups[s][u] = registry[s][u] \/ Unsaved(s, u)
    BY <1>2 DEF Calm, AllBackedUp
  <2>1. CASE \E t \in Servers, v \in Names, k \in Keys : WroteBackup(t, v, k)
    <3>1. PICK t \in Servers, v \in Names, k \in Keys : WroteBackup(t, v, k)
      BY <2>1
    <3>2. registry[t][v] = k /\ backups' = [backups EXCEPT ![t][v] = k]
          /\ backups \in [Servers -> [Names -> Keys \cup {Absent}]]
      BY <1>2, <3>1 DEF WroteBackup, Calm, Orderly, DInv, TypeOK
    <3>3. backups'[s][u] = IF s = t /\ u = v THEN k ELSE backups[s][u]
      BY <3>2
    <3>4. Unsaved(s, u) => s = t /\ u = v
      BY <3>1 DEF WroteBackup, Unsaved, Finishing
    <3> QED
      BY <2>0, <3>2, <3>3, <3>4
  <2>2. CASE WroteName \/ WroteAgain
    <3>0. cmd.op = "register" => \E a, b : todo' = <<a>> \/ todo' = <<a, b>>
      BY <2>2 DEF WroteName, WroteAgain
    <3>1. backups' = backups /\ cmd.at = "stored"
      BY <2>2 DEF WroteName, WroteAgain, Rest, Storing
    <3>1a. cmd.op = "register" => todo' # <<>>
      BY <3>0, HeadTail
    <3>2. Unsaved(s, u) => Unsaved(s, u)'
      BY <1>0, <3>1, <3>1a DEF Unsaved
    <3> QED
      BY <2>0, <3>1, <3>2
  <2>3. CASE WroteVault \/ WroteIndex \/ WroteAccount
    <3>1. backups' = backups /\ cmd.at \notin {"wait", "stored"}
      BY <2>3 DEF WroteVault, WroteIndex, WroteAccount, Rest, Ensuring, Opening, Finishing
    <3> QED
      BY <2>0, <3>1 DEF Unsaved
  <2>4. CASE WroteImport \/ WroteImported \/ \E t \in Servers : WroteDrop(t)
    <3>1. backups' = backups /\ cmd.op # "register"
      BY <2>4 DEF WroteImport, WroteImported, WroteDrop, Rest, Importing
    <3> QED
      BY <2>0, <3>1 DEF Unsaved
  <2> QED
    BY <1>0, <2>1, <2>2, <2>3, <2>4 DEF Wrote
<1>3. AllBackedUp'
  BY <1>0, <1>2 DEF AllBackedUp
<1> QED
  BY <1>1, <1>3 DEF Calm

\* The name that the server registers is the one the command waits for.
LEMMA ServeCalm ==
    ASSUME DInv, Calm, NEW c \in Conns, Serve(c), faults = 0 PROVE Calm'
<1>1. /\ conns[c] \in Requests /\ conns[c].answer = "none"
      /\ \A d \in Conns \ {c} : conns'[d] = conns[d]
      /\ \/ conns'[c] = NoConn
         \/ conns'[c].answer \in {"ok", "refused"}
      /\ conns[c].reader /\ Grants(conns[c]) => conns'[c].answer = "ok"
      /\ conns[c].reader => conns'[c].reader
      /\ Grants(conns[c]) => registry'[conns[c].srv][conns[c].user] = conns[c].key
      /\ \A s \in Servers, u \in Names :
            registry'[s][u] # registry[s][u] =>
               /\ conns[c].op = "register" /\ Grants(conns[c])
               /\ conns[c].srv = s /\ conns[c].user = u
      /\ UNCHANGED <<backups, cmd, todo, broken>> /\ UNCHANGED count
  BY ServeEffect
<1>2. Orderly'
  <2>1. ~(conns'[c].op = "register" /\ conns'[c].answer = "none")
    BY <1>1, NoConnFields
  <2>2. cmd'.at = "wait" => conns'[cmd'.conn].reader
    <3>1. ASSUME cmd.at = "wait" PROVE conns'[cmd.conn].reader
      <4>1. cmd.conn \in Conns /\ conns[cmd.conn].reader
        BY <3>1, StageAt DEF DInv, Waiting, Asked, Calm, Orderly
      <4> QED
        BY <1>1, <4>1
    <3> QED
      BY <1>1, <3>1
  <2> QED
    BY <1>1, <2>1, <2>2 DEF Calm, Orderly
<1>3. ASSUME NEW s \in Servers, NEW u \in Names, registry'[s][u] # Absent
      PROVE  backups'[s][u] = registry'[s][u] \/ Unsaved(s, u)'
  <2>1. CASE registry'[s][u] # registry[s][u]
    <3>1. /\ conns[c].op = "register" /\ Grants(conns[c])
          /\ conns[c].srv = s /\ conns[c].user = u /\ registry'[s][u] = conns[c].key
      BY <1>1, <2>1
    <3>2. cmd.at = "wait" /\ cmd.conn = c /\ conns[c].reader
      BY <1>1, <3>1 DEF Calm, Orderly
    <3>3. Carried
      BY <3>2, StageAt DEF DInv, Waiting
    <3>4. conns'[c].answer = "ok"
      BY <1>1, <3>1, <3>2
    <3>5. /\ cmd'.op = "register" /\ cmd'.srv = s /\ cmd'.user = u /\ cmd'.key = registry'[s][u]
          /\ cmd'.at = "wait" /\ conns'[cmd'.conn].answer = "ok"
      BY <1>1, <3>1, <3>2, <3>3, <3>4 DEF Carried
    <3> QED
      BY <3>5 DEF Unsaved
  <2>2. CASE registry'[s][u] = registry[s][u]
    <3>1. backups[s][u] = registry[s][u] \/ Unsaved(s, u)
      BY <1>3, <2>2 DEF Calm, AllBackedUp
    <3>2. ASSUME Unsaved(s, u) PROVE Unsaved(s, u)'
      <4>1. CASE cmd.at = "stored"
        BY <1>1, <2>2, <3>2, <4>1 DEF Unsaved
      <4>2. CASE cmd.at = "wait"
        <5>1. cmd.conn \in Conns /\ conns[cmd.conn].answer = "ok"
          BY <3>2, <4>2, StageAt DEF Unsaved, DInv, Waiting, Asked
        <5>2. conns'[cmd.conn].answer = "ok"
          BY <1>1, <5>1
        <5> QED
          BY <1>1, <2>2, <3>2, <4>2, <5>2 DEF Unsaved
      <4> QED
        BY <3>2, <4>1, <4>2 DEF Unsaved
    <3> QED
      BY <1>1, <2>2, <3>1, <3>2
  <2> QED
    BY <2>1, <2>2
<1>4. AllBackedUp'
  BY <1>3 DEF AllBackedUp
<1> QED
  BY <1>2, <1>4 DEF Calm

LEMMA OpenCalm ==
    ASSUME DInv, Calm, NEW c \in Conns, Open(c), faults = 0 PROVE Calm'
<1>0. PICK r : r = [srv |-> cmd.srv, op |-> cmd.op, user |-> cmd.user,
                    key |-> cmd.key, answer |-> "none", reader |-> TRUE]
  OBVIOUS
<1>1. /\ cmd.at = "open" /\ conns' = [Stopped(conns, link[cmd.srv]) EXCEPT ![c] = r]
      /\ cmd' = [cmd EXCEPT !.at = "wait", !.conn = c]
      /\ UNCHANGED <<registry, backups, broken>>
  BY <1>0 DEF Open, At, disk, history
<1>2. cmd'.at = "wait" /\ cmd'.conn = c
  BY <1>1 DEF DInv, Shape
<1>3. cmd.srv \in Servers
  BY <1>1, StageAt DEF DInv, Opening, Asking
<1>4. link[cmd.srv] \in Conns \cup {Absent} /\ conns \in [Conns -> ConnRecs]
  BY <1>3 DEF DInv, TypeOK, ConnsSound, ConnRecs
<1>5. PICK cs \in [Conns -> ConnRecs] : cs = Stopped(conns, link[cmd.srv])
  BY <1>4, StoppedFacts
<1>6. conns'[c].reader /\ \A d \in Conns : d # c => conns'[d] = cs[d]
  BY <1>0, <1>1, <1>5
<1>7. ASSUME NEW d \in Conns, cs[d].op = "register", cs[d].answer = "none" PROVE FALSE
  <2>1. conns[d].op = "register" /\ conns[d].answer = "none"
    <3>1. CASE d = link[cmd.srv]
      BY <1>4, <1>5, <1>7, <3>1, StoppedFacts, NoConnFields
    <3>2. CASE d # link[cmd.srv]
      BY <1>4, <1>5, <1>7, <3>2, StoppedFacts
    <3> QED
      BY <3>1, <3>2
  <2> QED
    BY <1>1, <2>1 DEF Calm, Orderly
<1>8. Orderly'
  BY <1>1, <1>2, <1>6, <1>7 DEF Calm, Orderly
<1>9. \A s \in Servers, u \in Names : ~Unsaved(s, u)
  BY <1>1 DEF Unsaved
<1>10. AllBackedUp'
  BY <1>1, <1>9 DEF Calm, AllBackedUp
<1> QED
  BY <1>8, <1>10 DEF Calm

\* AuthOk: the name is unsaved until the last of the writes.
LEMMA AcceptedCalm ==
    ASSUME DInv, Calm, Accepted, faults = 0 PROVE Calm'
<1>1. /\ cmd.at = "wait" /\ conns[cmd.conn].answer = "ok"
      /\ cmd' = [cmd EXCEPT !.at = "stored"]
      /\ \/ todo' = <<SetUsername(cmd.srv, cmd.user), SaveAccount(cmd.srv, cmd.key),
                      Backup(cmd.srv, cmd.user, cmd.key)>>
         \/ todo' = <<SaveAccount(cmd.srv, cmd.key)>>
      /\ UNCHANGED <<registry, backups, conns, broken>>
  BY DEF Accepted, At, Goto, disk, history
<1>2. todo' # <<>>
  <2>1. \E a, b, c : todo' = <<a, b, c>> \/ todo' = <<a>>
    BY <1>1
  <2> QED
    BY <2>1, HeadTail
<1>3. /\ cmd'.at = "stored" /\ cmd'.op = cmd.op /\ cmd'.srv = cmd.srv
      /\ cmd'.user = cmd.user /\ cmd'.key = cmd.key
  BY <1>1 DEF DInv, Shape
<1>4. Orderly'
  BY <1>1, <1>3 DEF Calm, Orderly
<1>5. \A s \in Servers, u \in Names : Unsaved(s, u) => Unsaved(s, u)'
  BY <1>1, <1>2, <1>3 DEF Unsaved
<1>6. AllBackedUp'
  BY <1>1, <1>5 DEF Calm, AllBackedUp
<1> QED
  BY <1>4, <1>6 DEF Calm

\* The server said no: nothing was registered.
LEMMA RefusedCalm ==
    ASSUME DInv, Calm, Refused, faults = 0 PROVE Calm'
<1>1. /\ cmd.at = "wait" /\ conns[cmd.conn].answer = "refused"
      /\ conns' = Stopped(conns, cmd.conn) /\ cmd' = Idle
      /\ UNCHANGED <<registry, backups, broken>>
  BY DEF Refused, At, disk, history
<1>2. cmd.conn \in Conns \cup {Absent}
  BY DEF DInv, Shape
<1>3. Fade
  BY <1>1, <1>2, StopFades DEF DInv
<1>4. ASSUME NEW c \in Conns, conns'[c].op = "register", conns'[c].answer = "none" PROVE FALSE
  <2>1. conns'[c] # NoConn
    BY <1>4, NoConnFields
  <2>2. conns[c].op = "register" /\ conns[c].answer = "none"
    BY <1>3, <1>4, <2>1 DEF Fade, Fades, SameRequest
  <2> QED
    BY <1>1, <2>2 DEF Calm, Orderly
<1>5. Orderly'
  BY <1>1, <1>4, IdleFields DEF Calm, Orderly
<1>6. \A s \in Servers, u \in Names : ~Unsaved(s, u)
  BY <1>1 DEF Unsaved
<1>7. AllBackedUp'
  BY <1>1, <1>6 DEF Calm, AllBackedUp
<1> QED
  BY <1>5, <1>7 DEF Calm

LEMMA QuietCalm ==
    ASSUME DInv, Calm, faults = 0,
           \/ Orders \/ Visits \/ (\E s \in Servers : CheckServer(s) \/ RemoveServer(s))
           \/ ExportIdentity \/ Ensures \/ Stored \/ Done \/ Quit \/ Start
    PROVE  Calm'
<1>1. CASE Orders \/ Visits \/ (\E s \in Servers : CheckServer(s)) \/ ExportIdentity
  <2>1. /\ cmd = Idle /\ conns' = Kept /\ UNCHANGED <<registry, backups, broken>>
        /\ \/ \E op, s, u : cmd' = [Idle EXCEPT !.op = op, !.at = "ensured", !.srv = s, !.user = u]
           \/ \E op : cmd' = [Idle EXCEPT !.op = op, !.at = "done"]
    BY <1>1 DEF Orders, Visits, Register, ImportIdentity, Connect, SwitchServer, Order, CheckServer,
                ExportIdentity, OrderNow, disk, history
  <2>2. cmd'.at # "wait"
    BY <2>1 DEF Idle
  <2> QED
    BY <2>1, <2>2, CalmFrame, PruneFades, IdleFields
<1>2. ASSUME NEW s \in Servers, RemoveServer(s) PROVE Calm'
  <2>1. /\ cmd = Idle /\ Fade /\ UNCHANGED <<registry, backups, broken>>
        /\ cmd' = [Idle EXCEPT !.op = "remove", !.at = "done"]
    BY <1>2, RemoveEffect
  <2>2. cmd'.at # "wait"
    BY <2>1 DEF Idle
  <2> QED
    BY <2>1, <2>2, CalmFrame, IdleFields
<1>3. CASE Ensures
  <2>1. /\ cmd.at = "ensured" /\ UNCHANGED <<registry, backups, broken>>
        /\ conns' = conns \/ conns' = Kept
    BY <1>3 DEF Ensures, EnsuredRegister, EnsuredConnect, EnsuredImport, At, disk, history
  <2>2. cmd'.at # "wait"
    <3>1. \/ cmd' = Idle
          \/ cmd' = [cmd EXCEPT !.at = "stored"]
          \/ \E k : cmd' = [cmd EXCEPT !.at = "open", !.key = k]
          \/ \E u, k : cmd' = [cmd EXCEPT !.at = "open", !.op = "connect", !.user = u, !.key = k]
      BY <1>3 DEF Ensures, EnsuredRegister, EnsuredConnect, EnsuredImport, Goto
    <3> QED
      BY <3>1, IdleFields DEF DInv, Shape
  <2>3. Fade
    BY <2>1, PruneFades, SameFades DEF DInv
  <2> QED
    BY <2>1, <2>2, <2>3, CalmFrame
<1>4. CASE Stored
  <2>1. /\ cmd.at = "stored" /\ todo = <<>> /\ UNCHANGED <<registry, backups, conns, broken>>
        /\ cmd' = [Idle EXCEPT !.op = cmd.op, !.at = "done", !.srv = cmd.srv]
    BY <1>4, StoredEffect
  <2>2. cmd'.at # "wait" /\ Fade
    BY <2>1, SameFades DEF Idle, DInv
  <2> QED
    BY <2>1, <2>2, CalmFrame
<1>5. CASE Done
  <2>1. /\ cmd.at = "done" /\ cmd' = Idle /\ UNCHANGED <<registry, backups, conns, broken>>
    BY <1>5 DEF Done, At, disk, history
  <2>2. cmd'.at # "wait" /\ Fade
    BY <2>1, SameFades, IdleFields DEF DInv
  <2> QED
    BY <2>1, <2>2, CalmFrame
<1>6. CASE Quit
  <2>1. /\ cmd = Idle /\ cmd' = [Idle EXCEPT !.op = "start", !.at = "down"]
        /\ Fade /\ UNCHANGED <<registry, backups, broken>>
    BY <1>6, EndedEffect DEF Quit, disk
  <2>2. cmd'.at # "wait"
    BY <2>1 DEF Idle
  <2> QED
    BY <2>1, <2>2, CalmFrame, IdleFields
<1>7. CASE Start
  <2>1. /\ cmd.at = "down" /\ UNCHANGED <<registry, backups, conns, broken>>
        /\ cmd' = Idle \/ cmd' = [Idle EXCEPT !.op = "start", !.at = "done"]
    BY <1>7 DEF Start, disk, history
  <2>2. [Idle EXCEPT !.op = "start", !.at = "done"].at # "wait"
    BY DEF Idle
  <2>3. cmd'.at # "wait" /\ Fade
    BY <2>1, <2>2, SameFades, IdleFields DEF DInv
  <2> QED
    BY <2>1, <2>3, CalmFrame
<1> QED
  BY <1>1, <1>2, <1>3, <1>4, <1>5, <1>6, <1>7

LEMMA StepCalm ==
    ASSUME DInv, Calm, [Next]_vars PROVE Calm'
<1>1. CASE faults' # 0
  BY <1>1 DEF Calm, Orderly, AllBackedUp
<1>2. CASE faults' = 0
  <2>1. faults = 0 /\ ~Fault
    BY <1>2, FaultsGrow, FaultCounts, AppConstants DEF DInv, TypeOK
  <2>2. ~(WriteFails \/ OpenFails \/ Unexpected \/ GiveUp \/ Crash) /\ \A c \in Conns : ~Break(c)
    BY <2>1 DEF WriteFails, OpenFails, Unexpected, GiveUp, Crash, Break
  <2>3. ~Closed
    BY <2>1 DEF Closed, At, Calm, Orderly
  <2>4. CASE UNCHANGED vars
    <3>1. UNCHANGED <<registry, backups, conns, cmd, todo, faults, broken>>
      BY <2>4 DEF vars, disk, count, history
    <3> QED
      BY <3>1 DEF Calm, Orderly, AllBackedUp, Unsaved
  <2> QED
    BY <2>1, <2>2, <2>3, <2>4, StepCases, WriteCalm, ServeCalm, OpenCalm, AcceptedCalm, RefusedCalm,
       QuietCalm DEF Answers
<1> QED
  BY <1>1, <1>2

LEMMA InitCalm ==
    ASSUME Init PROVE Calm
<1>1. /\ backups = registry /\ broken = {} /\ cmd = Idle
      /\ \A c \in Conns : conns[c] = NoConn
  BY DEF Init
<1> QED
  BY <1>1, IdleFields, NoConnFields DEF Calm, Orderly, AllBackedUp

\* As long as nothing failed, every name that a server has registered for this
\* user is in a backup with its key whenever no command is running: whatever
\* was registered, imported over, or removed.
THEOREM NamesRecoverable == Spec => []RecoverableUnlessFault
<1>1. Init => DInv /\ Whole /\ Calm
  BY InitD, InitWhole, InitCalm
<1>2. DInv /\ Whole /\ Calm /\ [Next]_vars => (DInv /\ Whole /\ Calm)'
  BY StepWhole, StepCalm
<1>3. DInv /\ Whole /\ Calm => RecoverableUnlessFault
  <2> SUFFICES ASSUME Calm, cmd = Idle, faults = 0 PROVE Recoverable
    BY DEF RecoverableUnlessFault
  <2>1. \A s \in Servers, u \in Names : ~Unsaved(s, u)
    BY IdleFields DEF Unsaved
  <2> QED
    BY <2>1 DEF Calm, AllBackedUp, Recoverable
<1> QED
  BY <1>1, <1>2, <1>3, PTL DEF Spec
============================================================================
