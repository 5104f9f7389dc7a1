----------------------------- MODULE OlmProofs -----------------------------
(***************************************************************************)
(* The properties of Olm, for any numbers of commands, faults and          *)
(* published keys.                                                         *)
(***************************************************************************)
EXTENDS Olm, SequenceTheorems, TLAPS

----------------------------------------------------------------------------
(* The types.                                                              *)

Keys == (Clients \cup {Stranger}) \X Nat
Frames == [key : Keys, ident : Idents, idx : Nat, pre : BOOLEAN,
           op : {"text", "control", "left"}, no : Nat]
Maybe == Sessions \cup {NoSession}
Seen == Idents \cup {NoIdent}

SendSteps == {"fetch", "pin", "save"}
CmdSteps == {"delete", "renew", "publish"}
ReadSteps == {"rfetch", "rpin", "inbound", "asave", "isave", "rsave"}
Jobs == [op : {"idle", "start", "text", "control", "left", "renew", "receive"},
         at : {"idle"} \cup SendSteps \cup CmdSteps \cup ReadSteps,
         loaded : Maybe, copy : Maybe, acct : SUBSET Nat, seen : Seen,
         ident : Seen, frame : Frames \cup {NoFrame}]

RowsOK ==
    /\ row \in [Clients -> Maybe]
    /\ otks \in [Clients -> SUBSET Nat] /\ pool \in [Clients -> SUBSET Nat]
    /\ made \in [Clients -> Nat]
    /\ pin \in [Clients -> Seen] /\ chat \in [Clients -> BOOLEAN]
WireOK == wire \in [Clients -> Seq(Frames)]
TaskOK == task \in [Clients -> [Tasks -> Jobs]]
HistOK ==
    /\ read \in [Clients -> Seq(Nat)] /\ refused \in [Clients -> SUBSET Nat]
    /\ ops \in 0..MaxOps /\ faults \in 0..MaxFaults /\ sent \in Nat
    /\ used \in [Clients -> SUBSET (Keys \X Nat)]
    /\ reused \subseteq Clients /\ starters \subseteq Clients
    /\ left \subseteq Clients /\ overtaken \subseteq Clients /\ raced \subseteq Clients
Shape == RowsOK /\ WireOK /\ TaskOK /\ HistOK

\* A session that was started with a key of the other's, or of a stranger's, and
\* has sent nothing.
New(c, s) ==
    /\ s \in Sessions /\ s.key[1] \in {Peer(c), Stranger} /\ s.snd = 0 /\ s.rcv = {}
    /\ s.key[1] = Stranger => s.ident # Real

\* What the step a task is at says of what it has in hand.
JobOK(c, t, k) ==
    /\ k.at = "idle" => k = Idle
    /\ k.at \in CmdSteps \/ k.op = "left" => t = "cmd"
    /\ k.at \in ReadSteps => t = "proc" /\ k.frame \in Frames
    /\ k.at = "fetch" => k.loaded = NoSession /\ k.op \in {"start", "control"}
    /\ k.at = "pin" =>
          /\ k.loaded = NoSession /\ k.op \in {"start", "control"}
          /\ New(c, k.copy) /\ k.copy.ident = k.ident /\ k.seen \in {NoIdent, k.ident}
    /\ k.at = "save" =>
          /\ k.op \in {"start", "text", "control", "left"} /\ k.copy \in Sessions
          /\ IF k.loaded = NoSession THEN New(c, k.copy) ELSE k.copy = k.loaded
    /\ k.at = "rpin" => k.ident \in Idents /\ k.seen \in {NoIdent, k.ident}
    /\ k.at \in {"asave", "isave"} => k.frame.pre /\ k.frame.ident = Real
    /\ k.at = "asave" => k.frame.key[2] \in k.acct
    /\ k.at = "rsave" =>
          /\ k.loaded \in Sessions /\ k.copy \in Sessions
          /\ k.loaded.key = k.frame.key /\ k.frame.idx \notin k.loaded.rcv
          /\ k.copy = [k.loaded EXCEPT !.rcv = @ \cup {k.frame.idx}]
JobsOK == \A c \in Clients, t \in Tasks : JobOK(c, t, task[c][t])

Types == Shape /\ JobsOK

----------------------------------------------------------------------------
(* Tasks.                                                                  *)

LEMMA PeerFacts ==
  ASSUME NEW c \in Clients
  PROVE  /\ Peer(c) \in Clients /\ Peer(c) # c /\ Peer(Peer(c)) = c
         /\ \A d \in Clients : d = c \/ d = Peer(c)
         /\ Stranger # c /\ Stranger # Peer(c)
  <1>1. \E p \in Clients : p # c
    BY OlmConstants
  <1>2. Peer(c) \in Clients /\ Peer(c) # c
    BY <1>1 DEF Peer
  <1>3. Peer(Peer(c)) \in Clients /\ Peer(Peer(c)) # Peer(c)
    BY <1>2 DEF Peer
  <1> QED
    BY <1>2, <1>3, OlmConstants

\* A step that leaves task t of c with job k and every other task alone.
Step(c, t, k) ==
    /\ k \in Jobs /\ JobOK(c, t, k)
    /\ TaskOK' /\ task'[c][t] = k
    /\ \A d \in Clients, u \in Tasks : d # c \/ u # t => task'[d][u] = task[d][u]

LEMMA DoStep ==
  ASSUME TaskOK, NEW c \in Clients, NEW t \in Tasks, NEW k \in Jobs, JobOK(c, t, k),
         Do(c, t, k)
  PROVE  Step(c, t, k)
  <1>1. task' \in [Clients -> [Tasks -> Jobs]]
    BY DEF TaskOK, Do
  <1>2. task'[c][t] = k
    BY DEF TaskOK, Do
  <1>3. \A d \in Clients, u \in Tasks : d # c \/ u # t => task'[d][u] = task[d][u]
    BY DEF TaskOK, Do
  <1> QED
    BY <1>1, <1>2, <1>3 DEF Step, TaskOK

LEMMA StepJobs ==
  ASSUME JobsOK, NEW c \in Clients, NEW t \in Tasks, NEW k, Step(c, t, k)
  PROVE  JobsOK'
  <1> SUFFICES ASSUME NEW d \in Clients, NEW u \in Tasks PROVE JobOK(d, u, task'[d][u])
    BY DEF JobsOK, JobOK, New
  <1>1. CASE d = c /\ u = t
    BY <1>1 DEF Step
  <1>2. CASE d # c \/ u # t
    BY <1>2 DEF Step, JobsOK
  <1> QED
    BY <1>1, <1>2

LEMMA IdleJob ==
  /\ Idle \in Jobs /\ Idle.at = "idle" /\ Idle.loaded = NoSession
  /\ Idle.copy = NoSession /\ Idle.op = "idle" /\ Idle.acct = {}
  /\ \A c, t : JobOK(c, t, Idle)
  <1>1. Idle \in Jobs
    BY DEF Idle, Jobs, Maybe, Seen, SendSteps, CmdSteps, ReadSteps
  <1>2. /\ Idle.at = "idle" /\ Idle.loaded = NoSession /\ Idle.copy = NoSession
        /\ Idle.op = "idle" /\ Idle.acct = {}
    BY DEF Idle
  <1> QED
    BY <1>1, <1>2 DEF JobOK, CmdSteps, ReadSteps

LEMMA EndStep ==
  ASSUME TaskOK, NEW c \in Clients, NEW t \in Tasks, End(c, t)
  PROVE  Step(c, t, Idle)
  BY IdleJob, DoStep DEF End

\* A job that goes on at another step.
Moved(k, a) == [k EXCEPT !.at = a]

LEMMA MovedJob ==
  ASSUME NEW k \in Jobs, NEW a \in {"idle"} \cup SendSteps \cup CmdSteps \cup ReadSteps
  PROVE  /\ Moved(k, a) \in Jobs /\ Moved(k, a).at = a
         /\ Moved(k, a).op = k.op /\ Moved(k, a).loaded = k.loaded
         /\ Moved(k, a).copy = k.copy /\ Moved(k, a).acct = k.acct
         /\ Moved(k, a).seen = k.seen /\ Moved(k, a).ident = k.ident
         /\ Moved(k, a).frame = k.frame
  BY DEF Moved, Jobs

LEMMA GotoStep ==
  ASSUME TaskOK, NEW c \in Clients, NEW t \in Tasks,
         NEW a \in {"idle"} \cup SendSteps \cup CmdSteps \cup ReadSteps, Goto(c, t, a),
         JobOK(c, t, Moved(task[c][t], a))
  PROVE  Step(c, t, Moved(task[c][t], a))
  <1>1. task[c][t] \in Jobs
    BY DEF TaskOK
  <1>2. Moved(task[c][t], a) \in Jobs
    BY <1>1, MovedJob
  <1>3. Do(c, t, Moved(task[c][t], a))
    BY DEF Goto, Do, Moved, TaskOK
  <1> QED
    BY <1>2, <1>3, DoStep

----------------------------------------------------------------------------
(* What each operation leaves its task with.                               *)

\* A job that sends, with the row it has loaded.
SendJob(c, op, a) ==
    [Idle EXCEPT !.op = op, !.loaded = row[c], !.copy = row[c], !.at = a]

LEMMA SendJobFields ==
  ASSUME RowsOK, NEW c \in Clients, NEW op \in {"start", "text", "control", "left"},
         NEW a \in {"fetch", "save", "delete"}
  PROVE  LET k == SendJob(c, op, a) IN
         /\ k \in Jobs /\ k.op = op /\ k.at = a /\ k.loaded = row[c] /\ k.copy = row[c]
         /\ k.acct = {} /\ k.frame = NoFrame /\ k.seen = NoIdent /\ k.ident = NoIdent
  <1>1. row[c] \in Maybe
    BY DEF RowsOK
  <1> QED
    BY ZenonT(30), <1>1, IdleJob DEF SendJob, Idle, Jobs, Maybe, SendSteps, CmdSteps, Seen

LEMMA BeginStep ==
  ASSUME Types, NEW c \in Clients, NEW t \in Tasks,
         NEW op \in {"start", "text", "control"}, Begin(c, t, op),
         op = "text" => row[c] # NoSession
  PROVE  \E a \in {"fetch", "save"} : Step(c, t, SendJob(c, op, a))
  <1> DEFINE a == IF row[c] = NoSession THEN "fetch" ELSE "save"
  <1>1. Do(c, t, SendJob(c, op, a))
    BY DEF Begin, SendJob
  <1>2. row[c] \in Maybe /\ RowsOK /\ TaskOK
    BY DEF Types, Shape, RowsOK
  <1>3. a \in {"fetch", "save"} /\ SendJob(c, op, a) \in Jobs
    BY <1>2, SendJobFields
  <1>4. JobOK(c, t, SendJob(c, op, a))
    BY <1>2, <1>3, SendJobFields DEF JobOK, CmdSteps, ReadSteps, Maybe
  <1> QED
    BY <1>1, <1>2, <1>3, <1>4, DoStep

LEMMA LeaveStep ==
  ASSUME Types, NEW c \in Clients, NEW linked \in BOOLEAN, LeaveChat(c, linked)
  PROVE  \E a \in {"save", "delete"} : Step(c, "cmd", SendJob(c, "left", a))
  <1> DEFINE a == IF linked /\ row[c] # NoSession THEN "save" ELSE "delete"
  <1>1. Do(c, "cmd", SendJob(c, "left", a))
    BY DEF LeaveChat, SendJob
  <1>2. row[c] \in Maybe /\ RowsOK /\ TaskOK /\ "cmd" \in Tasks
    BY DEF Types, Shape, RowsOK, Tasks
  <1>3. a \in {"save", "delete"} /\ SendJob(c, "left", a) \in Jobs
    BY <1>2, SendJobFields
  <1>4. JobOK(c, "cmd", SendJob(c, "left", a))
    BY <1>2, <1>3, SendJobFields DEF JobOK, CmdSteps, ReadSteps, Maybe
  <1> QED
    BY <1>1, <1>2, <1>3, <1>4, DoStep

\* A bundle was accepted.
Bundled(c, t, e, n) ==
    [task[c][t] EXCEPT !.at = "pin", !.seen = pin[c], !.ident = e,
                       !.copy = Outbound(<<Peer(c), n>>, e)]

LEMMA BundledFields ==
  ASSUME Types, NEW c \in Clients, NEW t \in Tasks, NEW e \in Idents, NEW n \in Nat,
         At(c, t, "fetch"), pin[c] \in {NoIdent, e}
  PROVE  LET k == Bundled(c, t, e, n) IN
         /\ k \in Jobs /\ JobOK(c, t, k)
         /\ k.at = "pin" /\ k.loaded = NoSession /\ k.acct = task[c][t].acct
         /\ k.ident = e /\ k.op = task[c][t].op /\ k.seen = pin[c]
         /\ k.copy.key = <<Peer(c), n>> /\ k.copy.ident = e
         /\ k.copy = Outbound(<<Peer(c), n>>, e)
         /\ k.frame = task[c][t].frame
  <1> DEFINE k == Bundled(c, t, e, n)
             o == Outbound(<<Peer(c), n>>, e)
  <1>1. task[c][t] \in Jobs /\ JobOK(c, t, task[c][t]) /\ task[c][t].at = "fetch"
    BY DEF Types, Shape, TaskOK, JobsOK, At
  <1>2. o \in Sessions /\ New(c, o) /\ o.key = <<Peer(c), n>> /\ o.ident = e
    BY PeerFacts DEF Outbound, Sessions, New
  <1>3. pin[c] \in Seen
    BY DEF Types, Shape, RowsOK
  <1>4. /\ k.at = "pin" /\ k.loaded = task[c][t].loaded /\ k.acct = task[c][t].acct
        /\ k.ident = e /\ k.op = task[c][t].op /\ k.copy = o /\ k.seen = pin[c]
        /\ k.frame = task[c][t].frame
    BY <1>1 DEF Bundled, Jobs
  <1>5. k \in Jobs
    BY <1>1, <1>2, <1>3 DEF Bundled, Jobs, Maybe, SendSteps, Seen
  <1>6. task[c][t].loaded = NoSession /\ task[c][t].op \in {"start", "control"}
    BY <1>1 DEF JobOK
  <1>7. JobOK(c, t, k)
    BY <1>2, <1>4, <1>6 DEF JobOK, CmdSteps, ReadSteps
  <1> QED
    BY <1>2, <1>4, <1>5, <1>6, <1>7

\* An answer under another name was accepted.
Strayed(c, t, e) ==
    [task[c][t] EXCEPT !.at = "save", !.copy = Outbound(<<Stranger, faults + 1>>, e)]

LEMMA StrayedFields ==
  ASSUME Types, NEW c \in Clients, NEW t \in Tasks, NEW e \in Idents,
         At(c, t, "fetch"), e # Real
  PROVE  LET k == Strayed(c, t, e) IN
         /\ k \in Jobs /\ JobOK(c, t, k)
         /\ k.at = "save" /\ k.loaded = NoSession /\ k.acct = task[c][t].acct
         /\ k.op = task[c][t].op /\ k.frame = task[c][t].frame
         /\ k.copy = Outbound(<<Stranger, faults + 1>>, e)
         /\ k.copy.key = <<Stranger, faults + 1>> /\ k.copy.ident = e
         /\ k.copy \in Sessions /\ New(c, k.copy)
  <1> DEFINE k == Strayed(c, t, e)
             o == Outbound(<<Stranger, faults + 1>>, e)
  <1>1. /\ task[c][t] \in Jobs /\ JobOK(c, t, task[c][t]) /\ task[c][t].at = "fetch"
        /\ faults + 1 \in Nat
    BY OlmConstants DEF Types, Shape, TaskOK, HistOK, JobsOK, At
  <1>2. o \in Sessions /\ New(c, o) /\ o.key = <<Stranger, faults + 1>> /\ o.ident = e
    BY <1>1 DEF Outbound, Sessions, New
  <1>4. /\ k.at = "save" /\ k.loaded = task[c][t].loaded /\ k.acct = task[c][t].acct
        /\ k.op = task[c][t].op /\ k.copy = o /\ k.frame = task[c][t].frame
    BY <1>1 DEF Strayed, Jobs
  <1>5. k \in Jobs
    BY <1>1, <1>2 DEF Strayed, Jobs, Maybe, SendSteps
  <1>6. task[c][t].loaded = NoSession /\ task[c][t].op \in {"start", "control"}
    BY <1>1 DEF JobOK
  <1>7. JobOK(c, t, k)
    BY <1>2, <1>4, <1>6 DEF JobOK, CmdSteps, ReadSteps
  <1> QED
    BY <1>2, <1>4, <1>5, <1>6, <1>7

LEMMA StrayStep ==
  ASSUME Types, NEW c \in Clients, NEW t \in Tasks, NEW e \in Idents, FetchStray(c, t, e)
  PROVE  /\ At(c, t, "fetch") /\ e # Real /\ Step(c, t, Strayed(c, t, e))
         /\ Fault /\ UNCHANGED <<vaultRows, made, wire, got, history>>
         /\ pool' \in [Clients -> SUBSET Nat] /\ \A d \in Clients : pool'[d] \subseteq pool[d]
  <1>1. TaskOK /\ At(c, t, "fetch") /\ e # Real /\ Do(c, t, Strayed(c, t, e))
    BY DEF Types, Shape, FetchStray, Strayed
  <1>2. Fault /\ UNCHANGED <<vaultRows, made, wire, got, history>>
    BY DEF FetchStray
  <1>3. PICK K \in {{}, Given(c)} : pool' = [pool EXCEPT ![Peer(c)] = @ \ K]
    BY DEF FetchStray
  <1>4. pool' \in [Clients -> SUBSET Nat] /\ \A d \in Clients : pool'[d] \subseteq pool[d]
    BY <1>3 DEF Types, Shape, RowsOK
  <1> QED
    BY <1>1, <1>2, <1>4, StrayedFields, DoStep

\* A request that fails may still have been given a key.
LEMMA FailsPool ==
  ASSUME Types, NEW c \in Clients, NEW t \in Tasks, FetchFails(c, t)
  PROVE  pool' \in [Clients -> SUBSET Nat] /\ \A d \in Clients : pool'[d] \subseteq pool[d]
  <1>1. PICK K \in {{}, Given(c)} : pool' = [pool EXCEPT ![Peer(c)] = @ \ K]
    BY DEF FetchFails
  <1> QED
    BY <1>1 DEF Types, Shape, RowsOK

LEMMA FetchStep ==
  ASSUME Types, NEW c \in Clients, NEW t \in Tasks, NEW e \in Idents, Fetch(c, t, e)
  PROVE  \/ Step(c, t, Idle)
         \/ /\ pin[c] \in {NoIdent, e}
            /\ \E n \in Given(c) : n \in Nat /\ Step(c, t, Bundled(c, t, e, n))
  <1>1. TaskOK /\ pool[Peer(c)] \subseteq Nat /\ At(c, t, "fetch")
    BY PeerFacts DEF Types, Shape, RowsOK, Fetch
  <1>2. CASE Given(c) = {} \/ pin[c] \notin {NoIdent, e}
    BY <1>1, <1>2, EndStep DEF Fetch
  <1>3. CASE ~(Given(c) = {} \/ pin[c] \notin {NoIdent, e})
    <2>1. PICK n \in Given(c) : Do(c, t, Bundled(c, t, e, n))
      BY <1>3 DEF Fetch, Bundled
    <2>2. n \in Nat
      BY <1>1 DEF Given
    <2> QED
      BY <1>1, <1>3, <2>1, <2>2, BundledFields, DoStep
  <1> QED
    BY <1>2, <1>3

LEMMA PinStep ==
  ASSUME Types, NEW c \in Clients, NEW t \in Tasks, PinContact(c, t)
  PROVE  \/ At(c, t, "pin") /\ Step(c, t, Moved(task[c][t], "save"))
         \/ At(c, t, "rpin") /\ t = "proc" /\ Step(c, t, Moved(task[c][t], "inbound"))
  <1>1. TaskOK /\ task[c][t] \in Jobs /\ JobOK(c, t, task[c][t])
    BY DEF Types, Shape, TaskOK, JobsOK
  <1>2. CASE At(c, t, "pin")
    <2>1. Goto(c, t, "save") /\ task[c][t].at = "pin"
      BY <1>2 DEF PinContact, At
    <2>2. JobOK(c, t, Moved(task[c][t], "save"))
      BY <1>1, <2>1, MovedJob DEF JobOK, New, CmdSteps, ReadSteps, SendSteps
    <2> QED
      BY <1>1, <1>2, <2>1, <2>2, GotoStep DEF SendSteps
  <1>3. CASE At(c, t, "rpin")
    <2>1. Goto(c, t, "inbound") /\ task[c][t].at = "rpin"
      BY <1>3 DEF PinContact, At
    <2>2. JobOK(c, t, Moved(task[c][t], "inbound")) /\ t = "proc"
      BY <1>1, <2>1, MovedJob DEF JobOK, CmdSteps, ReadSteps
    <2> QED
      BY <1>1, <1>3, <2>1, <2>2, GotoStep DEF ReadSteps
  <1> QED
    BY <1>2, <1>3 DEF PinContact, At

LEMMA SaveStep ==
  ASSUME Types, NEW c \in Clients, NEW t \in Tasks, SaveSend(c, t)
  PROVE  IF task[c][t].op = "left"
         THEN t = "cmd" /\ Step(c, t, Moved(task[c][t], "delete"))
         ELSE Step(c, t, Idle)
  <1>1. /\ TaskOK /\ task[c][t] \in Jobs /\ JobOK(c, t, task[c][t])
        /\ task[c][t].at = "save"
    BY DEF Types, Shape, TaskOK, JobsOK, SaveSend, At
  <1>2. CASE task[c][t].op = "left"
    <2>1. t = "cmd" /\ Goto(c, t, "delete")
      BY <1>1, <1>2 DEF JobOK, SaveSend
    <2>2. JobOK(c, t, Moved(task[c][t], "delete"))
      BY <1>1, <2>1, MovedJob DEF JobOK, CmdSteps, ReadSteps
    <2> QED
      BY <1>1, <1>2, <2>1, <2>2, GotoStep DEF CmdSteps
  <1>3. CASE task[c][t].op # "left"
    BY <1>1, <1>3, EndStep DEF SaveSend
  <1> QED
    BY <1>2, <1>3

\* connect, before it talks to the relay.
RenewJob(c) == [Idle EXCEPT !.op = "renew", !.at = "renew", !.acct = otks[c]]

LEMMA RenewStep ==
  ASSUME Types, NEW c \in Clients, Replenish(c)
  PROVE  /\ Step(c, "cmd", RenewJob(c))
         /\ RenewJob(c).at = "renew" /\ RenewJob(c).acct = otks[c]
         /\ RenewJob(c).loaded = NoSession /\ RenewJob(c).copy = NoSession
  <1>1. TaskOK /\ "cmd" \in Tasks /\ otks[c] \subseteq Nat /\ Do(c, "cmd", RenewJob(c))
    BY DEF Types, Shape, Tasks, RowsOK, Replenish, RenewJob
  <1>2. /\ RenewJob(c).at = "renew" /\ RenewJob(c).acct = otks[c]
        /\ RenewJob(c).loaded = NoSession /\ RenewJob(c).copy = NoSession
        /\ RenewJob(c).op = "renew"
    BY DEF RenewJob, Idle
  <1>3. RenewJob(c) \in Jobs
    BY <1>1, IdleJob DEF RenewJob, Jobs, CmdSteps
  <1>4. JobOK(c, "cmd", RenewJob(c))
    BY <1>2 DEF JobOK, CmdSteps, ReadSteps
  <1> QED
    BY <1>1, <1>2, <1>3, <1>4, DoStep

LEMMA KeysStep ==
  ASSUME Types, NEW c \in Clients, SaveKeys(c)
  PROVE  Step(c, "cmd", Moved(task[c]["cmd"], "publish"))
  <1>1. /\ TaskOK /\ "cmd" \in Tasks /\ task[c]["cmd"] \in Jobs
        /\ JobOK(c, "cmd", task[c]["cmd"])
        /\ task[c]["cmd"].at = "renew" /\ Goto(c, "cmd", "publish")
    BY DEF Types, Shape, Tasks, TaskOK, JobsOK, SaveKeys, At
  <1>2. JobOK(c, "cmd", Moved(task[c]["cmd"], "publish"))
    BY <1>1, MovedJob DEF JobOK, CmdSteps, ReadSteps
  <1> QED
    BY <1>1, <1>2, GotoStep DEF CmdSteps

\* A frame was taken off the wire: read by the row's session, or to be read by
\* a new one.
ReadJob(c, f) ==
    [Idle EXCEPT !.op = "receive", !.frame = f, !.loaded = row[c], !.at = "rsave",
                 !.copy = [row[c] EXCEPT !.rcv = @ \cup {f.idx}]]
FirstJob(c, f, a) ==
    [Idle EXCEPT !.op = "receive", !.frame = f, !.loaded = row[c], !.at = a,
                 !.ident = pin[c]]

LEMMA ReadJobFields ==
  ASSUME Types, NEW c \in Clients, NEW f \in Frames, Reads(row[c], f)
  PROVE  LET k == ReadJob(c, f) IN
         /\ k \in Jobs /\ JobOK(c, "proc", k)
         /\ k.at = "rsave" /\ k.frame = f /\ k.loaded = row[c] /\ k.acct = {}
         /\ k.copy = [row[c] EXCEPT !.rcv = @ \cup {f.idx}]
  <1> DEFINE k == ReadJob(c, f)
             s == [row[c] EXCEPT !.rcv = @ \cup {f.idx}]
  <1>1. row[c] \in Sessions
    BY DEF Types, Shape, RowsOK, Maybe, Reads
  <1>2. s \in Sessions
    BY <1>1 DEF Sessions, Frames
  <1>3. /\ k.at = "rsave" /\ k.frame = f /\ k.loaded = row[c] /\ k.acct = {} /\ k.copy = s
        /\ k.op = "receive"
    BY DEF ReadJob, Idle
  <1>4. k \in Jobs
    BY <1>1, <1>2, IdleJob DEF ReadJob, Jobs, Maybe, ReadSteps
  <1>5. JobOK(c, "proc", k)
    BY <1>1, <1>2, <1>3 DEF JobOK, CmdSteps, ReadSteps, Reads
  <1> QED
    BY <1>3, <1>4, <1>5

LEMMA FirstJobFields ==
  ASSUME Types, NEW c \in Clients, NEW f \in Frames, NEW a \in {"rfetch", "inbound"}
  PROVE  LET k == FirstJob(c, f, a) IN
         /\ k \in Jobs /\ JobOK(c, "proc", k)
         /\ k.at = a /\ k.frame = f /\ k.loaded = row[c] /\ k.copy = NoSession
         /\ k.acct = {} /\ k.ident = pin[c]
  <1> DEFINE k == FirstJob(c, f, a)
  <1>1. row[c] \in Maybe /\ pin[c] \in Seen
    BY DEF Types, Shape, RowsOK
  <1>3. /\ k.at = a /\ k.frame = f /\ k.loaded = row[c] /\ k.acct = {}
        /\ k.copy = NoSession /\ k.op = "receive" /\ k.ident = pin[c]
    BY DEF FirstJob, Idle
  <1>4. k \in Jobs
    BY <1>1, IdleJob DEF FirstJob, Jobs, ReadSteps
  <1>5. JobOK(c, "proc", k)
    BY <1>3 DEF JobOK, CmdSteps, ReadSteps
  <1> QED
    BY <1>3, <1>4, <1>5

LEMMA ReceiveStep ==
  ASSUME Types, NEW c \in Clients, Receive(c)
  PROVE  LET f == Head(wire[c]) IN
         /\ f \in Frames /\ wire[c] \in Seq(Frames) /\ wire[c] # <<>>
         /\ task[c]["proc"] = Idle
         /\ \/ /\ Reads(row[c], f) /\ UNCHANGED refused
               /\ Step(c, "proc", ReadJob(c, f))
            \/ /\ ~Reads(row[c], f) /\ row[c] # NoSession /\ ~f.pre
               /\ Refuse(c, f) /\ UNCHANGED task
            \/ /\ ~Reads(row[c], f) /\ (row[c] = NoSession \/ f.pre) /\ UNCHANGED refused
               /\ \E a \in {"rfetch", "inbound"} :
                     /\ a = "rfetch" <=> pin[c] = NoIdent
                     /\ Step(c, "proc", FirstJob(c, f, a))
  <1> DEFINE f == Head(wire[c])
             a == IF pin[c] = NoIdent THEN "rfetch" ELSE "inbound"
  <1>1. /\ f \in Frames /\ wire[c] \in Seq(Frames) /\ wire[c] # <<>>
        /\ task[c]["proc"] = Idle /\ TaskOK /\ "proc" \in Tasks
    BY HeadTailProperties DEF Receive, Types, Shape, WireOK, Tasks
  <1>2. CASE Reads(row[c], f)
    <2>1. Do(c, "proc", ReadJob(c, f)) /\ UNCHANGED refused
      BY <1>2 DEF Receive, ReadJob, Idle
    <2> QED
      BY <1>1, <1>2, <2>1, ReadJobFields, DoStep
  <1>3. CASE ~Reads(row[c], f) /\ row[c] # NoSession /\ ~f.pre
    BY <1>1, <1>3 DEF Receive
  <1>4. CASE ~Reads(row[c], f) /\ (row[c] = NoSession \/ f.pre)
    <2>1. Do(c, "proc", FirstJob(c, f, a)) /\ UNCHANGED refused
      BY <1>4 DEF Receive, FirstJob, Idle
    <2>2. a \in {"rfetch", "inbound"} /\ (a = "rfetch" <=> pin[c] = NoIdent)
      OBVIOUS
    <2> HIDE DEF a
    <2> QED
      BY <1>1, <1>4, <2>1, <2>2, FirstJobFields, DoStep
  <1> QED
    BY <1>1, <1>2, <1>3, <1>4

\* The sender's bundle was accepted.
Greeted(c, e) == [task[c]["proc"] EXCEPT !.at = "rpin", !.seen = pin[c], !.ident = e]

LEMMA SenderStep ==
  ASSUME Types, NEW c \in Clients, NEW e \in Idents, FetchSender(c, e)
  PROVE  LET k == task[c]["proc"] IN
         /\ k.at = "rfetch" /\ k.frame \in Frames
         /\ \/ /\ pin[c] \notin {NoIdent, e}
               /\ Step(c, "proc", Idle) /\ Refuse(c, k.frame)
            \/ /\ pin[c] \in {NoIdent, e} /\ UNCHANGED refused
               /\ Step(c, "proc", Greeted(c, e))
               /\ Greeted(c, e).at = "rpin" /\ Greeted(c, e).frame = k.frame
               /\ Greeted(c, e).loaded = k.loaded /\ Greeted(c, e).copy = k.copy
               /\ Greeted(c, e).acct = k.acct /\ Greeted(c, e).ident = e
  <1> DEFINE k == task[c]["proc"]
  <1>1. /\ TaskOK /\ "proc" \in Tasks /\ k \in Jobs /\ JobOK(c, "proc", k) /\ k.at = "rfetch"
        /\ pin[c] \in Seen
    BY DEF Types, Shape, RowsOK, Tasks, TaskOK, JobsOK, FetchSender, At
  <1>2. k.frame \in Frames
    BY <1>1 DEF JobOK, ReadSteps
  <1>3. CASE pin[c] \notin {NoIdent, e}
    BY <1>1, <1>2, <1>3, EndStep DEF FetchSender
  <1>4. CASE pin[c] \in {NoIdent, e}
    <2>1. Do(c, "proc", Greeted(c, e)) /\ UNCHANGED refused
      BY <1>4 DEF FetchSender, Greeted
    <2>2. /\ Greeted(c, e).at = "rpin" /\ Greeted(c, e).frame = k.frame
          /\ Greeted(c, e).loaded = k.loaded /\ Greeted(c, e).copy = k.copy
          /\ Greeted(c, e).acct = k.acct /\ Greeted(c, e).ident = e
          /\ Greeted(c, e).seen = pin[c] /\ Greeted(c, e).op = k.op
      BY <1>1 DEF Greeted, Jobs
    <2>3. Greeted(c, e) \in Jobs
      BY <1>1 DEF Greeted, Jobs, ReadSteps, Seen
    <2>4. JobOK(c, "proc", Greeted(c, e))
      BY <1>1, <1>2, <1>4, <2>2 DEF JobOK, CmdSteps, ReadSteps
    <2> QED
      BY <1>1, <1>2, <1>4, <2>1, <2>2, <2>3, <2>4, DoStep
  <1> QED
    BY <1>3, <1>4

\* create_inbound worked, with the account as it was loaded.
Opened(c) == [task[c]["proc"] EXCEPT !.at = "asave", !.acct = otks[c]]

LEMMA InboundStep ==
  ASSUME Types, NEW c \in Clients, CreateInbound(c)
  PROVE  LET k == task[c]["proc"] IN
         /\ k.at = "inbound" /\ k.frame \in Frames
         /\ \/ /\ ~(/\ k.frame.pre /\ k.ident = Real /\ k.frame.ident = Real
                    /\ k.frame.key[2] \in otks[c])
               /\ Step(c, "proc", Idle) /\ Refuse(c, k.frame)
            \/ /\ UNCHANGED refused /\ Step(c, "proc", Opened(c))
               /\ Opened(c).at = "asave" /\ Opened(c).frame = k.frame
               /\ Opened(c).loaded = k.loaded /\ Opened(c).copy = k.copy
               /\ Opened(c).acct = otks[c] /\ Opened(c).ident = k.ident
               /\ k.frame.key[2] \in otks[c]
  <1> DEFINE k == task[c]["proc"]
             ok == /\ k.frame.pre /\ k.ident = Real /\ k.frame.ident = Real
                   /\ k.frame.key[2] \in otks[c]
  <1>1. /\ TaskOK /\ "proc" \in Tasks /\ k \in Jobs /\ JobOK(c, "proc", k) /\ k.at = "inbound"
        /\ otks[c] \subseteq Nat
    BY DEF Types, Shape, RowsOK, Tasks, TaskOK, JobsOK, CreateInbound, At
  <1>2. k.frame \in Frames
    BY <1>1 DEF JobOK, ReadSteps
  <1>3. CASE ~ok
    BY <1>1, <1>2, <1>3, EndStep DEF CreateInbound
  <1>4. CASE ok
    <2>1. Do(c, "proc", Opened(c)) /\ UNCHANGED refused
      BY <1>4 DEF CreateInbound, Opened
    <2>2. /\ Opened(c).at = "asave" /\ Opened(c).frame = k.frame
          /\ Opened(c).loaded = k.loaded /\ Opened(c).copy = k.copy
          /\ Opened(c).acct = otks[c] /\ Opened(c).ident = k.ident
          /\ Opened(c).op = k.op
      BY <1>1 DEF Opened, Jobs
    <2>3. Opened(c) \in Jobs
      BY <1>1 DEF Opened, Jobs, ReadSteps
    <2>4. JobOK(c, "proc", Opened(c))
      BY <1>1, <1>2, <1>4, <2>2 DEF JobOK, CmdSteps, ReadSteps
    <2> QED
      BY <1>1, <1>2, <1>4, <2>1, <2>2, <2>3, <2>4, DoStep
  <1> QED
    BY <1>3, <1>4

LEMMA AccountStep ==
  ASSUME Types, NEW c \in Clients, SaveAccount(c)
  PROVE  /\ task[c]["proc"].at = "asave" /\ task[c]["proc"].frame \in Frames
         /\ Step(c, "proc", Moved(task[c]["proc"], "isave"))
  <1>1. /\ TaskOK /\ "proc" \in Tasks /\ task[c]["proc"] \in Jobs
        /\ JobOK(c, "proc", task[c]["proc"])
        /\ task[c]["proc"].at = "asave" /\ Goto(c, "proc", "isave")
    BY DEF Types, Shape, Tasks, TaskOK, JobsOK, SaveAccount, At
  <1>2. JobOK(c, "proc", Moved(task[c]["proc"], "isave"))
    BY <1>1, MovedJob DEF JobOK, CmdSteps, ReadSteps
  <1> QED
    BY <1>1, <1>2, GotoStep DEF ReadSteps, JobOK

\* The operations that end their task.
LEMMA EndSteps ==
  ASSUME Types, NEW c \in Clients
  PROVE  /\ DeleteChat(c) \/ PublishKeys(c) => Step(c, "cmd", Idle)
         /\ Deliver(c) => Step(c, "proc", Idle)
         /\ \A t \in Tasks : FetchFails(c, t) => Step(c, t, Idle)
  BY EndStep DEF Types, Shape, Tasks, DeleteChat, PublishKeys, Deliver, FetchFails

LEMMA CrashTasks ==
  ASSUME Types, NEW c \in Clients, Crash(c)
  PROVE  /\ TaskOK' /\ JobsOK' /\ \A t \in Tasks : task'[c][t] = Idle
         /\ \A d \in Clients, t \in Tasks : d # c => task'[d][t] = task[d][t]
  <1>1. TaskOK' /\ \A t \in Tasks : task'[c][t] = Idle
    BY IdleJob DEF Types, Shape, TaskOK, Crash
  <1>2. \A d \in Clients, t \in Tasks : d # c => task'[d][t] = task[d][t]
    BY DEF Types, Shape, TaskOK, Crash
  <1>3. \A d \in Clients, t \in Tasks : JobOK(d, t, task'[d][t])
    BY <1>1, <1>2, IdleJob DEF Types, JobsOK
  <1> QED
    BY <1>1, <1>2, <1>3 DEF JobsOK, JobOK, New

----------------------------------------------------------------------------
(* The operations, by what they are.                                       *)

\* A handler that sends begins.
Sends(c) ==
    \/ \E t \in Tasks, op \in {"start", "text", "control"} :
          Begin(c, t, op) /\ (op = "text" => row[c] # NoSession)
    \/ \E linked \in BOOLEAN : LeaveChat(c, linked)

\* start_dm with a session.
OpensChat(c) == row[c] # NoSession /\ StartDm(c)

Operation(c) ==
    \/ Sends(c) \/ OpensChat(c) \/ DeleteChat(c)
    \/ \E t \in Tasks : FetchFails(c, t) \/ PinContact(c, t) \/ SaveSend(c, t)
    \/ \E t \in Tasks, e \in Idents : Fetch(c, t, e) \/ FetchStray(c, t, e)
    \/ Replenish(c) \/ SaveKeys(c) \/ PublishKeys(c)
    \/ Receive(c) \/ CreateInbound(c) \/ SaveAccount(c) \/ Deliver(c)
    \/ \E e \in Idents : FetchSender(c, e)
    \/ Crash(c) \/ Redeliver(c)

LEMMA NextOperations ==
  ASSUME [Next]_vars
  PROVE  UNCHANGED vars \/ \E c \in Clients : Operation(c)
  <1>1. ASSUME NEW c \in Clients, StartDm(c) PROVE Sends(c) \/ OpensChat(c)
    BY <1>1 DEF StartDm, Sends, OpensChat, Tasks
  <1>2. ASSUME NEW c \in Clients, Send(c) \/ JoinGroup(c) \/ DenyJoin(c) PROVE Sends(c)
    BY <1>2 DEF Send, JoinGroup, DenyJoin, Sends, Tasks
  <1>3. ASSUME NEW c \in Clients, NEW t \in Tasks, Share(c, t) PROVE Sends(c)
    BY <1>3 DEF Share, Sends
  <1>4. ASSUME NEW c \in Clients, NEW linked \in BOOLEAN, LeaveChat(c, linked) PROVE Sends(c)
    BY <1>4 DEF Sends
  <1> QED
    BY <1>1, <1>2, <1>3, <1>4 DEF Next, Operation

LEMMA NextCases ==
  ASSUME [Next]_vars
  PROVE  \/ UNCHANGED vars
         \/ \E c \in Clients :
               \/ Sends(c) \/ OpensChat(c) \/ DeleteChat(c)
               \/ \E t \in Tasks : FetchFails(c, t) \/ PinContact(c, t) \/ SaveSend(c, t)
               \/ \E t \in Tasks, e \in Idents : Fetch(c, t, e) \/ FetchStray(c, t, e)
               \/ Replenish(c) \/ SaveKeys(c) \/ PublishKeys(c)
               \/ Receive(c) \/ CreateInbound(c) \/ SaveAccount(c) \/ Deliver(c)
               \/ \E e \in Idents : FetchSender(c, e)
               \/ Crash(c) \/ Redeliver(c)
  BY NextOperations DEF Operation

\* What the beginning of a handler changes.
LEMMA SendsStep ==
  ASSUME Types, NEW c \in Clients, Sends(c)
  PROVE  /\ UNCHANGED <<vaultRows, relay, got, history, faults, sent>>
         /\ ops' \in 0..MaxOps
         /\ \E t \in Tasks, op \in {"start", "text", "control", "left"},
               a \in {"fetch", "save", "delete"} :
               task[c][t] = Idle /\ Step(c, t, SendJob(c, op, a))
  <1>1. ASSUME NEW t \in Tasks, NEW op \in {"start", "text", "control"}, Begin(c, t, op),
               op = "text" => row[c] # NoSession
        PROVE  /\ UNCHANGED <<vaultRows, relay, got, history, faults, sent>>
               /\ ops' \in 0..MaxOps /\ task[c][t] = Idle
               /\ \E a \in {"fetch", "save"} : Step(c, t, SendJob(c, op, a))
    <2>1. /\ UNCHANGED <<vaultRows, relay, got, history, faults, sent>>
          /\ ops' \in 0..MaxOps /\ task[c][t] = Idle
      BY <1>1, OlmConstants DEF Begin, Order, Types, Shape, HistOK
    <2> QED
      BY <1>1, <2>1, BeginStep
  <1>2. ASSUME NEW linked \in BOOLEAN, LeaveChat(c, linked)
        PROVE  /\ UNCHANGED <<vaultRows, relay, got, history, faults, sent>>
               /\ ops' \in 0..MaxOps /\ task[c]["cmd"] = Idle
               /\ \E a \in {"save", "delete"} : Step(c, "cmd", SendJob(c, "left", a))
    <2>1. /\ UNCHANGED <<vaultRows, relay, got, history, faults, sent>>
          /\ ops' \in 0..MaxOps /\ task[c]["cmd"] = Idle
      BY <1>2, OlmConstants DEF LeaveChat, Order, Types, Shape, HistOK
    <2> QED
      BY <1>2, <2>1, LeaveStep
  <1> QED
    BY <1>1, <1>2 DEF Sends, Tasks

LEMMA FaultCounts ==
  ASSUME HistOK, Fault
  PROVE  faults' = faults + 1 /\ faults' \in 0..MaxFaults /\ UNCHANGED <<ops, sent>>
  BY OlmConstants DEF HistOK, Fault

LEMMA AnswerCounts ==
  ASSUME HistOK, NEW e \in Idents, Answer(e)
  PROVE  /\ faults' \in 0..MaxFaults /\ UNCHANGED <<ops, sent>>
         /\ faults' = IF e = Real THEN faults ELSE faults + 1
  BY FaultCounts DEF HistOK, Answer, count

\* Faults are never taken back.
FaultsGrown == faults \in Nat /\ faults' \in Nat /\ faults <= faults'

LEMMA FaultsGrow ==
  ASSUME Types, NEW c \in Clients, Operation(c)
  PROVE  FaultsGrown
  <1>1. faults \in Nat /\ HistOK
    BY OlmConstants DEF Types, Shape, HistOK
  <1>2. Fault \/ UNCHANGED faults => FaultsGrown
    BY <1>1, OlmConstants DEF FaultsGrown, Fault
  <1>3. CASE Sends(c)
    BY <1>2, <1>3, SendsStep
  <1>4. CASE \/ OpensChat(c) \/ DeleteChat(c) \/ Replenish(c) \/ SaveKeys(c) \/ PublishKeys(c)
             \/ Receive(c) \/ CreateInbound(c) \/ SaveAccount(c) \/ Deliver(c)
             \/ \E t \in Tasks : PinContact(c, t) \/ SaveSend(c, t)
    BY <1>2, <1>4 DEF OpensChat, StartDm, Begin, Order, DeleteChat, Replenish, SaveKeys,
       PublishKeys, Receive, CreateInbound, SaveAccount, Deliver, PinContact, SaveSend, count
  <1>5. CASE \/ \E t \in Tasks : FetchFails(c, t)
             \/ \E t \in Tasks, e \in Idents : FetchStray(c, t, e)
             \/ Crash(c) \/ Redeliver(c)
    BY <1>2, <1>5 DEF FetchFails, FetchStray, Crash, Redeliver
  <1>6. CASE \/ \E t \in Tasks, e \in Idents : Fetch(c, t, e)
             \/ \E e \in Idents : FetchSender(c, e)
    BY <1>2, <1>6 DEF Fetch, FetchSender, Answer, count
  <1> QED
    BY <1>3, <1>4, <1>5, <1>6 DEF Operation

LEMMA OvertakesMore ==
  ASSUME HistOK, NEW c \in Clients, NEW b, Overtakes(c, b)
  PROVE  /\ overtaken' \subseteq Clients /\ overtaken \subseteq overtaken'
         /\ UNCHANGED raced
         /\ c \notin overtaken' => ~b
         /\ \A d : d # c => (d \in overtaken' <=> d \in overtaken)
  BY DEF Overtakes, HistOK

LEMMA FrameMade ==
  ASSUME Types, NEW s \in Sessions, NEW op \in {"text", "control", "left"}
  PROVE  /\ Frame(s, op) \in Frames
         /\ Frame(s, op).key = s.key /\ Frame(s, op).ident = s.ident
         /\ Frame(s, op).idx = s.snd /\ Frame(s, op).pre = (s.rcv = {})
         /\ Frame(s, op).no = sent + 1 /\ Frame(s, op).op = op
  BY DEF Types, Shape, HistOK, Frame, Frames, Keys, Sessions

LEMMA AdvancedFields ==
  ASSUME NEW s \in Sessions
  PROVE  /\ Advanced(s) \in Sessions /\ Advanced(s).key = s.key
         /\ Advanced(s).ident = s.ident /\ Advanced(s).snd = s.snd + 1
         /\ Advanced(s).rcv = s.rcv
  BY DEF Advanced, Sessions

LEMMA InboundFields ==
  ASSUME NEW f \in Frames
  PROVE  /\ Inbound(f) \in Sessions /\ Inbound(f).key = f.key
         /\ Inbound(f).ident = f.ident /\ Inbound(f).snd = 0
         /\ Inbound(f).rcv = {f.idx}
  BY DEF Inbound, Sessions, Frames, Keys

LEMMA InitTypes == Init => Types
  <1> SUFFICES ASSUME Init PROVE Types
    OBVIOUS
  <1>1. RowsOK
    BY OlmConstants DEF Init, RowsOK, Maybe, Seen
  <1>2. WireOK
    BY EmptySeq DEF Init, WireOK
  <1>3. TaskOK /\ \A c \in Clients, t \in Tasks : task[c][t] = Idle
    BY IdleJob DEF Init, TaskOK
  <1>4. HistOK
    <2>1. <<>> \in Seq(Nat)
      BY EmptySeq
    <2> QED
      BY <2>1, OlmConstants DEF Init, HistOK
  <1>5. JobsOK
    BY <1>3, IdleJob DEF JobsOK
  <1> QED
    BY <1>1, <1>2, <1>3, <1>4, <1>5 DEF Types, Shape

LEMMA StepTypes ==
  ASSUME Types, NEW c \in Clients, NEW t \in Tasks, NEW k, Step(c, t, k), RowsOK', WireOK',
         HistOK'
  PROVE  Types'
  BY StepJobs DEF Types, Shape, Step

LEMMA RowsStill ==
  ASSUME RowsOK, UNCHANGED <<vaultRows, pool, made>> PROVE RowsOK'
  BY DEF RowsOK, vaultRows

LEMMA HistStill ==
  ASSUME HistOK, UNCHANGED <<got, history, sent>>, ops' \in 0..MaxOps,
         faults' \in 0..MaxFaults
  PROVE  HistOK'
  BY DEF HistOK, got, history

LEMMA TasksStill ==
  ASSUME TaskOK, JobsOK, UNCHANGED task PROVE TaskOK' /\ JobsOK'
  BY DEF TaskOK, JobsOK, JobOK, New

LEMMA WireStill == ASSUME WireOK, UNCHANGED wire PROVE WireOK'
  BY DEF WireOK

LEMMA RefusedTypes ==
  ASSUME HistOK, NEW c \in Clients, NEW f \in Frames, Refuse(c, f)
  PROVE  /\ refused' \in [Clients -> SUBSET Nat]
         /\ \A d \in Clients : refused'[d] = IF d = c THEN refused[d] \cup {f.no} ELSE refused[d]
  <1>1. f.no \in Nat
    BY DEF Frames
  <1> QED
    BY <1>1 DEF HistOK, Refuse

\* Sending.
LEMMA SendTypes ==
  ASSUME Types, NEW c \in Clients,
         \/ Sends(c) \/ OpensChat(c) \/ DeleteChat(c)
         \/ \E t \in Tasks : FetchFails(c, t) \/ PinContact(c, t)
         \/ \E t \in Tasks, e \in Idents : Fetch(c, t, e) \/ FetchStray(c, t, e)
  PROVE  Types'
  <1>0. RowsOK /\ WireOK /\ TaskOK /\ HistOK /\ JobsOK
    BY DEF Types, Shape
  <1>1. CASE Sends(c)
    <2>1. RowsOK' /\ WireOK' /\ HistOK'
      <3>1. /\ UNCHANGED <<vaultRows, relay, got, history, faults, sent>>
            /\ ops' \in 0..MaxOps
        BY <1>1, SendsStep
      <3>2. faults' \in 0..MaxFaults
        BY <1>0, <3>1 DEF HistOK
      <3> QED
        BY <1>0, <3>1, <3>2, RowsStill, WireStill, HistStill DEF relay
    <2> QED
      BY <1>1, <2>1, SendsStep, StepTypes
  <1>2. CASE OpensChat(c)
    <2>1. /\ UNCHANGED <<row, otks, pin, relay, task, got, history>>
          /\ UNCHANGED <<faults, sent>> /\ ops' \in 0..MaxOps
          /\ chat' = [chat EXCEPT ![c] = TRUE]
      BY <1>2, OlmConstants DEF OpensChat, StartDm, Begin, Order, Types, Shape, HistOK
    <2>2. RowsOK'
      BY <1>0, <2>1 DEF RowsOK, relay
    <2>3. WireOK' /\ TaskOK' /\ JobsOK'
      <3>1. WireOK' /\ TaskOK'
        BY <1>0, <2>1 DEF WireOK, TaskOK, relay
      <3>2. JobsOK'
        BY SMTT(30), <1>0, <2>1 DEF JobsOK, JobOK, New
      <3> QED
        BY <3>1, <3>2
    <2>4. HistOK'
      <3>1. faults' \in 0..MaxFaults
        BY <1>0, <2>1 DEF HistOK
      <3> QED
        BY <1>0, <2>1, <3>1, HistStill
    <2> QED
      BY <2>2, <2>3, <2>4 DEF Types, Shape
  <1>3. CASE DeleteChat(c)
    <2>1. RowsOK'
      BY <1>0, <1>3 DEF DeleteChat, RowsOK, relay, Maybe
    <2>2. WireOK'
      BY <1>0, <1>3 DEF DeleteChat, WireOK, relay
    <2>3. HistOK'
      BY <1>0, <1>3 DEF DeleteChat, HistOK, got, count
    <2> QED
      BY <1>3, <2>1, <2>2, <2>3, EndSteps, StepTypes DEF Tasks
  <1>4. ASSUME NEW t \in Tasks, FetchFails(c, t) PROVE Types'
    <2>1. RowsOK' /\ WireOK'
      BY <1>0, <1>4, FailsPool, WireStill DEF FetchFails, RowsOK, vaultRows
    <2>2. faults' \in 0..MaxFaults /\ UNCHANGED <<ops, sent>>
      BY <1>0, <1>4, FaultCounts DEF FetchFails
    <2>3. UNCHANGED <<read, history>>
      BY <1>4 DEF FetchFails
    <2>4. refused' \in [Clients -> SUBSET Nat]
      <3>1. CASE At(c, t, "rfetch")
        <4>1. JobOK(c, t, task[c][t]) /\ task[c][t].at = "rfetch"
          BY <1>0, <3>1 DEF JobsOK, At
        <4>2. task[c][t].frame \in Frames
          BY <4>1 DEF JobOK, ReadSteps
        <4>3. task[c][t].frame.no \in Nat
          BY <4>2 DEF Frames
        <4>4. refused' = [refused EXCEPT ![c] = @ \cup {task[c][t].frame.no}]
          BY <1>4, <3>1 DEF FetchFails
        <4> QED
          BY <1>0, <4>3, <4>4 DEF HistOK
      <3>2. CASE ~At(c, t, "rfetch")
        BY <1>0, <1>4, <3>2 DEF FetchFails, HistOK
      <3> QED
        BY <3>1, <3>2
    <2>5. HistOK'
      BY <1>0, <2>2, <2>3, <2>4 DEF HistOK, history
    <2> QED
      BY <1>4, <2>1, <2>5, EndSteps, StepTypes
  <1>5. ASSUME NEW t \in Tasks, PinContact(c, t) PROVE Types'
    <2>1. task[c][t].ident \in Seen
      BY <1>0 DEF TaskOK, Jobs
    <2>2. RowsOK'
      BY <1>0, <1>5, <2>1 DEF PinContact, RowsOK, relay, UpsertContact
    <2>3. WireOK'
      BY <1>0, <1>5 DEF PinContact, WireOK, relay
    <2>4. HistOK'
      BY <1>0, <1>5 DEF PinContact, HistOK, got, count
    <2> QED
      BY <1>5, <2>2, <2>3, <2>4, PinStep, StepTypes
  <1>6. ASSUME NEW t \in Tasks, NEW e \in Idents, Fetch(c, t, e) PROVE Types'
    <2>1. RowsOK'
      BY <1>0, <1>6 DEF Fetch, RowsOK, vaultRows
    <2>2. WireOK'
      BY <1>0, <1>6 DEF Fetch, WireOK
    <2>3. HistOK'
      <3>1. Answer(e) /\ UNCHANGED <<got, history>>
        BY <1>6 DEF Fetch
      <3>2. faults' \in 0..MaxFaults /\ UNCHANGED <<ops, sent>>
        BY <1>0, <3>1, AnswerCounts
      <3>3. ops' \in 0..MaxOps
        BY <1>0, <3>2 DEF HistOK
      <3> QED
        BY <1>0, <3>1, <3>2, <3>3, HistStill
    <2> QED
      BY <1>6, <2>1, <2>2, <2>3, FetchStep, StepTypes
  <1>7. ASSUME NEW t \in Tasks, NEW e \in Idents, FetchStray(c, t, e) PROVE Types'
    <2>1. Step(c, t, Strayed(c, t, e)) /\ UNCHANGED <<vaultRows, made, wire, got, history>>
      BY <1>7, StrayStep
    <2>2. RowsOK' /\ WireOK'
      BY <1>0, <1>7, StrayStep, WireStill DEF RowsOK, vaultRows
    <2>3. ops' \in 0..MaxOps /\ faults' \in 0..MaxFaults /\ UNCHANGED sent
      BY <1>0, <1>7, StrayStep, FaultCounts DEF HistOK
    <2>4. HistOK'
      BY <1>0, <2>1, <2>3, HistStill
    <2> QED
      BY <2>1, <2>2, <2>4, StepTypes
  <1> QED
    BY <1>1, <1>2, <1>3, <1>4, <1>5, <1>6, <1>7 DEF Types

\* What save_olm and the frame it goes with change.
LEMMA SaveSendFacts ==
  ASSUME Types, NEW c \in Clients, NEW t \in Tasks, SaveSend(c, t)
  PROVE  LET k == task[c][t]
             f == Frame(k.copy, k.op)
             s == IF k.op = "start" THEN k.copy ELSE Advanced(k.copy)
         IN /\ k \in Jobs /\ k.at = "save" /\ k.copy \in Sessions /\ k.loaded \in Maybe
            /\ IF k.loaded = NoSession THEN New(c, k.copy) ELSE k.copy = k.loaded
            /\ s \in Sessions /\ s.key = k.copy.key /\ s.ident = k.copy.ident
            /\ s.rcv = k.copy.rcv
            /\ row' = [row EXCEPT ![c] = s]
            /\ UNCHANGED <<otks, pin, pool, made, got, ops, faults, left>>
            /\ Overtakes(c, row[c] # k.loaded)
            /\ starters' = IF k.loaded = NoSession THEN starters \cup {c} ELSE starters
            /\ k.op = "start" => UNCHANGED <<wire, sent, used, reused>>
                              /\ chat' = [chat EXCEPT ![c] = TRUE]
            /\ k.op # "start" =>
                  /\ s.snd = k.copy.snd + 1 /\ f \in Frames
                  /\ f.key = k.copy.key /\ f.ident = k.copy.ident /\ f.idx = k.copy.snd
                  /\ f.pre = (k.copy.rcv = {}) /\ f.no = sent + 1
                  /\ wire' = [wire EXCEPT ![Peer(c)] = Append(@, f)]
                  /\ sent' = sent + 1 /\ UNCHANGED chat
                  /\ used' = [used EXCEPT ![c] = @ \cup {<<f.key, f.idx>>}]
                  /\ reused' = IF <<f.key, f.idx>> \in used[c] THEN reused \cup {c} ELSE reused
            /\ k.op = "start" => s.snd = k.copy.snd
  <1> DEFINE k == task[c][t]
             f == Frame(k.copy, k.op)
             s == IF k.op = "start" THEN k.copy ELSE Advanced(k.copy)
  <1>1. k \in Jobs /\ k.at = "save" /\ JobOK(c, t, k)
    BY DEF Types, Shape, TaskOK, JobsOK, SaveSend, At
  <1>2. /\ k.copy \in Sessions /\ k.op \in {"start", "text", "control", "left"}
        /\ IF k.loaded = NoSession THEN New(c, k.copy) ELSE k.copy = k.loaded
        /\ k.loaded \in Maybe
    BY <1>1 DEF JobOK, Jobs
  <1>3. /\ s \in Sessions /\ s.key = k.copy.key /\ s.ident = k.copy.ident
        /\ s.rcv = k.copy.rcv
        /\ s.snd = IF k.op = "start" THEN k.copy.snd ELSE k.copy.snd + 1
    BY <1>2, AdvancedFields
  <1>4. k.op # "start" =>
           /\ f \in Frames
           /\ f.key = k.copy.key /\ f.ident = k.copy.ident /\ f.idx = k.copy.snd
           /\ f.pre = (k.copy.rcv = {}) /\ f.no = sent + 1
    BY <1>2, FrameMade
  <1>5. /\ row' = [row EXCEPT ![c] = s]
        /\ UNCHANGED <<otks, pin, pool, made, got, ops, faults, left>>
        /\ Overtakes(c, row[c] # k.loaded)
        /\ starters' = IF k.loaded = NoSession THEN starters \cup {c} ELSE starters
    BY DEF SaveSend
  <1>6. k.op = "start" => UNCHANGED <<wire, sent, used, reused>>
                          /\ chat' = [chat EXCEPT ![c] = TRUE]
    BY DEF SaveSend
  <1>7. k.op # "start" =>
                  /\ wire' = [wire EXCEPT ![Peer(c)] = Append(@, f)]
                  /\ sent' = sent + 1 /\ UNCHANGED chat
                  /\ used' = [used EXCEPT ![c] = @ \cup {<<f.key, f.idx>>}]
                  /\ reused' = IF <<f.key, f.idx>> \in used[c] THEN reused \cup {c} ELSE reused
    BY DEF SaveSend
  <1> HIDE DEF k, f, s
  <1>8. /\ k.op # "start" => s.snd = k.copy.snd + 1
        /\ k.op = "start" => s.snd = k.copy.snd
    BY <1>3
  <1>9. k.op # "start" =>
                  /\ s.snd = k.copy.snd + 1 /\ f \in Frames
                  /\ f.key = k.copy.key /\ f.ident = k.copy.ident /\ f.idx = k.copy.snd
                  /\ f.pre = (k.copy.rcv = {}) /\ f.no = sent + 1
                  /\ wire' = [wire EXCEPT ![Peer(c)] = Append(@, f)]
                  /\ sent' = sent + 1 /\ UNCHANGED chat
                  /\ used' = [used EXCEPT ![c] = @ \cup {<<f.key, f.idx>>}]
                  /\ reused' = IF <<f.key, f.idx>> \in used[c] THEN reused \cup {c} ELSE reused
    BY <1>4, <1>7, <1>8
  <1> QED
    BY <1>1, <1>2, <1>3, <1>5, <1>6, <1>8, <1>9 DEF k, f, s

\* The same, with names for the session that is saved and the frame.
LEMMA SaveSendNames ==
  ASSUME Types, NEW c \in Clients, NEW t \in Tasks, SaveSend(c, t)
  PROVE  \E s \in Sessions : \E f :
           /\ task[c][t] \in Jobs /\ task[c][t].at = "save" /\ task[c][t].copy \in Sessions
           /\ task[c][t].loaded \in Maybe
           /\ IF task[c][t].loaded = NoSession THEN New(c, task[c][t].copy)
              ELSE task[c][t].copy = task[c][t].loaded
           /\ s.key = task[c][t].copy.key /\ s.ident = task[c][t].copy.ident
           /\ s.rcv = task[c][t].copy.rcv /\ row' = [row EXCEPT ![c] = s]
           /\ UNCHANGED <<otks, pin, pool, made, got, ops, faults, left>>
           /\ Overtakes(c, row[c] # task[c][t].loaded)
           /\ starters' = IF task[c][t].loaded = NoSession THEN starters \cup {c} ELSE starters
           /\ task[c][t].op = "start" =>
                 UNCHANGED <<wire, sent, used, reused>> /\ s.snd = task[c][t].copy.snd
           /\ task[c][t].op # "start" =>
                 /\ s.snd = task[c][t].copy.snd + 1 /\ f \in Frames
                 /\ f.key = task[c][t].copy.key /\ f.ident = task[c][t].copy.ident
                 /\ f.idx = task[c][t].copy.snd
                 /\ f.pre = (task[c][t].copy.rcv = {}) /\ f.no = sent + 1
                 /\ wire' = [wire EXCEPT ![Peer(c)] = Append(@, f)]
                 /\ sent' = sent + 1
                 /\ used' = [used EXCEPT ![c] = @ \cup {<<f.key, f.idx>>}]
                 /\ reused' = IF <<f.key, f.idx>> \in used[c] THEN reused \cup {c} ELSE reused
  <1> DEFINE k == task[c][t]
             f == Frame(k.copy, k.op)
             s == IF k.op = "start" THEN k.copy ELSE Advanced(k.copy)
  <1>1. s \in Sessions
    BY SaveSendFacts
  <1>2.
           /\ task[c][t] \in Jobs /\ task[c][t].at = "save" /\ task[c][t].copy \in Sessions
           /\ task[c][t].loaded \in Maybe
           /\ IF task[c][t].loaded = NoSession THEN New(c, task[c][t].copy)
              ELSE task[c][t].copy = task[c][t].loaded
           /\ s.key = task[c][t].copy.key /\ s.ident = task[c][t].copy.ident
           /\ s.rcv = task[c][t].copy.rcv /\ row' = [row EXCEPT ![c] = s]
           /\ UNCHANGED <<otks, pin, pool, made, got, ops, faults, left>>
           /\ Overtakes(c, row[c] # task[c][t].loaded)
           /\ starters' = IF task[c][t].loaded = NoSession THEN starters \cup {c} ELSE starters
           /\ task[c][t].op = "start" =>
                 UNCHANGED <<wire, sent, used, reused>> /\ s.snd = task[c][t].copy.snd
           /\ task[c][t].op # "start" =>
                 /\ s.snd = task[c][t].copy.snd + 1 /\ f \in Frames
                 /\ f.key = task[c][t].copy.key /\ f.ident = task[c][t].copy.ident
                 /\ f.idx = task[c][t].copy.snd
                 /\ f.pre = (task[c][t].copy.rcv = {}) /\ f.no = sent + 1
                 /\ wire' = [wire EXCEPT ![Peer(c)] = Append(@, f)]
                 /\ sent' = sent + 1
                 /\ used' = [used EXCEPT ![c] = @ \cup {<<f.key, f.idx>>}]
                 /\ reused' = IF <<f.key, f.idx>> \in used[c] THEN reused \cup {c} ELSE reused
    BY SMTT(60), SaveSendFacts
  <1> HIDE DEF k, f, s
  <1> QED
    BY <1>1, <1>2

\* The frames of a wire, and what becomes of them.
On(w) == {w[i] : i \in 1..Len(w)}

LEMMA OnAppend ==
  ASSUME NEW w \in Seq(Frames), NEW f \in Frames
  PROVE  /\ Append(w, f) \in Seq(Frames) /\ On(Append(w, f)) = On(w) \cup {f}
         /\ Len(Append(w, f)) = Len(w) + 1 /\ Len(w) \in Nat
  <1>1. /\ Append(w, f) \in Seq(Frames) /\ Len(Append(w, f)) = Len(w) + 1 /\ Len(w) \in Nat
        /\ \A i \in 1..Len(w) : Append(w, f)[i] = w[i]
        /\ Append(w, f)[Len(w) + 1] = f
    OBVIOUS
  <1>2. \A i \in 1..Len(Append(w, f)) : i \in 1..Len(w) \/ i = Len(w) + 1
    BY <1>1
  <1>3. On(Append(w, f)) \subseteq On(w) \cup {f}
    BY <1>1, <1>2 DEF On
  <1>4. \A i \in 1..Len(w) : i \in 1..Len(Append(w, f))
    BY <1>1
  <1>5. Len(w) + 1 \in 1..Len(Append(w, f))
    BY <1>1
  <1>6. On(w) \cup {f} \subseteq On(Append(w, f))
    BY <1>1, <1>4, <1>5 DEF On
  <1> QED
    BY <1>1, <1>3, <1>6

LEMMA OnTail ==
  ASSUME NEW w \in Seq(Frames), w # <<>>
  PROVE  /\ Head(w) \in Frames /\ Tail(w) \in Seq(Frames) /\ Head(w) \in On(w)
         /\ On(Tail(w)) \subseteq On(w) /\ Len(Tail(w)) = Len(w) - 1 /\ Len(w) \in Nat \ {0}
  <1>1. /\ Head(w) \in Frames /\ Tail(w) \in Seq(Frames) /\ Len(Tail(w)) = Len(w) - 1
        /\ \A i \in 1 .. Len(Tail(w)) : Tail(w)[i] = w[i+1]
    BY HeadTailProperties
  <1>2. Len(w) \in Nat \ {0} /\ Head(w) = w[1]
    BY EmptySeq
  <1>3. \A i \in 1 .. Len(Tail(w)) : i + 1 \in 1..Len(w)
    BY <1>1, <1>2
  <1>4. 1 \in 1..Len(w)
    BY <1>2
  <1>5. Head(w) \in On(w)
    BY <1>2, <1>4 DEF On
  <1>6. On(Tail(w)) \subseteq On(w)
    BY <1>1, <1>3 DEF On
  <1> QED
    BY <1>1, <1>2, <1>5, <1>6

LEMMA OnRest ==
  ASSUME NEW w \in Seq(Frames), NEW n \in 0..Len(w)
  PROVE  LET v == SubSeq(w, n + 1, Len(w)) IN
         v \in Seq(Frames) /\ On(v) \subseteq On(w) /\ Len(v) \in Nat /\ Len(v) <= Len(w)
  <1> DEFINE v == SubSeq(w, n + 1, Len(w))
  <1>1. Len(w) \in Nat /\ \A i \in (n + 1)..Len(w) : w[i] \in Frames
    BY ElementOfSeq, LenProperties
  <1>2. /\ v \in Seq(Frames) /\ Len(v) = IF n + 1 <= Len(w) THEN Len(w) - n ELSE 0
        /\ \A i \in 1..(Len(w) - n) : v[i] = w[n + i]
    BY <1>1, SubSeqProperties
  <1>3. \A i \in 1..Len(v) : i \in 1..(Len(w) - n) /\ n + i \in 1..Len(w)
    BY <1>1, <1>2
  <1>4. On(v) \subseteq On(w)
    BY <1>2, <1>3 DEF On
  <1> QED
    BY <1>1, <1>2, <1>4

LEMMA OnAgain ==
  ASSUME NEW w \in Seq(Frames), w # <<>>
  PROVE  LET v == <<Head(w)>> \o w IN
         v \in Seq(Frames) /\ On(v) \subseteq On(w) /\ Len(v) = Len(w) + 1 /\ Len(w) \in Nat
  <1> DEFINE h == Head(w)
             v == <<h>> \o w
  <1>1. h \in Frames /\ h \in On(w) /\ Len(w) \in Nat
    BY OnTail
  <1> HIDE DEF h
  <1>2. <<h>> \in Seq(Frames) /\ Len(<<h>>) = 1
    BY <1>1
  <1>3. /\ v \in Seq(Frames) /\ Len(v) = 1 + Len(w)
        /\ \A i \in 1..(1 + Len(w)) : v[i] = IF i <= 1 THEN <<h>>[i] ELSE w[i - 1]
    BY <1>2, ConcatProperties
  <1>4. \A i \in 1..Len(v) : v[i] = h \/ (i - 1 \in 1..Len(w) /\ v[i] = w[i - 1])
    BY <1>1, <1>3
  <1>5. On(v) \subseteq On(w)
    BY <1>1, <1>4 DEF On
  <1> QED
    BY <1>1, <1>3, <1>5 DEF h

LEMMA SaveSendTypes ==
  ASSUME Types, NEW c \in Clients, NEW t \in Tasks, SaveSend(c, t)
  PROVE  Types'
  <1>0. RowsOK /\ WireOK /\ TaskOK /\ HistOK /\ JobsOK
    BY DEF Types, Shape
  <1> DEFINE k == task[c][t]
             f == Frame(k.copy, k.op)
             s == IF k.op = "start" THEN k.copy ELSE Advanced(k.copy)
  <1>1. /\ s \in Sessions /\ row' = [row EXCEPT ![c] = s]
        /\ UNCHANGED <<otks, pin, pool, made, got, ops, faults, left>>
        /\ Overtakes(c, row[c] # k.loaded)
        /\ starters' \in {starters, starters \cup {c}}
        /\ k.op = "start" => UNCHANGED <<wire, sent, used, reused>>
                             /\ chat' = [chat EXCEPT ![c] = TRUE]
        /\ k.op # "start" =>
              /\ f \in Frames /\ wire' = [wire EXCEPT ![Peer(c)] = Append(@, f)]
              /\ sent' = sent + 1 /\ UNCHANGED chat
              /\ used' = [used EXCEPT ![c] = @ \cup {<<f.key, f.idx>>}]
              /\ reused' \in {reused, reused \cup {c}}
    BY ZenonT(30), SaveSendFacts
  <1> HIDE DEF k, f, s
  <1>2. RowsOK'
    BY <1>0, <1>1 DEF RowsOK, Maybe
  <1>3. WireOK'
    <2>1. CASE k.op # "start"
      <3>1. wire[Peer(c)] \in Seq(Frames)
        BY <1>0, PeerFacts DEF WireOK
      <3>2. Append(wire[Peer(c)], f) \in Seq(Frames)
        BY <1>1, <2>1, <3>1, OnAppend
      <3> QED
        BY <1>0, <1>1, <2>1, <3>2 DEF WireOK
    <2> QED
      BY <1>0, <1>1, <2>1 DEF WireOK
  <1>4. used' \in [Clients -> SUBSET (Keys \X Nat)] /\ sent' \in Nat
    <2>1. CASE k.op # "start"
      <3>1. <<f.key, f.idx>> \in Keys \X Nat
        BY <1>1, <2>1 DEF Frames
      <3>2. used[c] \cup {<<f.key, f.idx>>} \in SUBSET (Keys \X Nat)
        BY <1>0, <3>1 DEF HistOK
      <3>3. used' = [used EXCEPT ![c] = used[c] \cup {<<f.key, f.idx>>}]
        BY <1>1, <2>1
      <3>4. used' \in [Clients -> SUBSET (Keys \X Nat)]
        BY <1>0, <3>2, <3>3, Zenon DEF HistOK
      <3> QED
        BY <1>0, <1>1, <2>1, <3>4 DEF HistOK
    <2> QED
      BY <1>0, <1>1, <2>1 DEF HistOK
  <1>5. /\ reused' \subseteq Clients /\ starters' \subseteq Clients
        /\ overtaken' \subseteq Clients /\ raced' \subseteq Clients
    BY <1>0, <1>1, OvertakesMore DEF HistOK
  <1>6. HistOK'
    BY <1>0, <1>1, <1>4, <1>5 DEF HistOK, got
  <1> QED
    BY <1>2, <1>3, <1>6, SaveStep, StepTypes

\* One-time keys.
LEMMA KeyTypes ==
  ASSUME Types, NEW c \in Clients, Replenish(c) \/ SaveKeys(c) \/ PublishKeys(c)
  PROVE  Types'
  <1>0. RowsOK /\ WireOK /\ TaskOK /\ HistOK /\ JobsOK /\ "cmd" \in Tasks
    BY DEF Types, Shape, Tasks
  <1>1. CASE Replenish(c)
    <2>1. UNCHANGED <<vaultRows, relay, got, history, faults, sent>> /\ ops' \in 0..MaxOps
      BY <1>0, <1>1, OlmConstants DEF Replenish, Order, HistOK
    <2>2. faults' \in 0..MaxFaults
      BY <1>0, <2>1 DEF HistOK
    <2>3. RowsOK' /\ WireOK' /\ HistOK'
      BY <1>0, <2>1, <2>2, RowsStill, WireStill, HistStill DEF relay
    <2> QED
      BY <1>0, <1>1, <2>3, RenewStep, StepTypes
  <1>2. CASE SaveKeys(c)
    <2>1. task[c]["cmd"].acct \in SUBSET Nat
      BY <1>0 DEF TaskOK, Jobs
    <2>2. RowsOK'
      BY <1>0, <1>2, <2>1 DEF SaveKeys, RowsOK
    <2>3. WireOK' /\ HistOK'
      BY <1>0, <1>2 DEF SaveKeys, WireOK, HistOK, got, count, Overtakes
    <2> QED
      BY <1>0, <1>2, <2>2, <2>3, KeysStep, StepTypes
  <1>3. CASE PublishKeys(c)
    <2>1. RowsOK'
      BY <1>0, <1>3 DEF PublishKeys, RowsOK, vaultRows
    <2>2. WireOK' /\ HistOK'
      BY <1>0, <1>3 DEF PublishKeys, WireOK, HistOK, got, count, history
    <2> QED
      BY <1>0, <1>3, <2>1, <2>2, EndSteps, StepTypes
  <1> QED
    BY <1>1, <1>2, <1>3

\* What save_olm of a frame that was read changes.
LEMMA DeliverFacts ==
  ASSUME Types, NEW c \in Clients, Deliver(c)
  PROVE  LET k == task[c]["proc"]
             s == IF k.at = "rsave" THEN k.copy ELSE Inbound(k.frame)
         IN /\ k \in Jobs /\ k.at \in {"rsave", "isave"} /\ k.frame \in Frames
            /\ JobOK(c, "proc", k)
            /\ s \in Sessions /\ s.key = k.frame.key
            /\ row' = [row EXCEPT ![c] = s]
            /\ Overtakes(c, row[c] # k.loaded)
            /\ read' = [read EXCEPT ![c] = Append(@, k.frame.no)]
            /\ k.frame.no \in Nat
            /\ UNCHANGED <<otks, pin, relay, refused, count, used, reused, starters, left>>
  <1> DEFINE k == task[c]["proc"]
             s == IF k.at = "rsave" THEN k.copy ELSE Inbound(k.frame)
  <1>1. /\ k \in Jobs /\ k.at \in {"rsave", "isave"} /\ JobOK(c, "proc", k)
    BY DEF Types, Shape, TaskOK, JobsOK, Deliver, Tasks
  <1>2. k.frame \in Frames
    BY <1>1 DEF JobOK, ReadSteps
  <1>3. s \in Sessions /\ s.key = k.frame.key
    <2>1. CASE k.at = "rsave"
      BY <1>1, <2>1 DEF JobOK, Sessions
    <2> QED
      BY <1>2, <2>1, InboundFields
  <1>4. k.frame.no \in Nat
    BY <1>2 DEF Frames
  <1> QED
    BY <1>1, <1>2, <1>3, <1>4 DEF Deliver

\* Receiving.
LEMMA ReceiveTypes ==
  ASSUME Types, NEW c \in Clients,
         \/ Receive(c) \/ CreateInbound(c) \/ SaveAccount(c) \/ Deliver(c)
         \/ \E e \in Idents : FetchSender(c, e)
  PROVE  Types'
  <1>0. RowsOK /\ WireOK /\ TaskOK /\ HistOK /\ JobsOK /\ "proc" \in Tasks
    BY DEF Types, Shape, Tasks
  <1>1. CASE Receive(c)
    <2> DEFINE f == Head(wire[c])
    <2>1. /\ f \in Frames /\ wire[c] \in Seq(Frames) /\ wire[c] # <<>>
      BY <1>1, ReceiveStep
    <2>2. RowsOK'
      BY <1>0, <1>1, RowsStill DEF Receive
    <2>3. WireOK'
      <3>1. Tail(wire[c]) \in Seq(Frames) /\ wire' = [wire EXCEPT ![c] = Tail(wire[c])]
        BY <1>1, <2>1, OnTail DEF Receive
      <3> QED
        BY <1>0, <3>1 DEF WireOK
    <2>4. UNCHANGED <<read, count, history>>
      BY <1>1 DEF Receive
    <2>5. UNCHANGED refused \/ Refuse(c, f)
      BY <1>1, ReceiveStep
    <2>6. HistOK'
      BY <1>0, <2>1, <2>4, <2>5, RefusedTypes DEF HistOK, count, history
    <2>7. CASE UNCHANGED task
      <3>1. TaskOK' /\ JobsOK'
        BY SMTT(60), <1>0, <2>7 DEF TaskOK, JobsOK, JobOK, New
      <3> QED
        BY <2>2, <2>3, <2>6, <3>1 DEF Types, Shape
    <2> QED
      BY <1>0, <1>1, <2>2, <2>3, <2>6, <2>7, ReceiveStep, StepTypes
  <1>2. CASE CreateInbound(c)
    <2>1. RowsOK' /\ WireOK' /\ UNCHANGED <<read, count, history>>
      BY <1>0, <1>2, RowsStill, WireStill DEF CreateInbound, relay
    <2>2. HistOK'
      <3>1. UNCHANGED refused \/ (Refuse(c, task[c]["proc"].frame) /\ task[c]["proc"].frame \in Frames)
        BY <1>2, InboundStep
      <3> QED
        BY <1>0, <2>1, <3>1, RefusedTypes DEF HistOK, count, history
    <2> QED
      BY <1>0, <1>2, <2>1, <2>2, InboundStep, StepTypes
  <1>3. CASE SaveAccount(c)
    <2>1. task[c]["proc"].acct \in SUBSET Nat
      BY <1>0 DEF TaskOK, Jobs
    <2>2. RowsOK'
      BY <1>0, <1>3, <2>1 DEF SaveAccount, RowsOK, relay
    <2>3. WireOK' /\ HistOK'
      BY <1>0, <1>3 DEF SaveAccount, WireOK, HistOK, got, count, relay, Overtakes
    <2> QED
      BY <1>0, <1>3, <2>2, <2>3, AccountStep, StepTypes
  <1>4. CASE Deliver(c)
    <2> DEFINE k == task[c]["proc"]
               s == IF k.at = "rsave" THEN k.copy ELSE Inbound(k.frame)
    <2>1. /\ s \in Sessions /\ row' = [row EXCEPT ![c] = s]
          /\ Overtakes(c, row[c] # k.loaded)
          /\ read' = [read EXCEPT ![c] = Append(@, k.frame.no)] /\ k.frame.no \in Nat
          /\ UNCHANGED <<otks, pin, relay, refused, count, used, reused, starters, left>>
      BY <1>4, DeliverFacts
    <2>2. chat' \in [Clients -> BOOLEAN]
      BY <1>0, <1>4 DEF Deliver, RowsOK
    <2> HIDE DEF k, s
    <2>3. RowsOK' /\ WireOK'
      BY <1>0, <2>1, <2>2 DEF RowsOK, WireOK, relay, Maybe
    <2>4. read' \in [Clients -> Seq(Nat)]
      BY <1>0, <2>1 DEF HistOK
    <2>5. HistOK'
      BY <1>0, <2>1, <2>4, OvertakesMore DEF HistOK, count
    <2> QED
      BY <1>0, <1>4, <2>3, <2>5, EndSteps, StepTypes
  <1>5. ASSUME NEW e \in Idents, FetchSender(c, e) PROVE Types'
    <2>1. RowsOK'
      BY <1>0, <1>5 DEF FetchSender, RowsOK, vaultRows
    <2>2. WireOK' /\ Answer(e) /\ UNCHANGED <<read, history>>
      BY <1>0, <1>5 DEF FetchSender, WireOK
    <2>3. faults' \in 0..MaxFaults /\ UNCHANGED <<ops, sent>>
      BY <1>0, <2>2, AnswerCounts
    <2>4. HistOK'
      <3>1. UNCHANGED refused \/ (Refuse(c, task[c]["proc"].frame) /\ task[c]["proc"].frame \in Frames)
        BY <1>5, SenderStep
      <3> QED
        BY <1>0, <2>2, <2>3, <3>1, RefusedTypes DEF HistOK, history
    <2> QED
      BY <1>0, <1>5, <2>1, <2>2, <2>4, SenderStep, StepTypes
  <1> QED
    BY <1>1, <1>2, <1>3, <1>4, <1>5

\* Faults.
LEMMA FaultTypes ==
  ASSUME Types, NEW c \in Clients, Crash(c) \/ Redeliver(c)
  PROVE  Types'
  <1>0. RowsOK /\ WireOK /\ TaskOK /\ HistOK /\ JobsOK /\ wire[c] \in Seq(Frames)
    BY DEF Types, Shape, WireOK
  <1>1. Fault /\ UNCHANGED <<got, history>>
    BY DEF Crash, Redeliver
  <1>2. HistOK'
    <2>1. faults' \in 0..MaxFaults /\ UNCHANGED <<ops, sent>>
      BY <1>0, <1>1, FaultCounts
    <2>2. ops' \in 0..MaxOps
      BY <1>0, <2>1 DEF HistOK
    <2> QED
      BY <1>0, <1>1, <2>1, <2>2, HistStill
  <1>3. CASE Crash(c)
    <2>1. RowsOK'
      BY <1>0, <1>3 DEF Crash, RowsOK
    <2>2. WireOK'
      <3>1. PICK n \in 0..Len(wire[c]) :
               wire' = [wire EXCEPT ![c] = SubSeq(wire[c], n + 1, Len(wire[c]))]
        BY <1>3 DEF Crash
      <3>2. SubSeq(wire[c], n + 1, Len(wire[c])) \in Seq(Frames)
        BY <1>0, OnRest
      <3> QED
        BY <1>0, <3>1, <3>2 DEF WireOK
    <2> QED
      BY <1>2, <1>3, <2>1, <2>2, CrashTasks DEF Types, Shape
  <1>4. CASE Redeliver(c)
    <2>1. RowsOK' /\ TaskOK' /\ JobsOK'
      BY <1>0, <1>4, RowsStill, TasksStill DEF Redeliver
    <2>2. WireOK'
      <3>1. wire[c] # <<>> /\ wire' = [wire EXCEPT ![c] = <<Head(wire[c])>> \o wire[c]]
        BY <1>4 DEF Redeliver
      <3>2. <<Head(wire[c])>> \o wire[c] \in Seq(Frames)
        BY <1>0, <3>1, OnAgain
      <3> QED
        BY <1>0, <3>1, <3>2 DEF WireOK
    <2> QED
      BY <1>2, <2>1, <2>2 DEF Types, Shape
  <1> QED
    BY <1>3, <1>4

LEMMA NextTypes == Types /\ [Next]_vars => Types'
  <1> SUFFICES ASSUME Types, [Next]_vars PROVE Types'
    OBVIOUS
  <1>1. CASE UNCHANGED vars
    <2>1. RowsOK' /\ WireOK' /\ TaskOK' /\ JobsOK'
      BY <1>1, RowsStill, WireStill, TasksStill DEF Types, Shape, vars, relay
    <2>2. HistOK'
      BY <1>1 DEF Types, Shape, HistOK, vars, got, count, history
    <2> QED
      BY <2>1, <2>2 DEF Types, Shape
  <1>2. ASSUME NEW c \in Clients, NEW t \in Tasks, SaveSend(c, t) PROVE Types'
    BY <1>2, SaveSendTypes
  <1> QED
    BY <1>1, <1>2, NextCases, SendTypes, KeyTypes, ReceiveTypes, FaultTypes

----------------------------------------------------------------------------
(* Where keys, sessions and frames come from.                              *)

\* The one-time keys of a client that are not the relay's to give any more.
Spent(c) ==
    {n \in 1..made[c] : n \notin pool[c] /\ (At(c, "cmd", "publish") => n # made[c])}
IsSpent(k) == IF k[1] = Stranger THEN k[2] \in 1..faults ELSE k[2] \in Spent(k[1])

\* The sessions a client has, in the vault or in a task's hands, and the frames
\* it has not read yet, on the wire or in the processor's hands.
SessionsOf(c) ==
    ({row[c]} \cup {task[c][t].loaded : t \in Tasks} \cup {task[c][t].copy : t \in Tasks})
        \ {NoSession}
InHand(c) ==
    IF task[c]["proc"].at \in ReadSteps THEN {task[c]["proc"].frame} ELSE {}
FramesTo(c) == On(wire[c]) \cup InHand(c)

UsedBy(c, k) == \E u \in used[c] : u[1] = k

\* A session was made with a key that was given; with a key of the client's own
\* only once the other has used it.  One that has received nothing was started
\* by the client, and one with a stranger receives nothing.
SessOK(c, s) ==
    /\ IsSpent(s.key) /\ s.snd <= sent
    /\ s.rcv = {} => s.key[1] # c
    /\ s.key[1] = c => UsedBy(Peer(c), s.key)
    /\ s.key[1] = Stranger => s.ident # Real /\ s.rcv = {}

\* A frame was encrypted by the other; a prekey message for no key that the
\* other made, and any message with a session that the client started once the
\* client has used it.
FrameOK(c, f) ==
    /\ IsSpent(f.key) /\ f.no \in 1..sent
    /\ f.pre => f.key[1] # Peer(c)
    /\ <<f.key, f.idx>> \in used[Peer(c)]
    /\ f.key[1] = Peer(c) => UsedBy(c, f.key)
    /\ f.key[1] = Stranger => f.ident # Real

KeysOK ==
    \A c \in Clients :
       /\ otks[c] \subseteq 1..made[c] /\ pool[c] \subseteq 1..made[c]
       /\ \A t \in Tasks : task[c][t].acct \subseteq 1..made[c]
       /\ At(c, "cmd", "publish") => made[c] \in Nat \ {0} /\ made[c] \notin pool[c]
       /\ \A u \in used[c] : IsSpent(u[1])

SessionsOK == \A c \in Clients : \A s \in SessionsOf(c) : SessOK(c, s)
FramesOK == \A c \in Clients : \A f \in FramesTo(c) : FrameOK(c, f)
Distinct == \A c \in Clients : \A f, g \in FramesTo(c) : f.no = g.no => f = g
Numbered ==
    \A c \in Clients :
       /\ refused[c] \subseteq 1..sent
       /\ \A i \in 1..Len(read[c]) : read[c][i] \in 1..sent
Sound == KeysOK /\ SessionsOK /\ FramesOK /\ Distinct /\ Numbered

\* A message is read once, unless the relay delivers it again.
Hand(c) == IF task[c]["proc"].at \in ReadSteps THEN 1 ELSE 0
Carried(c) == Len(read[c]) + Len(wire[c]) + Hand(c)
Counted == \A c \in Clients : Carried(c) + Carried(Peer(c)) <= sent + faults


LEMMA TypedSessions == ASSUME Types, NEW c \in Clients PROVE SessionsOf(c) \subseteq Sessions
  <1>1. row[c] \in Maybe
    BY DEF Types, Shape, RowsOK
  <1>2. \A t \in Tasks : task[c][t].loaded \in Maybe /\ task[c][t].copy \in Maybe
    BY DEF Types, Shape, TaskOK, Jobs
  <1> QED
    BY <1>1, <1>2 DEF SessionsOf, Maybe

LEMMA TypedFrames == ASSUME Types, NEW c \in Clients PROVE FramesTo(c) \subseteq Frames
  <1>1. On(wire[c]) \subseteq Frames
    <2>1. wire[c] \in Seq(Frames)
      BY DEF Types, Shape, WireOK
    <2> QED
      BY <2>1, ElementOfSeq DEF On
  <1>2. InHand(c) \subseteq Frames
    <2>1. JobOK(c, "proc", task[c]["proc"])
      BY DEF Types, JobsOK, Tasks
    <2> QED
      BY <2>1 DEF JobOK, InHand
  <1> QED
    BY <1>1, <1>2 DEF FramesTo

\* Keys are spent, messages sent and used for good.
Grows ==
    /\ sent' \in Nat /\ sent <= sent' /\ FaultsGrown
    /\ \A c \in Clients : used[c] \subseteq used'[c] /\ Spent(c) \subseteq Spent(c)'

LEMMA SessMore ==
  ASSUME Types, Grows, NEW c \in Clients, NEW s \in Sessions, SessOK(c, s)
  PROVE  SessOK(c, s)'
  <1>1. /\ s.key[1] \in Clients \cup {Stranger} /\ s.key[2] \in Nat
        /\ s.snd \in Nat /\ sent \in Nat /\ faults \in Nat
    BY DEF Sessions, Types, Shape, HistOK
  <1>2. IsSpent(s.key)' /\ s.snd <= sent'
    BY <1>1 DEF SessOK, IsSpent, Grows, FaultsGrown
  <1>3. s.key[1] = c => UsedBy(Peer(c), s.key)'
    BY PeerFacts DEF SessOK, UsedBy, Grows
  <1> QED
    BY <1>2, <1>3 DEF SessOK

LEMMA FrameMore ==
  ASSUME Types, Grows, NEW c \in Clients, NEW f \in Frames, FrameOK(c, f)
  PROVE  FrameOK(c, f)'
  <1>1. /\ f.key[1] \in Clients \cup {Stranger} /\ f.key[2] \in Nat
        /\ f.no \in Nat /\ sent \in Nat /\ faults \in Nat
    BY DEF Frames, Keys, Types, Shape, HistOK
  <1>2. IsSpent(f.key)' /\ f.no \in 1..sent'
    BY <1>1 DEF FrameOK, IsSpent, Grows, FaultsGrown
  <1>3. <<f.key, f.idx>> \in used'[Peer(c)]
    BY PeerFacts DEF FrameOK, Grows
  <1>4. f.key[1] = Peer(c) => UsedBy(c, f.key)'
    BY DEF FrameOK, UsedBy, Grows
  <1> QED
    BY <1>2, <1>3, <1>4 DEF FrameOK

LEMMA SessionsKept ==
  ASSUME Types, SessionsOK, Grows,
         \A d \in Clients : \A s \in SessionsOf(d)' : s \in SessionsOf(d) \/ SessOK(d, s)'
  PROVE  SessionsOK'
  <1> SUFFICES ASSUME NEW d \in Clients, NEW s \in SessionsOf(d)' PROVE SessOK(d, s)'
    BY DEF SessionsOK
  <1>1. CASE s \in SessionsOf(d)
    BY <1>1, SessMore, TypedSessions DEF SessionsOK
  <1> QED
    BY <1>1

LEMMA FramesKept ==
  ASSUME Types, FramesOK, Distinct, Grows, \A d \in Clients : FramesTo(d)' \subseteq FramesTo(d)
  PROVE  FramesOK' /\ Distinct'
  <1>1. FramesOK'
    <2> SUFFICES ASSUME NEW d \in Clients, NEW f \in FramesTo(d)' PROVE FrameOK(d, f)'
      BY DEF FramesOK
    <2>1. f \in FramesTo(d)
      OBVIOUS
    <2> QED
      BY <2>1, FrameMore, TypedFrames DEF FramesOK
  <1>2. Distinct'
    BY DEF Distinct
  <1> QED
    BY <1>1, <1>2

LEMMA SpentMore ==
  ASSUME NEW c \in Clients, made'[c] = made[c], pool'[c] \subseteq pool[c],
         At(c, "cmd", "publish")' => At(c, "cmd", "publish")
  PROVE  Spent(c) \subseteq Spent(c)'
  BY DEF Spent

\* What a step of one task means for what the clients have.
LEMMA StepSessions ==
  ASSUME NEW c \in Clients, NEW t \in Tasks, NEW k, Step(c, t, k),
         \A d \in Clients : d # c => row'[d] = row[d]
  PROVE  /\ \A d \in Clients : d # c => SessionsOf(d)' \subseteq SessionsOf(d)
         /\ \A s \in SessionsOf(c)' :
               s \in SessionsOf(c) \/ s \in {row'[c], k.loaded, k.copy} \ {NoSession}
  <1>1. ASSUME NEW d \in Clients, d # c PROVE SessionsOf(d)' \subseteq SessionsOf(d)
    BY <1>1 DEF SessionsOf, Step
  <1>2. ASSUME NEW s \in SessionsOf(c)'
        PROVE  s \in SessionsOf(c) \/ s \in {row'[c], k.loaded, k.copy} \ {NoSession}
    <2>1. \A r \in Tasks : r # t => task'[c][r] = task[c][r]
      BY DEF Step
    <2>2. task'[c][t] = k
      BY DEF Step
    <2>3. s # NoSession
      BY DEF SessionsOf
    <2>4. \/ s = row'[c] \/ \E r \in Tasks : s = task'[c][r].loaded
          \/ \E r \in Tasks : s = task'[c][r].copy
      BY DEF SessionsOf
    <2>5. ASSUME NEW r \in Tasks, s = task'[c][r].loaded \/ s = task'[c][r].copy
          PROVE  s \in SessionsOf(c) \/ s \in {k.loaded, k.copy}
      BY <2>1, <2>2, <2>3, <2>5 DEF SessionsOf
    <2> QED
      BY <2>3, <2>4, <2>5
  <1> QED
    BY <1>1, <1>2

LEMMA StepHand ==
  ASSUME NEW c \in Clients, NEW t \in Tasks, NEW k, Step(c, t, k)
  PROVE  /\ \A d \in Clients : d # c \/ t = "cmd" => InHand(d)' = InHand(d)
         /\ \A d \in Clients : d # c \/ t = "cmd" => Hand(d)' = Hand(d)
         /\ t = "proc" => /\ InHand(c)' = IF k.at \in ReadSteps THEN {k.frame} ELSE {}
                          /\ Hand(c)' = IF k.at \in ReadSteps THEN 1 ELSE 0
         /\ \A d \in Clients, r \in Tasks : d # c \/ r # t =>
                \A a : At(d, r, a)' <=> At(d, r, a)
         /\ \A a : At(c, t, a)' <=> k.at = a
  BY DEF Step, InHand, Hand, At, Tasks

\* What every step but a send does to them: it adds no frame, and what sessions
\* it makes are sound.
Moves ==
    /\ Grows
    /\ \A d \in Clients : FramesTo(d)' \subseteq FramesTo(d)
    /\ \A d \in Clients : \A s \in SessionsOf(d)' : s \in SessionsOf(d) \/ SessOK(d, s)'

\* A step of one task that makes and publishes no keys.
Modest(c, t, k) ==
    /\ Step(c, t, k) /\ k.at # "publish"
    /\ UNCHANGED <<used, sent, made>> /\ FaultsGrown
    /\ \A d \in Clients : pool'[d] \subseteq pool[d]

LEMMA ModestGrows ==
  ASSUME Types, NEW c \in Clients, NEW t \in Tasks, NEW k, Modest(c, t, k)
  PROVE  Grows
  <1>1. sent \in Nat
    BY DEF Types, Shape, HistOK
  <1>2. \A d \in Clients : At(d, "cmd", "publish")' => At(d, "cmd", "publish")
    <2> SUFFICES ASSUME NEW d \in Clients, At(d, "cmd", "publish")'
                 PROVE  At(d, "cmd", "publish")
      OBVIOUS
    <2>1. ~(d = c /\ t = "cmd")
      BY DEF Modest, Step, At
    <2> QED
      BY <2>1 DEF Modest, Step, At, Tasks
  <1>3. \A d \in Clients : Spent(d) \subseteq Spent(d)'
    BY <1>2, SpentMore DEF Modest
  <1> QED
    BY <1>1, <1>3 DEF Grows, Modest

LEMMA ModestMoves ==
  ASSUME Types, NEW c \in Clients, NEW t \in Tasks, NEW k, Modest(c, t, k),
         \A d \in Clients : d # c => row'[d] = row[d],
         \A s \in {row'[c], k.loaded, k.copy} \ {NoSession} :
             s \in SessionsOf(c) \/ SessOK(c, s)',
         \A d \in Clients : On(wire[d])' \subseteq On(wire[d]),
         k.at \in ReadSteps => t = "proc" /\ k.frame \in FramesTo(c)
  PROVE  Moves
  <1>1. Grows
    BY ModestGrows
  <1>2. \A d \in Clients : InHand(d)' \subseteq FramesTo(d)
    <2> SUFFICES ASSUME NEW d \in Clients PROVE InHand(d)' \subseteq FramesTo(d)
      OBVIOUS
    <2>1. CASE d # c \/ t = "cmd"
      BY <2>1, StepHand DEF Modest, FramesTo
    <2>2. CASE d = c /\ t = "proc"
      BY <2>2, StepHand DEF Modest
    <2> QED
      BY <2>1, <2>2 DEF Tasks
  <1>3. \A d \in Clients : FramesTo(d)' \subseteq FramesTo(d)
    BY <1>2 DEF FramesTo
  <1>4. \A d \in Clients : \A s \in SessionsOf(d)' : s \in SessionsOf(d) \/ SessOK(d, s)'
    <2> SUFFICES ASSUME NEW d \in Clients, NEW s \in SessionsOf(d)'
                 PROVE  s \in SessionsOf(d) \/ SessOK(d, s)'
      OBVIOUS
    <2>1. CASE d # c
      BY <2>1, StepSessions DEF Modest
    <2>2. CASE d = c
      BY <2>2, StepSessions DEF Modest
    <2> QED
      BY <2>1, <2>2
  <1> QED
    BY <1>1, <1>3, <1>4 DEF Moves

\* A task's own sessions are among the client's.
LEMMA OwnSessions ==
  ASSUME NEW c \in Clients, NEW t \in Tasks
  PROVE  /\ row[c] # NoSession => row[c] \in SessionsOf(c)
         /\ task[c][t].loaded # NoSession => task[c][t].loaded \in SessionsOf(c)
         /\ task[c][t].copy # NoSession => task[c][t].copy \in SessionsOf(c)
         /\ task[c]["proc"].at \in ReadSteps => task[c]["proc"].frame \in FramesTo(c)
  BY DEF SessionsOf, FramesTo, InHand

\* Jobs that end or go on as they are.
LEMMA EndMoves ==
  ASSUME Types, NEW c \in Clients, NEW t \in Tasks, Step(c, t, Idle),
         UNCHANGED <<used, sent, made, wire>>, FaultsGrown,
         \A d \in Clients : pool'[d] \subseteq pool[d],
         \A d \in Clients : d # c => row'[d] = row[d], row'[c] \in {row[c], NoSession}
  PROVE  Moves
  <1>1. Modest(c, t, Idle)
    BY IdleJob DEF Modest
  <1>2. Idle.at \notin ReadSteps
    BY IdleJob DEF ReadSteps
  <1>3. \A s \in {row'[c], Idle.loaded, Idle.copy} \ {NoSession} : s \in SessionsOf(c)
    BY IdleJob, OwnSessions
  <1> QED
    BY <1>1, <1>2, <1>3, ModestMoves

LEMMA OnwardMoves ==
  ASSUME Types, NEW c \in Clients, NEW t \in Tasks, NEW k, Step(c, t, k), k.at # "publish",
         UNCHANGED <<row, used, sent, made, wire>>, FaultsGrown,
         \A d \in Clients : pool'[d] \subseteq pool[d],
         k.loaded = task[c][t].loaded, k.copy = task[c][t].copy,
         k.frame = task[c][t].frame,
         k.at \in ReadSteps => t = "proc" /\ task[c][t].at \in ReadSteps
  PROVE  Moves
  <1>1. Modest(c, t, k)
    BY DEF Modest
  <1>2. k.at \in ReadSteps => t = "proc" /\ k.frame \in FramesTo(c)
    BY OwnSessions
  <1>3. \A s \in {row'[c], k.loaded, k.copy} \ {NoSession} : s \in SessionsOf(c)
    BY OwnSessions
  <1> QED
    BY <1>1, <1>2, <1>3, ModestMoves

LEMMA GivenSpent ==
  ASSUME Types, KeysOK, NEW c \in Clients, NEW n \in Given(c),
         UNCHANGED made, pool' = [pool EXCEPT ![Peer(c)] = @ \ Given(c)],
         task'[Peer(c)] = task[Peer(c)]
  PROVE  n \in Spent(Peer(c))' /\ n \in pool[Peer(c)] /\ \A d \in Clients : pool'[d] \subseteq pool[d]
  <1>1. /\ n \in pool[Peer(c)] /\ Peer(c) \in Clients /\ n \in 1..made[Peer(c)]
        /\ At(Peer(c), "cmd", "publish") => made[Peer(c)] \notin pool[Peer(c)]
    BY PeerFacts DEF Given, KeysOK
  <1>2. /\ n \notin pool'[Peer(c)] /\ made'[Peer(c)] = made[Peer(c)]
        /\ At(Peer(c), "cmd", "publish")' <=> At(Peer(c), "cmd", "publish")
        /\ \A d \in Clients : pool'[d] \subseteq pool[d]
    BY <1>1 DEF Types, Shape, RowsOK, At
  <1> QED
    BY <1>1, <1>2 DEF Spent

LEMMA SendMoves ==
  ASSUME Types, Sound, NEW c \in Clients,
         \/ Sends(c) \/ OpensChat(c) \/ DeleteChat(c)
         \/ \E t \in Tasks : FetchFails(c, t) \/ PinContact(c, t)
         \/ \E t \in Tasks, e \in Idents : Fetch(c, t, e) \/ FetchStray(c, t, e)
  PROVE  Moves
  <1>0. RowsOK /\ WireOK /\ TaskOK /\ HistOK /\ JobsOK /\ FaultsGrown
    BY FaultsGrow DEF Types, Shape, Operation
  <1>1. CASE Sends(c)
    <2>1. PICK t \in Tasks, op \in {"start", "text", "control", "left"},
               a \in {"fetch", "save", "delete"} : Step(c, t, SendJob(c, op, a))
      BY <1>1, SendsStep
    <2> DEFINE k == SendJob(c, op, a)
    <2>2. k.at = a /\ k.loaded = row[c] /\ k.copy = row[c]
      BY <1>0, SendJobFields
    <2>3. UNCHANGED <<row, used, sent, made, wire, pool>>
      BY <1>1, SendsStep DEF vaultRows, relay, history
    <2>4. Modest(c, t, k) /\ k.at \notin ReadSteps
      BY <1>0, <2>1, <2>2, <2>3 DEF Modest, ReadSteps
    <2>5. \A s \in {row'[c], k.loaded, k.copy} \ {NoSession} : s \in SessionsOf(c)
      BY <2>2, <2>3, OwnSessions
    <2> HIDE DEF k
    <2> QED
      BY <2>3, <2>4, <2>5, ModestMoves
  <1>2. CASE OpensChat(c)
    <2>1. UNCHANGED <<row, task, used, sent, made, wire, pool>>
      BY <1>2 DEF OpensChat, StartDm, Begin, Order, relay, history
    <2>2. sent \in Nat
      BY <1>0 DEF HistOK
    <2>3. Grows
      BY <1>0, <2>1, <2>2 DEF Grows, Spent, At
    <2> QED
      BY <2>1, <2>3 DEF Moves, FramesTo, InHand, SessionsOf
  <1>3. CASE DeleteChat(c)
    <2>1. Step(c, "cmd", Idle) /\ UNCHANGED <<used, sent, made, wire, pool>>
      BY <1>3, EndSteps DEF DeleteChat, relay, count, Tasks
    <2>2. (\A d \in Clients : d # c => row'[d] = row[d]) /\ row'[c] \in {row[c], NoSession}
      BY <1>0, <1>3 DEF DeleteChat, RowsOK
    <2> QED
      BY <1>0, <2>1, <2>2, EndMoves DEF Tasks
  <1>4. ASSUME NEW t \in Tasks, FetchFails(c, t) PROVE Moves
    <2>1. Step(c, t, Idle) /\ UNCHANGED <<row, used, sent, made, wire>>
      BY <1>4, EndSteps DEF FetchFails, vaultRows, history, Fault
    <2> QED
      BY <1>0, <1>4, <2>1, FailsPool, EndMoves
  <1>5. ASSUME NEW t \in Tasks, PinContact(c, t) PROVE Moves
    <2>1. UNCHANGED <<row, used, sent, made, wire, pool>> /\ task[c][t] \in Jobs
      BY <1>0, <1>5 DEF PinContact, relay, count, TaskOK
    <2>2. CASE At(c, t, "pin") /\ Step(c, t, Moved(task[c][t], "save"))
      BY <1>0, <2>1, <2>2, MovedJob, OnwardMoves DEF SendSteps, ReadSteps
    <2>3. CASE At(c, t, "rpin") /\ t = "proc" /\ Step(c, t, Moved(task[c][t], "inbound"))
      BY <1>0, <2>1, <2>3, MovedJob, OnwardMoves DEF At, ReadSteps
    <2> QED
      BY <1>5, <2>2, <2>3, PinStep
  <1>6. ASSUME NEW t \in Tasks, NEW e \in Idents, Fetch(c, t, e) PROVE Moves
    <2>1. /\ UNCHANGED <<row, used, sent, made, wire>>
          /\ pool' = [pool EXCEPT ![Peer(c)] = @ \ Given(c)]
          /\ \A d \in Clients : pool'[d] \subseteq pool[d]
      BY <1>0, <1>6, AnswerCounts DEF Fetch, vaultRows, history, RowsOK
    <2>2. CASE Step(c, t, Idle)
      BY <1>0, <2>1, <2>2, EndMoves
    <2>3. ASSUME pin[c] \in {NoIdent, e}, NEW n \in Given(c), n \in Nat,
                 Step(c, t, Bundled(c, t, e, n))
          PROVE  Moves
      <3> DEFINE k == Bundled(c, t, e, n)
                 o == Outbound(<<Peer(c), n>>, e)
      <3>0. At(c, t, "fetch")
        BY <1>6 DEF Fetch
      <3>1. k.at = "pin" /\ k.loaded = NoSession /\ k.copy = o
        BY <2>3, <3>0, BundledFields
      <3>2. Modest(c, t, k)
        BY <1>0, <2>1, <2>3, <3>1 DEF Modest
      <3>3. task'[Peer(c)] = task[Peer(c)]
        BY <1>0, <1>6, PeerFacts DEF Fetch, TaskOK, End, Do
      <3>4. n \in Spent(Peer(c))'
        BY <2>1, <3>3, GivenSpent DEF Sound
      <3>5. SessOK(c, o)'
        BY <2>1, <3>4, PeerFacts, <1>0 DEF SessOK, IsSpent, Outbound, HistOK
      <3>6. \A s \in {row'[c], k.loaded, k.copy} \ {NoSession} : s \in SessionsOf(c) \/ SessOK(c, s)'
        BY <2>1, <3>1, <3>5, OwnSessions
      <3>7. k.at \notin ReadSteps
        BY <3>1 DEF ReadSteps
      <3> HIDE DEF k, o
      <3> QED
        BY <2>1, <3>2, <3>6, <3>7, ModestMoves
    <2> QED
      BY <1>6, <2>2, <2>3, FetchStep
  <1>7. ASSUME NEW t \in Tasks, NEW e \in Idents, FetchStray(c, t, e) PROVE Moves
    <2>0. PICK n : n = faults + 1
      OBVIOUS
    <2> DEFINE k == Strayed(c, t, e)
               o == Outbound(<<Stranger, n>>, e)
    <2>1. /\ At(c, t, "fetch") /\ Step(c, t, k) /\ Fault /\ e # Real
          /\ UNCHANGED <<row, used, sent, made, wire>>
          /\ \A d \in Clients : pool'[d] \subseteq pool[d]
      BY <1>7, StrayStep DEF vaultRows, history, Fault
    <2>2. k.at = "save" /\ k.loaded = NoSession /\ New(c, k.copy) /\ k.copy = o
      BY <2>0, <2>1, StrayedFields
    <2>3. Modest(c, t, k) /\ k.at \notin ReadSteps
      BY <1>0, <2>1, <2>2 DEF Modest, ReadSteps
    <2>4. n \in 1..faults'
      BY <1>0, <2>0, <2>1 DEF FaultsGrown, Fault
    <2>5. 0 <= sent' /\ Stranger # c
      <3>1. sent \in Nat
        BY <1>0 DEF HistOK
      <3>2. sent' = sent
        BY <2>1 DEF Fault
      <3> QED
        BY <3>1, <3>2, PeerFacts
    <2>6. SessOK(c, o)'
      BY <2>1, <2>4, <2>5 DEF SessOK, IsSpent, Outbound
    <2>7. \A s \in {row'[c], k.loaded, k.copy} \ {NoSession} : s \in SessionsOf(c) \/ SessOK(c, s)'
      BY <2>1, <2>2, <2>6, OwnSessions
    <2> HIDE DEF k, o
    <2> QED
      BY <2>1, <2>3, <2>7, ModestMoves
  <1> QED
    BY <1>1, <1>2, <1>3, <1>4, <1>5, <1>6, <1>7

\* New keys are nobody's until they are published, and then the relay's.
LEMMA KeyMoves ==
  ASSUME Types, Sound, NEW c \in Clients, Replenish(c) \/ SaveKeys(c) \/ PublishKeys(c)
  PROVE  Moves
  <1>0. /\ RowsOK /\ WireOK /\ TaskOK /\ HistOK /\ JobsOK /\ sent \in Nat /\ "cmd" \in Tasks
        /\ FaultsGrown
    BY FaultsGrow DEF Types, Shape, HistOK, Tasks, Operation
  <1>1. CASE Replenish(c)
    <2>1. UNCHANGED <<row, used, sent, made, wire, pool>>
      BY <1>1 DEF Replenish, Order, vaultRows, relay, history
    <2>2. Step(c, "cmd", RenewJob(c)) /\ RenewJob(c).at = "renew"
          /\ RenewJob(c).loaded = NoSession /\ RenewJob(c).copy = NoSession
      BY <1>1, RenewStep
    <2>3. Modest(c, "cmd", RenewJob(c)) /\ RenewJob(c).at \notin ReadSteps
      BY <1>0, <2>1, <2>2 DEF Modest, ReadSteps
    <2> QED
      BY <1>0, <2>1, <2>2, <2>3, OwnSessions, ModestMoves
  <1>2. CASE SaveKeys(c) \/ PublishKeys(c)
    <2>1. UNCHANGED <<row, used, sent, wire>>
      BY <1>2 DEF SaveKeys, PublishKeys, vaultRows, count, history
    <2>2. PICK k : /\ Step(c, "cmd", k) /\ k \in {Idle, Moved(task[c]["cmd"], "publish")}
      BY <1>2, KeysStep, EndSteps
    <2>3. /\ k.loaded \in {task[c]["cmd"].loaded, NoSession}
          /\ k.copy \in {task[c]["cmd"].copy, NoSession} /\ task[c]["cmd"] \in Jobs
      BY <1>0, <2>2, MovedJob, IdleJob DEF TaskOK, CmdSteps
    <2>4. \A d \in Clients : FramesTo(d)' \subseteq FramesTo(d)
      BY <1>0, <2>1, <2>2, StepHand DEF FramesTo
    <2>5. \A d \in Clients : SessionsOf(d)' \subseteq SessionsOf(d)
      <3>1. \A d \in Clients : d # c => SessionsOf(d)' \subseteq SessionsOf(d)
        BY <1>0, <2>1, <2>2, StepSessions
      <3>2. \A s \in SessionsOf(c)' :
               s \in SessionsOf(c) \/ s \in {row'[c], k.loaded, k.copy} \ {NoSession}
        BY <1>0, <2>1, <2>2, StepSessions
      <3> QED
        BY <1>0, <2>1, <2>3, <3>1, <3>2, OwnSessions
    <2>6. \A d \in Clients : d # c => Spent(d) \subseteq Spent(d)'
      <3> SUFFICES ASSUME NEW d \in Clients, d # c PROVE Spent(d) \subseteq Spent(d)'
        OBVIOUS
      <3>1. made'[d] = made[d] /\ pool'[d] = pool[d]
        BY <1>0, <1>2 DEF SaveKeys, PublishKeys, RowsOK
      <3>2. At(d, "cmd", "publish")' <=> At(d, "cmd", "publish")
        BY <1>0, <2>2, StepHand
      <3> QED
        BY <3>1, <3>2, SpentMore
    <2>7. Spent(c) \subseteq Spent(c)'
      <3>1. CASE SaveKeys(c)
        <4>1. made'[c] = made[c] + 1 /\ pool'[c] = pool[c] /\ made[c] \in Nat
              /\ ~At(c, "cmd", "publish")
          BY <1>0, <3>1 DEF SaveKeys, RowsOK, At
        <4> QED
          BY <4>1 DEF Spent
      <3>2. CASE PublishKeys(c)
        <4>1. made'[c] = made[c] /\ pool'[c] = pool[c] \cup {made[c]} /\ At(c, "cmd", "publish")
          BY <1>0, <3>2 DEF PublishKeys, RowsOK
        <4> QED
          BY <4>1 DEF Spent
      <3> QED
        BY <1>2, <3>1, <3>2
    <2>8. Grows
      BY <1>0, <2>1, <2>6, <2>7 DEF Grows
    <2> QED
      BY <2>4, <2>5, <2>8 DEF Moves
  <1> QED
    BY <1>1, <1>2

LEMMA ReceiveMoves ==
  ASSUME Types, Sound, NEW c \in Clients,
         \/ Receive(c) \/ CreateInbound(c) \/ SaveAccount(c) \/ Deliver(c)
         \/ \E e \in Idents : FetchSender(c, e)
  PROVE  Moves
  <1>0. /\ RowsOK /\ WireOK /\ TaskOK /\ HistOK /\ JobsOK /\ sent \in Nat
        /\ "proc" \in Tasks /\ task[c]["proc"] \in Jobs /\ FaultsGrown
    BY FaultsGrow DEF Types, Shape, HistOK, TaskOK, Tasks, Operation
  <1>1. CASE Receive(c)
    <2> DEFINE f == Head(wire[c])
    <2>1. /\ f \in Frames /\ wire[c] \in Seq(Frames) /\ wire[c] # <<>>
          /\ wire' = [wire EXCEPT ![c] = Tail(@)]
          /\ UNCHANGED <<row, used, sent, made, pool>>
      BY <1>1, ReceiveStep DEF Receive, vaultRows, count, history
    <2>2. f \in FramesTo(c) /\ \A d \in Clients : On(wire[d])' \subseteq On(wire[d])
      BY <1>0, <2>1, OnTail DEF FramesTo, WireOK
    <2>3. CASE Reads(row[c], f) /\ Step(c, "proc", ReadJob(c, f))
      <3> DEFINE k == ReadJob(c, f)
      <3>1. k.at = "rsave" /\ k.frame = f /\ k.loaded = row[c]
            /\ k.copy = [row[c] EXCEPT !.rcv = @ \cup {f.idx}]
        BY <2>1, <2>3, ReadJobFields
      <3>2. Modest(c, "proc", k)
        BY <1>0, <2>1, <2>3, <3>1 DEF Modest
      <3>3. PICK r : r = row[c]
        OBVIOUS
      <3>4. PICK q : q = k.copy
        OBVIOUS
      <3>5. r \in SessionsOf(c) /\ r \in Sessions
        BY <1>0, <2>3, <3>3, OwnSessions, TypedSessions DEF Reads
      <3>6. SessOK(c, r)'
        BY <1>0, <3>2, <3>5, ModestGrows, SessMore DEF Sound, SessionsOK
      <3>7. q.key = r.key /\ q.snd = r.snd /\ q.rcv # {} /\ q.key[1] # Stranger
        BY <2>3, <3>1, <3>3, <3>4, <3>5 DEF Sessions, Reads
      <3>8. SessOK(c, q)'
        BY <3>6, <3>7 DEF SessOK
      <3>9. row' = row
        BY <2>1
      <3> HIDE DEF k, f
      <3>10. \A s \in {row'[c], k.loaded, k.copy} \ {NoSession} : s \in SessionsOf(c) \/ SessOK(c, s)'
        BY <3>1, <3>3, <3>4, <3>5, <3>8, <3>9
      <3> QED
        BY <1>0, <2>1, <2>2, <3>1, <3>2, <3>10, ModestMoves
    <2>4. CASE UNCHANGED task
      <3>1. Grows
        BY <1>0, <2>1, <2>4 DEF Grows, Spent, At
      <3> QED
        BY <2>1, <2>2, <2>4, <3>1 DEF Moves, FramesTo, InHand, SessionsOf
    <2>5. ASSUME NEW a \in {"rfetch", "inbound"}, Step(c, "proc", FirstJob(c, f, a))
          PROVE  Moves
      <3> DEFINE k == FirstJob(c, f, a)
      <3>1. k.at = a /\ k.frame = f /\ k.loaded = row[c] /\ k.copy = NoSession
        BY <2>1, FirstJobFields
      <3>2. Modest(c, "proc", k)
        BY <1>0, <2>1, <2>5, <3>1 DEF Modest
      <3> HIDE DEF k, f
      <3>3. \A s \in {row'[c], k.loaded, k.copy} \ {NoSession} : s \in SessionsOf(c)
        BY <1>0, <2>1, <3>1, OwnSessions
      <3> QED
        BY <1>0, <2>1, <2>2, <3>1, <3>2, <3>3, ModestMoves
    <2> QED
      BY <1>1, <2>3, <2>4, <2>5, ReceiveStep
  <1>2. CASE CreateInbound(c)
    <2>1. UNCHANGED <<row, used, sent, made, wire, pool>>
      BY <1>2 DEF CreateInbound, vaultRows, relay, count, history
    <2>2. CASE Step(c, "proc", Idle)
      BY <1>0, <2>1, <2>2, EndMoves
    <2>3. CASE ~Step(c, "proc", Idle)
      <3>1. /\ Step(c, "proc", Opened(c)) /\ task[c]["proc"].at = "inbound"
            /\ Opened(c).at = "asave" /\ Opened(c).frame = task[c]["proc"].frame
            /\ Opened(c).loaded = task[c]["proc"].loaded
            /\ Opened(c).copy = task[c]["proc"].copy
        BY <1>2, <2>3, InboundStep
      <3> QED
        BY <1>0, <2>1, <3>1, OnwardMoves DEF ReadSteps
    <2> QED
      BY <2>2, <2>3
  <1>3. CASE SaveAccount(c)
    <2>1. UNCHANGED <<row, used, sent, made, wire, pool>>
      BY <1>3 DEF SaveAccount, relay, count
    <2>2. task[c]["proc"].at = "asave" /\ Step(c, "proc", Moved(task[c]["proc"], "isave"))
      BY <1>3, AccountStep
    <2> QED
      BY <1>0, <2>1, <2>2, MovedJob, OnwardMoves DEF ReadSteps
  <1>4. CASE Deliver(c)
    <2> DEFINE k == task[c]["proc"]
               s == IF k.at = "rsave" THEN k.copy ELSE Inbound(k.frame)
    <2>1. /\ k.at \in {"rsave", "isave"} /\ k.frame \in Frames
          /\ JobOK(c, "proc", k) /\ row' = [row EXCEPT ![c] = s]
          /\ UNCHANGED <<relay, count, used>>
      BY <1>4, DeliverFacts
    <2>2. UNCHANGED <<used, sent, made, wire, pool>> /\ Step(c, "proc", Idle)
      BY <1>4, <2>1, EndSteps DEF relay, count
    <2>3. Modest(c, "proc", Idle) /\ Idle.at \notin ReadSteps
      BY <1>0, <2>2, IdleJob DEF Modest, ReadSteps
    <2>4. PICK q : q = s
      OBVIOUS
    <2>5. SessOK(c, q)' \/ q \in SessionsOf(c)
      <3>1. CASE k.at = "rsave"
        <4>1. k.copy # NoSession
          BY <2>1, <3>1, OlmConstants DEF JobOK
        <4> QED
          BY <1>0, <2>4, <3>1, <4>1, OwnSessions
      <3>2. CASE k.at = "isave"
        <4>1. PICK f : f = k.frame
          OBVIOUS
        <4>2. f \in FramesTo(c) /\ f \in Frames
          BY <1>0, <2>1, <3>2, <4>1, OwnSessions DEF ReadSteps
        <4>3. FrameOK(c, f)'
          BY <1>0, <2>1, <2>3, <4>2, ModestGrows, FrameMore DEF Sound, FramesOK
        <4>4. q = Inbound(f)
          BY <2>4, <3>2, <4>1
        <4>5. q.key = f.key /\ q.snd = 0 /\ q.rcv # {}
          BY <4>2, <4>4, InboundFields
        <4>6. UsedBy(Peer(c), f.key)'
          <5>1. <<f.key, f.idx>> \in used'[Peer(c)]
            BY <4>3 DEF FrameOK
          <5>2. <<f.key, f.idx>>[1] = f.key
            OBVIOUS
          <5> QED
            BY <5>1, <5>2 DEF UsedBy
        <4>7. IsSpent(f.key)' /\ 0 <= sent'
          BY <1>0, <2>2, <4>3 DEF FrameOK
        <4>8. f.key[1] # Stranger
          BY <2>1, <3>2, <4>1, <4>3 DEF FrameOK, JobOK
        <4> HIDE DEF k, s
        <4> QED
          BY <4>5, <4>6, <4>7, <4>8 DEF SessOK
      <3> QED
        BY <2>1, <3>1, <3>2
    <2>6. (\A d \in Clients : d # c => row'[d] = row[d]) /\ row'[c] = q
      BY <1>0, <2>1, <2>4 DEF RowsOK
    <2>7. \A r \in {row'[c], Idle.loaded, Idle.copy} \ {NoSession} :
             r \in SessionsOf(c) \/ SessOK(c, r)'
      BY <2>5, <2>6, IdleJob
    <2> HIDE DEF k, s
    <2> QED
      BY <1>0, <2>2, <2>3, <2>6, <2>7, ModestMoves
  <1>5. ASSUME NEW e \in Idents, FetchSender(c, e) PROVE Moves
    <2>1. /\ UNCHANGED <<row, used, sent, made, wire>>
          /\ \A d \in Clients : pool'[d] \subseteq pool[d]
      BY <1>0, <1>5, AnswerCounts DEF FetchSender, vaultRows, history, RowsOK
    <2>2. CASE Step(c, "proc", Idle)
      BY <1>0, <2>1, <2>2, EndMoves
    <2>3. CASE ~Step(c, "proc", Idle)
      <3>1. /\ Step(c, "proc", Greeted(c, e)) /\ task[c]["proc"].at = "rfetch"
            /\ Greeted(c, e).at = "rpin" /\ Greeted(c, e).frame = task[c]["proc"].frame
            /\ Greeted(c, e).loaded = task[c]["proc"].loaded
            /\ Greeted(c, e).copy = task[c]["proc"].copy
        BY <1>5, <2>3, SenderStep
      <3> QED
        BY <1>0, <2>1, <3>1, OnwardMoves DEF ReadSteps
    <2> QED
      BY <2>2, <2>3
  <1> QED
    BY <1>1, <1>2, <1>3, <1>4, <1>5

LEMMA FaultMoves ==
  ASSUME Types, Sound, NEW c \in Clients, Crash(c) \/ Redeliver(c)
  PROVE  Moves
  <1>0. /\ RowsOK /\ WireOK /\ TaskOK /\ sent \in Nat /\ "cmd" \in Tasks /\ "proc" \in Tasks
        /\ wire[c] \in Seq(Frames) /\ FaultsGrown
    BY FaultsGrow DEF Types, Shape, HistOK, Tasks, WireOK, Operation
  <1>1. UNCHANGED <<row, used, sent, made, pool>>
    BY DEF Crash, Redeliver, Fault, vaultRows, history
  <1>2. \A d \in Clients : On(wire[d])' \subseteq On(wire[d])
    <2>1. CASE Crash(c)
      <3>1. PICK n \in 0..Len(wire[c]) :
               wire' = [wire EXCEPT ![c] = SubSeq(wire[c], n + 1, Len(wire[c]))]
        BY <2>1 DEF Crash
      <3>2. On(SubSeq(wire[c], n + 1, Len(wire[c]))) \subseteq On(wire[c])
        BY <1>0, OnRest
      <3> QED
        BY <1>0, <3>1, <3>2 DEF WireOK
    <2>2. CASE Redeliver(c)
      <3>1. wire[c] # <<>> /\ wire' = [wire EXCEPT ![c] = <<Head(wire[c])>> \o wire[c]]
        BY <2>2 DEF Redeliver
      <3>2. On(<<Head(wire[c])>> \o wire[c]) \subseteq On(wire[c])
        BY <1>0, <3>1, OnAgain
      <3> QED
        BY <1>0, <3>1, <3>2 DEF WireOK
    <2> QED
      BY <2>1, <2>2
  <1>3. \A d \in Clients, t \in Tasks : task'[d][t] \in {Idle, task[d][t]}
    BY CrashTasks DEF Redeliver
  <1>4. \A d \in Clients : At(d, "cmd", "publish")' => At(d, "cmd", "publish")
    BY <1>0, <1>3, IdleJob DEF At
  <1>5. Grows
    BY <1>0, <1>1, <1>4, SpentMore DEF Grows
  <1>6. \A d \in Clients : FramesTo(d)' \subseteq FramesTo(d)
    <2>1. \A d \in Clients : InHand(d)' \subseteq InHand(d)
      BY <1>0, <1>3, IdleJob DEF InHand, ReadSteps
    <2> QED
      BY <1>2, <2>1 DEF FramesTo
  <1>7. \A d \in Clients : SessionsOf(d)' \subseteq SessionsOf(d)
    BY <1>1, <1>3, IdleJob DEF SessionsOf
  <1> QED
    BY <1>5, <1>6, <1>7 DEF Moves

\* A send, or the end of start_dm, leaves its session in the row; the send puts a
\* frame on the other's wire.
LEMMA SaveMoves ==
  ASSUME Types, Sound, NEW c \in Clients, NEW t \in Tasks, SaveSend(c, t)
  PROVE  /\ Grows
         /\ \A d \in Clients : \A s \in SessionsOf(d)' : s \in SessionsOf(d) \/ SessOK(d, s)'
         /\ \/ \A d \in Clients : FramesTo(d)' \subseteq FramesTo(d)
            \/ \E f \in Frames :
                  /\ f.no = sent + 1 /\ sent' = sent + 1 /\ FrameOK(Peer(c), f)'
                  /\ FramesTo(Peer(c))' \subseteq FramesTo(Peer(c)) \cup {f}
                  /\ FramesTo(c)' \subseteq FramesTo(c)
  <1> DEFINE k == task[c][t]
  <1>0. /\ RowsOK /\ WireOK /\ TaskOK /\ HistOK /\ sent \in Nat /\ "cmd" \in Tasks
        /\ Peer(c) \in Clients /\ Peer(c) # c /\ Peer(Peer(c)) = c
        /\ \A d \in Clients : d = c \/ d = Peer(c)
        /\ FaultsGrown /\ Stranger # c /\ Stranger # Peer(c)
    BY FaultsGrow, PeerFacts DEF Types, Shape, HistOK, Tasks, Operation
  <1>1a. PICK s \in Sessions : \E f :
           /\ k \in Jobs /\ k.at = "save" /\ k.copy \in Sessions
           /\ k.loaded \in Maybe
           /\ IF k.loaded = NoSession THEN New(c, k.copy)
              ELSE k.copy = k.loaded
           /\ s.key = k.copy.key /\ s.ident = k.copy.ident
           /\ s.rcv = k.copy.rcv /\ row' = [row EXCEPT ![c] = s]
           /\ UNCHANGED <<otks, pin, pool, made, got, ops, faults, left>>
           /\ Overtakes(c, row[c] # k.loaded)
           /\ starters' = IF k.loaded = NoSession THEN starters \cup {c} ELSE starters
           /\ k.op = "start" =>
                 UNCHANGED <<wire, sent, used, reused>> /\ s.snd = k.copy.snd
           /\ k.op # "start" =>
                 /\ s.snd = k.copy.snd + 1 /\ f \in Frames
                 /\ f.key = k.copy.key /\ f.ident = k.copy.ident
                 /\ f.idx = k.copy.snd
                 /\ f.pre = (k.copy.rcv = {}) /\ f.no = sent + 1
                 /\ wire' = [wire EXCEPT ![Peer(c)] = Append(@, f)]
                 /\ sent' = sent + 1
                 /\ used' = [used EXCEPT ![c] = @ \cup {<<f.key, f.idx>>}]
                 /\ reused' = IF <<f.key, f.idx>> \in used[c] THEN reused \cup {c} ELSE reused
    BY SaveSendNames
  <1>1. PICK f :
           /\ s \in Sessions /\ k \in Jobs /\ k.at = "save" /\ k.copy \in Sessions
           /\ k.loaded \in Maybe
           /\ IF k.loaded = NoSession THEN New(c, k.copy)
              ELSE k.copy = k.loaded
           /\ s.key = k.copy.key /\ s.ident = k.copy.ident
           /\ s.rcv = k.copy.rcv /\ row' = [row EXCEPT ![c] = s]
           /\ UNCHANGED <<otks, pin, pool, made, got, ops, faults, left>>
           /\ Overtakes(c, row[c] # k.loaded)
           /\ starters' = IF k.loaded = NoSession THEN starters \cup {c} ELSE starters
           /\ k.op = "start" =>
                 UNCHANGED <<wire, sent, used, reused>> /\ s.snd = k.copy.snd
           /\ k.op # "start" =>
                 /\ s.snd = k.copy.snd + 1 /\ f \in Frames
                 /\ f.key = k.copy.key /\ f.ident = k.copy.ident
                 /\ f.idx = k.copy.snd
                 /\ f.pre = (k.copy.rcv = {}) /\ f.no = sent + 1
                 /\ wire' = [wire EXCEPT ![Peer(c)] = Append(@, f)]
                 /\ sent' = sent + 1
                 /\ used' = [used EXCEPT ![c] = @ \cup {<<f.key, f.idx>>}]
                 /\ reused' = IF <<f.key, f.idx>> \in used[c] THEN reused \cup {c} ELSE reused
    BY <1>1a
  <1>2. PICK q : q = k.copy
    OBVIOUS
  <1>3. q \in SessionsOf(c) /\ q \in Sessions /\ SessOK(c, q) /\ q.snd \in Nat
        /\ q.key[1] \in {c, Peer(c), Stranger}
    BY <1>0, <1>1, <1>2, OwnSessions, OlmConstants DEF Sound, SessionsOK, Sessions
  <1>4. PICK j : Step(c, t, j) /\ j.at \in {"idle", "delete"}
                 /\ j.loaded \in {k.loaded, NoSession} /\ j.copy \in {k.copy, NoSession}
    <2>1. k \in Jobs
      BY <1>1
    <2>2. CASE k.op = "left"
      BY <2>1, <2>2, SaveStep, MovedJob DEF CmdSteps
    <2>3. CASE k.op # "left"
      BY <2>3, SaveStep, IdleJob
    <2> QED
      BY <2>2, <2>3
  <1> HIDE DEF k
  <1>5. Grows
    <2>1. \A d \in Clients : used[d] \subseteq used'[d]
      BY <1>0, <1>1 DEF HistOK
    <2>2. \A d \in Clients : At(d, "cmd", "publish")' => At(d, "cmd", "publish")
      <3> SUFFICES ASSUME NEW d \in Clients PROVE At(d, "cmd", "publish")' => At(d, "cmd", "publish")
        OBVIOUS
      <3>1. CASE d = c /\ t = "cmd"
        BY <1>4, <3>1, StepHand
      <3>2. CASE ~(d = c /\ t = "cmd")
        BY <1>0, <1>4, <3>2, StepHand
      <3> QED
        BY <3>1, <3>2
    <2>3. \A d \in Clients : Spent(d) \subseteq Spent(d)'
      BY <1>1, <2>2, SpentMore
    <2>4. sent' \in Nat /\ sent <= sent'
      BY <1>0, <1>1
    <2> QED
      BY <1>0, <2>1, <2>3, <2>4 DEF Grows
  <1>6. SessOK(c, q)'
    BY <1>3, <1>5, SessMore
  <1>7. SessOK(c, s)'
    <2>1. s.snd <= sent'
      BY <1>0, <1>1, <1>2, <1>3 DEF SessOK
    <2> QED
      BY <1>1, <1>2, <1>6, <2>1 DEF SessOK
  <1>8. \A d \in Clients : \A r \in SessionsOf(d)' : r \in SessionsOf(d) \/ SessOK(d, r)'
    <2>1. row'[c] = s /\ \A d \in Clients : d # c => row'[d] = row[d]
      BY <1>0, <1>1 DEF RowsOK
    <2>2. \A d \in Clients : d # c => SessionsOf(d)' \subseteq SessionsOf(d)
      BY <1>4, <2>1, StepSessions
    <2>3. \A r \in SessionsOf(c)' :
             r \in SessionsOf(c) \/ r \in {row'[c], j.loaded, j.copy} \ {NoSession}
      BY <1>4, <2>1, StepSessions
    <2>4. \A r \in {j.loaded, j.copy} \ {NoSession} : r \in SessionsOf(c)
      BY <1>4, OwnSessions DEF k
    <2> QED
      BY <1>7, <2>1, <2>2, <2>3, <2>4
  <1>9. \A d \in Clients : InHand(d)' \subseteq InHand(d)
    <2> SUFFICES ASSUME NEW d \in Clients PROVE InHand(d)' \subseteq InHand(d)
      OBVIOUS
    <2>1. CASE d # c \/ t = "cmd"
      BY <1>4, <2>1, StepHand
    <2>2. CASE d = c /\ t = "proc"
      BY <1>4, <2>2, StepHand DEF ReadSteps
    <2> QED
      BY <2>1, <2>2 DEF Tasks
  <1>10. CASE k.op = "start"
    BY <1>1, <1>5, <1>8, <1>9, <1>10 DEF FramesTo
  <1>11. CASE k.op # "start"
    <2>1. wire[Peer(c)] \in Seq(Frames)
      BY <1>0 DEF WireOK
    <2>2. On(wire[Peer(c)])' = On(wire[Peer(c)]) \cup {f} /\ On(wire[c])' = On(wire[c])
      BY <1>0, <1>1, <1>11, <2>1, OnAppend DEF WireOK
    <2>3. IsSpent(f.key)' /\ f.no \in 1..sent'
      BY <1>0, <1>1, <1>2, <1>6, <1>11 DEF SessOK
    <2>4. f.pre => f.key[1] # c
      BY <1>1, <1>2, <1>3, <1>11 DEF SessOK
    <2>5. <<f.key, f.idx>> \in used'[Peer(Peer(c))]
      BY <1>0, <1>1, <1>11 DEF HistOK
    <2>6. /\ f.key[1] = c => UsedBy(Peer(c), f.key)'
          /\ f.key[1] = Stranger => f.ident # Real
      BY <1>0, <1>1, <1>2, <1>3, <1>6, <1>11 DEF SessOK
    <2>7. FrameOK(Peer(c), f)'
      BY <1>0, <2>3, <2>4, <2>5, <2>6 DEF FrameOK
    <2> QED
      BY <1>0, <1>1, <1>5, <1>8, <1>9, <1>11, <2>2, <2>7 DEF FramesTo
  <1> QED
    BY <1>10, <1>11

----------------------------------------------------------------------------
(* The one-time keys.                                                      *)

\* What every step but the making of keys does to them.
Frugal ==
    /\ UNCHANGED made /\ \A d \in Clients : pool'[d] \subseteq pool[d]
    /\ \A d \in Clients : \A n \in otks'[d] :
          n \in otks[d] \/ \E t \in Tasks : n \in task[d][t].acct
    /\ \A d \in Clients, t \in Tasks : task'[d][t].acct \in {{}, task[d][t].acct, otks[d]}
    /\ \A d \in Clients : At(d, "cmd", "publish")' => At(d, "cmd", "publish")

LEMMA FrugalStep ==
  ASSUME Types, NEW c \in Clients, NEW t \in Tasks, NEW k, Step(c, t, k), k.at # "publish",
         k.acct \in {{}, task[c][t].acct, otks[c]}, UNCHANGED made,
         \A d \in Clients : \A n \in otks'[d] :
             n \in otks[d] \/ \E r \in Tasks : n \in task[d][r].acct,
         \A d \in Clients : pool'[d] \subseteq pool[d]
  PROVE  Frugal
  <1>1. ASSUME NEW d \in Clients, NEW r \in Tasks
        PROVE  task'[d][r].acct \in {{}, task[d][r].acct, otks[d]}
    <2>1. CASE d = c /\ r = t
      BY <2>1 DEF Step
    <2>2. CASE d # c \/ r # t
      BY <2>2 DEF Step
    <2> QED
      BY <2>1, <2>2
  <1>2. ASSUME NEW d \in Clients, At(d, "cmd", "publish")' PROVE At(d, "cmd", "publish")
    <2>1. ~(d = c /\ t = "cmd")
      BY <1>2 DEF Step, At
    <2> QED
      BY <1>2, <2>1 DEF Step, At, Tasks
  <1> QED
    BY <1>1, <1>2 DEF Frugal

LEMMA FrugalStill ==
  ASSUME Types, UNCHANGED <<otks, made, task, pool>>
  PROVE  Frugal
  BY DEF Frugal, At

LEMMA SendFrugal ==
  ASSUME Types, NEW c \in Clients,
         \/ Sends(c) \/ OpensChat(c) \/ DeleteChat(c)
         \/ \E t \in Tasks : FetchFails(c, t) \/ PinContact(c, t) \/ SaveSend(c, t)
         \/ \E t \in Tasks, e \in Idents : Fetch(c, t, e) \/ FetchStray(c, t, e)
  PROVE  Frugal
  <1>0. RowsOK /\ TaskOK /\ "cmd" \in Tasks
    BY DEF Types, Shape, Tasks
  <1>1. CASE Sends(c)
    <2>1. PICK t \in Tasks, op \in {"start", "text", "control", "left"},
               a \in {"fetch", "save", "delete"} : Step(c, t, SendJob(c, op, a))
      BY <1>1, SendsStep
    <2>2. SendJob(c, op, a).at = a /\ SendJob(c, op, a).acct = {}
      BY <1>0, SendJobFields
    <2>3. UNCHANGED <<otks, made, pool>>
      BY <1>1, SendsStep DEF vaultRows, relay
    <2> QED
      BY <2>1, <2>2, <2>3, FrugalStep
  <1>2. CASE OpensChat(c)
    BY <1>2, FrugalStill DEF OpensChat, StartDm, Begin, relay
  <1>3. CASE DeleteChat(c)
    BY <1>0, <1>3, EndSteps, IdleJob, FrugalStep DEF DeleteChat, relay
  <1>4. ASSUME NEW t \in Tasks, FetchFails(c, t) PROVE Frugal
    BY <1>4, EndSteps, IdleJob, FailsPool, FrugalStep DEF FetchFails, vaultRows
  <1>5. ASSUME NEW t \in Tasks, PinContact(c, t) PROVE Frugal
    <2>1. UNCHANGED <<otks, made, pool>> /\ task[c][t] \in Jobs
      BY <1>0, <1>5 DEF PinContact, relay, TaskOK
    <2>2. ASSUME NEW a \in {"save", "inbound"}, Step(c, t, Moved(task[c][t], a)) PROVE Frugal
      <3>1. Moved(task[c][t], a).at = a /\ Moved(task[c][t], a).acct = task[c][t].acct
        BY <2>1, MovedJob DEF SendSteps, ReadSteps
      <3> QED
        BY <2>1, <2>2, <3>1, FrugalStep
    <2> QED
      BY <1>5, <2>2, PinStep
  <1>6. ASSUME NEW t \in Tasks, SaveSend(c, t) PROVE Frugal
    <2>1. UNCHANGED <<otks, made, pool>> /\ task[c][t] \in Jobs
      BY <1>6, SaveSendNames
    <2>2. CASE Step(c, t, Moved(task[c][t], "delete"))
      <3>1. Moved(task[c][t], "delete").at = "delete"
            /\ Moved(task[c][t], "delete").acct = task[c][t].acct
        BY <2>1, MovedJob DEF CmdSteps
      <3> QED
        BY <2>1, <2>2, <3>1, FrugalStep
    <2>3. CASE Step(c, t, Idle)
      BY <2>1, <2>3, IdleJob, FrugalStep
    <2> QED
      BY <1>6, <2>2, <2>3, SaveStep
  <1>7. ASSUME NEW t \in Tasks, NEW e \in Idents, Fetch(c, t, e) PROVE Frugal
    <2>1. UNCHANGED <<otks, made>> /\ \A d \in Clients : pool'[d] \subseteq pool[d]
      BY <1>0, <1>7 DEF Fetch, vaultRows, RowsOK
    <2>2. CASE Step(c, t, Idle)
      BY <2>1, <2>2, IdleJob, FrugalStep
    <2>3. ASSUME pin[c] \in {NoIdent, e}, NEW n \in Given(c), n \in Nat,
                 Step(c, t, Bundled(c, t, e, n))
          PROVE  Frugal
      <3> DEFINE k == Bundled(c, t, e, n)
      <3>1. k.at = "pin" /\ k.acct = task[c][t].acct
        BY <1>0 DEF TaskOK, Jobs, Bundled
      <3>2. Step(c, t, k)
        BY <2>3
      <3> HIDE DEF k
      <3> QED
        BY <2>1, <3>1, <3>2, FrugalStep
    <2> QED
      BY <1>7, <2>2, <2>3, FetchStep
  <1>8. ASSUME NEW t \in Tasks, NEW e \in Idents, FetchStray(c, t, e) PROVE Frugal
    <2> DEFINE k == Strayed(c, t, e)
    <2>1. /\ At(c, t, "fetch") /\ e # Real /\ Step(c, t, k) /\ UNCHANGED <<otks, made>>
          /\ \A d \in Clients : pool'[d] \subseteq pool[d]
      BY <1>8, StrayStep DEF vaultRows
    <2>2. k.at = "save" /\ k.acct = task[c][t].acct
      BY <2>1, StrayedFields
    <2> HIDE DEF k
    <2> QED
      BY <2>1, <2>2, FrugalStep
  <1> QED
    BY <1>1, <1>2, <1>3, <1>4, <1>5, <1>6, <1>7, <1>8

LEMMA ReceiveFrugal ==
  ASSUME Types, NEW c \in Clients,
         \/ Receive(c) \/ CreateInbound(c) \/ SaveAccount(c) \/ Deliver(c)
         \/ (\E e \in Idents : FetchSender(c, e)) \/ Replenish(c)
         \/ Crash(c) \/ Redeliver(c)
  PROVE  Frugal
  <1>0. RowsOK /\ TaskOK /\ "proc" \in Tasks /\ "cmd" \in Tasks /\ task[c]["proc"] \in Jobs
    BY DEF Types, Shape, Tasks, TaskOK
  <1>1. CASE Receive(c)
    <2> DEFINE f == Head(wire[c])
    <2>1. UNCHANGED <<otks, made, pool>>
      BY <1>1 DEF Receive, vaultRows
    <2>2. f \in Frames
      BY <1>1, ReceiveStep
    <2>3. CASE UNCHANGED task
      BY <2>1, <2>3, FrugalStill
    <2>4. CASE Reads(row[c], f) /\ Step(c, "proc", ReadJob(c, f))
      <3>1. ReadJob(c, f).at = "rsave" /\ ReadJob(c, f).acct = {}
        BY ZenonT(30), <2>2, <2>4, ReadJobFields
      <3> QED
        BY <1>0, <2>1, <2>4, <3>1, FrugalStep
    <2>5. ASSUME NEW a \in {"rfetch", "inbound"}, Step(c, "proc", FirstJob(c, f, a))
          PROVE  Frugal
      <3>1. FirstJob(c, f, a).at = a /\ FirstJob(c, f, a).acct = {}
        BY <2>2, FirstJobFields
      <3> QED
        BY <1>0, <2>1, <2>5, <3>1, FrugalStep
    <2> QED
      BY <1>1, <2>3, <2>4, <2>5, ReceiveStep
  <1>2. CASE CreateInbound(c)
    <2>1. UNCHANGED <<otks, made, pool>>
      BY <1>2 DEF CreateInbound, vaultRows, relay
    <2>2. CASE Step(c, "proc", Idle)
      BY <1>0, <2>1, <2>2, IdleJob, FrugalStep
    <2>3. CASE ~Step(c, "proc", Idle)
      <3>1. Step(c, "proc", Opened(c)) /\ Opened(c).at = "asave" /\ Opened(c).acct = otks[c]
        BY <1>2, <2>3, InboundStep
      <3> QED
        BY <1>0, <2>1, <3>1, FrugalStep
    <2> QED
      BY <2>2, <2>3
  <1>3. CASE SaveAccount(c)
    <2>1. UNCHANGED <<made, pool>>
          /\ \A d \in Clients : \A n \in otks'[d] :
                n \in otks[d] \/ \E r \in Tasks : n \in task[d][r].acct
      BY <1>0, <1>3 DEF SaveAccount, relay, RowsOK
    <2>2. Moved(task[c]["proc"], "isave").at = "isave"
          /\ Moved(task[c]["proc"], "isave").acct = task[c]["proc"].acct
      BY <1>0, MovedJob DEF ReadSteps
    <2> QED
      BY <1>0, <1>3, <2>1, <2>2, AccountStep, FrugalStep
  <1>4. CASE Deliver(c)
    BY <1>0, <1>4, EndSteps, IdleJob, FrugalStep DEF Deliver, relay
  <1>5. ASSUME NEW e \in Idents, FetchSender(c, e) PROVE Frugal
    <2>1. UNCHANGED <<otks, made>> /\ \A d \in Clients : pool'[d] \subseteq pool[d]
      BY <1>0, <1>5 DEF FetchSender, vaultRows, RowsOK
    <2>2. CASE Step(c, "proc", Idle)
      BY <1>0, <2>1, <2>2, IdleJob, FrugalStep
    <2>3. CASE ~Step(c, "proc", Idle)
      <3>1. /\ Step(c, "proc", Greeted(c, e)) /\ Greeted(c, e).at = "rpin"
            /\ Greeted(c, e).acct = task[c]["proc"].acct
        BY <1>5, <2>3, SenderStep
      <3> QED
        BY <1>0, <2>1, <3>1, FrugalStep
    <2> QED
      BY <2>2, <2>3
  <1>6. CASE Replenish(c)
    <2>1. UNCHANGED <<otks, made, pool>>
      BY <1>6 DEF Replenish, vaultRows, relay
    <2> QED
      BY <1>0, <1>6, <2>1, RenewStep, FrugalStep
  <1>7. CASE Crash(c)
    <2>1. UNCHANGED <<otks, made, pool>>
      BY <1>7 DEF Crash
    <2>2. \A d \in Clients, t \in Tasks : task'[d][t] \in {Idle, task[d][t]}
      BY <1>7, CrashTasks
    <2> QED
      BY <1>0, <2>1, <2>2, IdleJob DEF Frugal, At
  <1>8. CASE Redeliver(c)
    BY <1>8, FrugalStill DEF Redeliver, vaultRows
  <1> QED
    BY <1>1, <1>2, <1>3, <1>4, <1>5, <1>6, <1>7, <1>8

LEMMA KeysKept ==
  ASSUME Types, KeysOK, Frugal, Grows,
         \A d \in Clients : \A u \in used'[d] : u \in used[d] \/ IsSpent(u[1])'
  PROVE  KeysOK'
  <1> SUFFICES ASSUME NEW d \in Clients
               PROVE  /\ otks'[d] \subseteq 1..made'[d] /\ pool'[d] \subseteq 1..made'[d]
                      /\ \A t \in Tasks : task'[d][t].acct \subseteq 1..made'[d]
                      /\ At(d, "cmd", "publish")' =>
                            made'[d] \in Nat \ {0} /\ made'[d] \notin pool'[d]
                      /\ \A u \in used'[d] : IsSpent(u[1])'
    BY DEF KeysOK
  <1>1. made'[d] = made[d]
    BY DEF Frugal
  <1>2. otks'[d] \subseteq 1..made[d]
    BY DEF Frugal, KeysOK
  <1>3. pool'[d] \subseteq 1..made[d]
    BY DEF Frugal, KeysOK
  <1>4. \A t \in Tasks : task'[d][t].acct \subseteq 1..made[d]
    BY DEF Frugal, KeysOK
  <1>5. At(d, "cmd", "publish")' => made[d] \in Nat \ {0} /\ made[d] \notin pool'[d]
    BY DEF Frugal, KeysOK
  <1>6. ASSUME NEW u \in used'[d] PROVE IsSpent(u[1])'
    <2>1. CASE u \in used[d]
      <3>1. u[1][1] \in Clients \cup {Stranger} /\ u[1][2] \in Nat
        BY <2>1 DEF Types, Shape, HistOK, Keys
      <3>2. IsSpent(u[1])
        BY <2>1 DEF KeysOK
      <3> QED
        BY <3>1, <3>2 DEF IsSpent, Grows, FaultsGrown
    <2> QED
      BY <2>1
  <1> QED
    BY <1>1, <1>2, <1>3, <1>4, <1>5, <1>6

----------------------------------------------------------------------------
(* What no step but a send does.                                           *)

Others(c) ==
    \/ Sends(c) \/ OpensChat(c) \/ DeleteChat(c)
    \/ (\E t \in Tasks : FetchFails(c, t) \/ PinContact(c, t))
    \/ (\E t \in Tasks, e \in Idents : Fetch(c, t, e) \/ FetchStray(c, t, e))
    \/ Replenish(c) \/ SaveKeys(c) \/ PublishKeys(c)
    \/ Receive(c) \/ CreateInbound(c) \/ SaveAccount(c) \/ Deliver(c)
    \/ (\E e \in Idents : FetchSender(c, e))
    \/ Crash(c) \/ Redeliver(c)

LEMMA NextOthers ==
  ASSUME [Next]_vars
  PROVE  \/ UNCHANGED vars
         \/ \E c \in Clients : Others(c) \/ \E t \in Tasks : SaveSend(c, t)
  BY NextCases DEF Others

LEMMA OthersStill ==
  ASSUME Types, NEW c \in Clients, Others(c)
  PROVE  UNCHANGED <<used, reused, starters, sent>>
  <1>0. HistOK
    BY DEF Types, Shape
  <1>1. CASE Sends(c)
    BY <1>1, SendsStep DEF history
  <1>2. CASE OpensChat(c)
    BY <1>2 DEF OpensChat, StartDm, Begin, Order, history
  <1>3. CASE DeleteChat(c)
    BY <1>3 DEF DeleteChat, count
  <1>4. ASSUME NEW t \in Tasks, FetchFails(c, t) \/ PinContact(c, t)
        PROVE  UNCHANGED <<used, reused, starters, sent>>
    BY <1>4 DEF FetchFails, PinContact, Fault, count, history
  <1>5. ASSUME NEW t \in Tasks, NEW e \in Idents, Fetch(c, t, e)
        PROVE  UNCHANGED <<used, reused, starters, sent>>
    BY <1>0, <1>5, AnswerCounts DEF Fetch, history
  <1>6. CASE Replenish(c) \/ SaveKeys(c) \/ PublishKeys(c)
    BY <1>6 DEF Replenish, SaveKeys, PublishKeys, Order, count, history
  <1>7. CASE Receive(c) \/ CreateInbound(c) \/ SaveAccount(c) \/ Deliver(c)
    BY <1>7 DEF Receive, CreateInbound, SaveAccount, Deliver, count, history
  <1>8. ASSUME NEW e \in Idents, FetchSender(c, e)
        PROVE  UNCHANGED <<used, reused, starters, sent>>
    BY <1>0, <1>8, AnswerCounts DEF FetchSender, history
  <1>9. CASE \/ Crash(c) \/ Redeliver(c)
             \/ \E t \in Tasks, e \in Idents : FetchStray(c, t, e)
    BY <1>9 DEF Crash, Redeliver, FetchStray, Fault, history
  <1> QED
    BY <1>1, <1>2, <1>3, <1>4, <1>5, <1>6, <1>7, <1>8, <1>9 DEF Others

LEMMA OthersMove ==
  ASSUME Types, Sound, NEW c \in Clients, Others(c)
  PROVE  Moves
  BY SendMoves, KeyMoves, ReceiveMoves, FaultMoves DEF Others

\* A frame is read or refused after it was on its way.
Answered ==
    \A d \in Clients :
       /\ \A n \in refused'[d] : n \in refused[d] \/ \E f \in FramesTo(d) : n = f.no
       /\ \/ read'[d] = read[d]
          \/ \E f \in FramesTo(d) : read'[d] = Append(read[d], f.no)

LEMMA AnsweredRefuse ==
  ASSUME Types, NEW c \in Clients, NEW f \in FramesTo(c),
         UNCHANGED refused \/ Refuse(c, f), UNCHANGED read
  PROVE  Answered
  <1>1. f \in Frames
    BY TypedFrames
  <1>2. \A d \in Clients : \A n \in refused'[d] : n \in refused[d] \/ (d = c /\ n = f.no)
    BY ZenonT(30), <1>1, RefusedTypes DEF Types, Shape
  <1> QED
    BY <1>2 DEF Answered

LEMMA NextAnswered ==
  ASSUME Types, [Next]_vars
  PROVE  Answered
  <1>0. HistOK /\ RowsOK /\ TaskOK /\ "proc" \in Tasks
    BY DEF Types, Shape, Tasks
  <1>1. CASE UNCHANGED <<refused, read>>
    BY <1>1 DEF Answered
  <1>2. ASSUME NEW c \in Clients, Receive(c) PROVE Answered
    <2>1. UNCHANGED read /\ wire[c] \in Seq(Frames) /\ wire[c] # <<>>
      BY <1>2, ReceiveStep DEF Receive
    <2>2. Head(wire[c]) \in FramesTo(c)
      BY <2>1, OnTail DEF FramesTo
    <2> QED
      BY <1>2, <2>1, <2>2, ReceiveStep, AnsweredRefuse
  <1>3. ASSUME NEW c \in Clients, CreateInbound(c) PROVE Answered
    <2>1. UNCHANGED read /\ task[c]["proc"].frame \in FramesTo(c)
      BY <1>0, <1>3, InboundStep, OwnSessions DEF CreateInbound, ReadSteps
    <2> QED
      BY <1>3, <2>1, InboundStep, AnsweredRefuse
  <1>4. ASSUME NEW c \in Clients, NEW e \in Idents, FetchSender(c, e) PROVE Answered
    <2>1. UNCHANGED read /\ task[c]["proc"].frame \in FramesTo(c)
      BY <1>0, <1>4, SenderStep, OwnSessions DEF FetchSender, ReadSteps
    <2> QED
      BY <1>4, <2>1, SenderStep, AnsweredRefuse
  <1>5. ASSUME NEW c \in Clients, NEW t \in Tasks, FetchFails(c, t) PROVE Answered
    <2>1. UNCHANGED read /\ task[c][t].at \in {"fetch", "rfetch"} /\ JobOK(c, t, task[c][t])
      BY <1>5 DEF FetchFails, Types, JobsOK
    <2>2. CASE At(c, t, "rfetch")
      <3>1. t = "proc" /\ task[c][t].frame \in FramesTo(c)
        BY <1>0, <2>1, <2>2, OwnSessions DEF JobOK, ReadSteps, At
      <3>2. Refuse(c, task[c][t].frame)
        BY <1>5, <2>2 DEF FetchFails, Refuse
      <3> QED
        BY <2>1, <3>1, <3>2, AnsweredRefuse
    <2> QED
      BY <1>1, <1>5, <2>1, <2>2 DEF FetchFails
  <1>6. ASSUME NEW c \in Clients, Deliver(c) PROVE Answered
    <2> DEFINE k == task[c]["proc"]
    <2>1. /\ UNCHANGED refused /\ k.at \in {"rsave", "isave"}
          /\ read' = [read EXCEPT ![c] = Append(@, k.frame.no)]
      BY <1>6, DeliverFacts
    <2>2. k.frame \in FramesTo(c)
      BY <1>0, <2>1, OwnSessions DEF ReadSteps
    <2> QED
      BY <1>0, <2>1, <2>2 DEF Answered, HistOK
  <1>7. ASSUME NEW c \in Clients,
               \/ Sends(c) \/ OpensChat(c) \/ DeleteChat(c)
               \/ (\E t \in Tasks : PinContact(c, t) \/ SaveSend(c, t))
               \/ (\E t \in Tasks, e \in Idents : Fetch(c, t, e) \/ FetchStray(c, t, e))
               \/ Replenish(c) \/ SaveKeys(c) \/ PublishKeys(c) \/ SaveAccount(c)
               \/ Crash(c) \/ Redeliver(c)
        PROVE  UNCHANGED <<refused, read>>
    <2>1. Sends(c) => UNCHANGED <<refused, read>>
      BY SendsStep DEF got
    <2>2. OpensChat(c) => UNCHANGED <<refused, read>>
      BY DEF OpensChat, StartDm, Begin, got
    <2> QED
      BY <1>7, <2>1, <2>2 DEF DeleteChat, PinContact, SaveSend, Fetch, FetchStray, Replenish,
                         SaveKeys, PublishKeys, SaveAccount, Crash, Redeliver, got
  <1>8. CASE UNCHANGED vars
    BY <1>1, <1>8 DEF vars, got
  <1> QED
    BY <1>1, <1>2, <1>3, <1>4, <1>5, <1>6, <1>7, <1>8, NextCases

----------------------------------------------------------------------------
(* Sound is an invariant.                                                  *)

LEMMA StillMoves ==
  ASSUME Types, UNCHANGED <<row, used, sent, faults, made, wire, pool, task>>
  PROVE  Moves
  <1>1. sent \in Nat /\ FaultsGrown
    BY OlmConstants DEF Types, Shape, HistOK, FaultsGrown
  <1>2. Grows
    BY <1>1 DEF Grows, Spent, At
  <1> QED
    BY <1>2 DEF Moves, FramesTo, InHand, SessionsOf

LEMMA NumberedKept ==
  ASSUME Types, FramesOK, Numbered, Answered, Grows
  PROVE  Numbered'
  <1> SUFFICES ASSUME NEW d \in Clients
               PROVE  /\ refused'[d] \subseteq 1..sent'
                      /\ \A i \in 1..Len(read'[d]) : read'[d][i] \in 1..sent'
    BY DEF Numbered
  <1>1. sent \in Nat /\ sent' \in Nat /\ sent <= sent' /\ read[d] \in Seq(Nat)
    BY DEF Types, Shape, HistOK, Grows
  <1>2. \A n \in 1..sent : n \in 1..sent'
    BY <1>1
  <1>3. \A f \in FramesTo(d) : f.no \in 1..sent /\ f.no \in Nat
    <2>1. \A f \in FramesTo(d) : f.no \in 1..sent
      BY DEF FramesOK, FrameOK
    <2>2. \A n \in 1..sent : n \in Nat
      BY <1>1
    <2> QED
      BY <2>1, <2>2
  <1>4. refused'[d] \subseteq 1..sent'
    BY <1>2, <1>3 DEF Answered, Numbered
  <1>5. CASE read'[d] = read[d]
    BY <1>2, <1>4, <1>5 DEF Numbered
  <1>6. ASSUME NEW f \in FramesTo(d), read'[d] = Append(read[d], f.no)
        PROVE  \A i \in 1..Len(read'[d]) : read'[d][i] \in 1..sent'
    <2> SUFFICES ASSUME NEW i \in 1..Len(read'[d]) PROVE read'[d][i] \in 1..sent'
      OBVIOUS
    <2>1. \/ i \in 1..Len(read[d]) /\ read'[d][i] = read[d][i]
          \/ read'[d][i] = f.no
      BY <1>1, <1>3, <1>6, AppendProperties
    <2> QED
      BY <1>2, <1>3, <2>1 DEF Numbered
  <1> QED
    BY <1>4, <1>5, <1>6 DEF Answered

LEMMA KeysMade ==
  ASSUME Types, KeysOK, NEW c \in Clients, SaveKeys(c) \/ PublishKeys(c), Grows,
         UNCHANGED used
  PROVE  KeysOK'
  <1>0. RowsOK /\ TaskOK /\ "cmd" \in Tasks /\ "proc" \in Tasks /\ made[c] \in Nat
    BY DEF Types, Shape, Tasks, RowsOK
  <1> SUFFICES ASSUME NEW d \in Clients
               PROVE  /\ otks'[d] \subseteq 1..made'[d] /\ pool'[d] \subseteq 1..made'[d]
                      /\ \A t \in Tasks : task'[d][t].acct \subseteq 1..made'[d]
                      /\ At(d, "cmd", "publish")' =>
                            made'[d] \in Nat \ {0} /\ made'[d] \notin pool'[d]
                      /\ \A u \in used'[d] : IsSpent(u[1])'
    BY DEF KeysOK
  <1>1. ASSUME NEW u \in used'[d] PROVE IsSpent(u[1])'
    <2>1. u \in used[d] /\ u[1][1] \in Clients \cup {Stranger} /\ u[1][2] \in Nat
      BY <1>1 DEF Types, Shape, HistOK, Keys
    <2>2. IsSpent(u[1])
      BY <2>1 DEF KeysOK
    <2> QED
      BY <2>1, <2>2 DEF IsSpent, Grows, FaultsGrown
  <1>2. PICK k : /\ Step(c, "cmd", k) /\ k.acct \in {{}, task[c]["cmd"].acct}
                 /\ k.at = "publish" => SaveKeys(c)
    <2>1. CASE SaveKeys(c)
      <3>1. task[c]["cmd"] \in Jobs
        BY <1>0 DEF TaskOK
      <3>2. Moved(task[c]["cmd"], "publish").acct = task[c]["cmd"].acct
        BY <3>1, MovedJob DEF CmdSteps
      <3> QED
        BY <2>1, <3>2, KeysStep
    <2>2. CASE PublishKeys(c)
      BY <2>2, EndSteps, IdleJob
    <2> QED
      BY <2>1, <2>2
  <1>3. \A t \in Tasks : task'[d][t].acct \in {{}, task[d][t].acct}
    <2> SUFFICES ASSUME NEW t \in Tasks PROVE task'[d][t].acct \in {{}, task[d][t].acct}
      OBVIOUS
    <2>1. CASE d = c /\ t = "cmd"
      BY <1>2, <2>1 DEF Step
    <2>2. CASE ~(d = c /\ t = "cmd")
      BY <1>2, <2>2 DEF Step
    <2> QED
      BY <2>1, <2>2
  <1>4. CASE d # c
    <2>1. made'[d] = made[d] /\ pool'[d] = pool[d] /\ otks'[d] = otks[d]
      BY <1>0, <1>4 DEF SaveKeys, PublishKeys, RowsOK, vaultRows
    <2>2. At(d, "cmd", "publish")' => At(d, "cmd", "publish")
      BY <1>0, <1>2, <1>4, StepHand
    <2> QED
      BY <1>1, <1>3, <2>1, <2>2 DEF KeysOK
  <1>5. CASE d = c /\ SaveKeys(c)
    <2>1. /\ made'[c] = made[c] + 1 /\ pool'[c] = pool[c]
          /\ otks'[c] = task[c]["cmd"].acct \cup {made[c] + 1}
      BY <1>0, <1>5 DEF SaveKeys, RowsOK
    <2>2. \A n \in 1..made[c] : n \in 1..made'[c] /\ n # made'[c]
      BY <1>0, <2>1
    <2>3. made'[c] \in 1..made'[c] /\ made'[c] \in Nat \ {0}
      BY <1>0, <2>1
    <2> QED
      BY <1>0, <1>1, <1>3, <1>5, <2>1, <2>2, <2>3 DEF KeysOK
  <1>6. CASE d = c /\ PublishKeys(c) /\ ~SaveKeys(c)
    <2>1. /\ made'[c] = made[c] /\ pool'[c] = pool[c] \cup {made[c]} /\ otks'[c] = otks[c]
          /\ At(c, "cmd", "publish")
      BY <1>0, <1>6 DEF PublishKeys, RowsOK, vaultRows
    <2>2. ~At(c, "cmd", "publish")'
      BY <1>0, <1>2, <1>6, StepHand
    <2>3. made[c] \in 1..made[c]
      BY <1>0, <2>1 DEF KeysOK
    <2> QED
      BY <1>1, <1>3, <1>6, <2>1, <2>2, <2>3 DEF KeysOK
  <1> QED
    BY <1>4, <1>5, <1>6

LEMMA StillSound ==
  ASSUME Types, Sound, Moves, KeysOK', Answered
  PROVE  Sound'
  <1>1. Grows /\ SessionsOK' /\ FramesOK' /\ Distinct'
    BY SessionsKept, FramesKept DEF Moves, Sound
  <1>2. Numbered'
    BY <1>1, NumberedKept DEF Sound
  <1> QED
    BY <1>1, <1>2 DEF Sound

LEMMA SaveSound ==
  ASSUME Types, Sound, NEW c \in Clients, NEW t \in Tasks, SaveSend(c, t), Answered
  PROVE  Sound'
  <1>0. Peer(c) \in Clients /\ Peer(c) # c /\ \A d \in Clients : d = c \/ d = Peer(c)
    BY PeerFacts
  <1>1. Grows /\ SessionsOK' /\ Numbered'
    BY SaveMoves, SessionsKept, NumberedKept DEF Sound
  <1>2. KeysOK'
    <2>1. ASSUME NEW d \in Clients, NEW u \in used'[d] PROVE u \in used[d] \/ IsSpent(u[1])'
      <3>1. task[c][t].copy \in Sessions
        <4>1. JobOK(c, t, task[c][t]) /\ task[c][t].at = "save"
          BY DEF Types, JobsOK, SaveSend, At
        <4> QED
          BY <4>1 DEF JobOK
      <3>2. PICK q : q = task[c][t].copy
        OBVIOUS
      <3>3. q \in SessionsOf(c) /\ q \in Sessions
        BY <3>1, <3>2, OwnSessions, OlmConstants
      <3>4. SessOK(c, q)'
        BY <1>1, <3>3, SessMore DEF Sound, SessionsOK
      <3>5. CASE u \notin used[d]
        <4>1. PICK f : f = Frame(task[c][t].copy, task[c][t].op)
          OBVIOUS
        <4>2. used' = used \/ used' = [used EXCEPT ![c] = @ \cup {<<f.key, f.idx>>}]
          BY <4>1 DEF SaveSend
        <4>3. u = <<f.key, f.idx>> /\ f.key = q.key
          <5>1. f.key = q.key
            BY <3>2, <4>1 DEF Frame
          <5>2. used'[d] \subseteq used[d] \cup {<<f.key, f.idx>>}
            BY <4>2 DEF Types, Shape, HistOK
          <5> QED
            BY <2>1, <3>5, <5>1, <5>2
        <4>4. u[1] = q.key
          BY <4>3
        <4> QED
          BY <3>4, <4>4 DEF SessOK
      <3> QED
        BY <3>5
    <2> QED
      BY <1>1, <2>1, SendFrugal, KeysKept DEF Sound
  <1>3. CASE \A d \in Clients : FramesTo(d)' \subseteq FramesTo(d)
    BY <1>1, <1>2, <1>3, FramesKept DEF Sound
  <1>4. ASSUME NEW f \in Frames, f.no = sent + 1, FrameOK(Peer(c), f)',
               FramesTo(Peer(c))' \subseteq FramesTo(Peer(c)) \cup {f},
               FramesTo(c)' \subseteq FramesTo(c)
        PROVE  Sound'
    <2>1. \A d \in Clients : \A g \in FramesTo(d) : FrameOK(d, g)' /\ g.no # f.no
      <3> SUFFICES ASSUME NEW d \in Clients, NEW g \in FramesTo(d)
                   PROVE  FrameOK(d, g)' /\ g.no # f.no
        OBVIOUS
      <3>1. g \in Frames /\ FrameOK(d, g)
        BY TypedFrames DEF Sound, FramesOK
      <3>2. g.no \in 1..sent /\ sent \in Nat
        BY <3>1 DEF FrameOK, Types, Shape, HistOK
      <3> QED
        BY <1>1, <1>4, <3>1, <3>2, FrameMore
    <2>2. FramesOK'
      <3> SUFFICES ASSUME NEW d \in Clients, NEW g \in FramesTo(d)' PROVE FrameOK(d, g)'
        BY DEF FramesOK
      <3>1. g \in FramesTo(d) \/ (g = f /\ d = Peer(c))
        BY <1>0, <1>4
      <3> QED
        BY <1>4, <2>1, <3>1
    <2>3. Distinct'
      <3> SUFFICES ASSUME NEW d \in Clients, NEW g \in FramesTo(d)', NEW h \in FramesTo(d)',
                          g.no = h.no
                   PROVE  g = h
        BY DEF Distinct
      <3>1. g \in FramesTo(d) \cup {f} /\ h \in FramesTo(d) \cup {f}
        BY <1>0, <1>4
      <3> QED
        BY <2>1, <3>1 DEF Sound, Distinct
    <2> QED
      BY <1>1, <1>2, <2>2, <2>3 DEF Sound
  <1> QED
    BY <1>3, <1>4, SaveMoves

LEMMA NextSound == Types /\ Sound /\ [Next]_vars => Sound'
  <1> SUFFICES ASSUME Types, Sound, [Next]_vars PROVE Sound'
    OBVIOUS
  <1>0. Answered
    BY NextAnswered
  <1>1. CASE UNCHANGED vars
    <2>1. UNCHANGED <<row, used, sent, faults, made, wire, pool, task, otks>>
      BY <1>1 DEF vars, vaultRows, relay, count, history
    <2>2. Moves /\ Frugal
      BY <2>1, StillMoves, FrugalStill
    <2>3. KeysOK'
      BY <2>1, <2>2, KeysKept DEF Sound, Moves
    <2> QED
      BY <1>0, <2>2, <2>3, StillSound
  <1>2. ASSUME NEW c \in Clients, Others(c) PROVE Sound'
    <2>1. Moves /\ UNCHANGED used
      BY <1>2, OthersStill, OthersMove
    <2>2. CASE SaveKeys(c) \/ PublishKeys(c)
      BY <1>0, <2>1, <2>2, KeysMade, StillSound DEF Sound, Moves
    <2>3. CASE ~(SaveKeys(c) \/ PublishKeys(c))
      <3>1. Frugal
        BY <1>2, <2>3, SendFrugal, ReceiveFrugal DEF Others
      <3>2. KeysOK'
        BY <2>1, <3>1, KeysKept DEF Sound, Moves
      <3> QED
        BY <1>0, <2>1, <3>2, StillSound
    <2> QED
      BY <2>2, <2>3
  <1> QED
    BY <1>0, <1>1, <1>2, SaveSound, NextOthers

LEMMA InitSound == Init => Sound
  <1> SUFFICES ASSUME Init PROVE Sound
    OBVIOUS
  <1>1. \A c \in Clients, t \in Tasks : task[c][t] = Idle
    BY DEF Init
  <1>2. \A c \in Clients : SessionsOf(c) = {} /\ FramesTo(c) = {}
    <2> SUFFICES ASSUME NEW c \in Clients PROVE SessionsOf(c) = {} /\ FramesTo(c) = {}
      OBVIOUS
    <2>1. row[c] = NoSession /\ wire[c] = <<>> /\ "proc" \in Tasks
      BY DEF Init, Tasks
    <2>2. SessionsOf(c) = {}
      BY <1>1, <2>1, IdleJob DEF SessionsOf
    <2>3. InHand(c) = {}
      BY <1>1, <2>1, IdleJob DEF InHand, ReadSteps
    <2>4. On(wire[c]) = {}
      BY <2>1 DEF On
    <2> QED
      BY <2>2, <2>3, <2>4 DEF FramesTo
  <1>3. KeysOK
    <2>1. \A c \in Clients : ~At(c, "cmd", "publish")
      BY <1>1, IdleJob DEF At, Tasks
    <2> QED
      BY <1>1, <2>1, IdleJob DEF Init, KeysOK
  <1>4. Numbered
    <2>1. \A c \in Clients : refused[c] = {} /\ Len(read[c]) = 0
      BY DEF Init
    <2>2. \A i \in 1..0 : FALSE
      OBVIOUS
    <2> QED
      BY <2>1, <2>2 DEF Numbered
  <1> QED
    BY <1>2, <1>3, <1>4 DEF Sound, SessionsOK, FramesOK, Distinct

----------------------------------------------------------------------------
(* Type correctness: the length of what was read needs a count.            *)

\* The processor takes a frame only off the wire.
LEMMA HandLess ==
  ASSUME NEW c \in Clients, NEW t \in Tasks, NEW k, Step(c, t, k),
         k.at \in ReadSteps => task[c]["proc"].at \in ReadSteps
  PROVE  \A d \in Clients : Hand(d)' <= Hand(d)
  <1> SUFFICES ASSUME NEW d \in Clients PROVE Hand(d)' <= Hand(d)
    OBVIOUS
  <1>1. Hand(d) \in {0, 1}
    BY DEF Hand
  <1>2. CASE d = c /\ t = "proc"
    BY <1>1, <1>2, StepHand DEF Hand
  <1>3. CASE ~(d = c /\ t = "proc")
    BY <1>1, <1>3, StepHand DEF Tasks
  <1> QED
    BY <1>2, <1>3

Quieter ==
    /\ UNCHANGED <<read, wire>> /\ \A d \in Clients : Hand(d)' <= Hand(d)
    /\ faults' \in Nat /\ faults <= faults'

LEMMA SendQuieter ==
  ASSUME Types, NEW c \in Clients,
         \/ Sends(c) \/ OpensChat(c) \/ DeleteChat(c)
         \/ \E t \in Tasks : FetchFails(c, t) \/ PinContact(c, t)
         \/ \E t \in Tasks, e \in Idents : Fetch(c, t, e) \/ FetchStray(c, t, e)
  PROVE  Quieter
  <1>0. RowsOK /\ HistOK /\ TaskOK /\ "cmd" \in Tasks /\ faults \in Nat
    BY DEF Types, Shape, Tasks, HistOK
  <1>1. CASE Sends(c)
    <2>1. PICK t \in Tasks, op \in {"start", "text", "control", "left"},
               a \in {"fetch", "save", "delete"} : Step(c, t, SendJob(c, op, a))
      BY <1>1, SendsStep
    <2>2. SendJob(c, op, a).at \notin ReadSteps
      BY <1>0, SendJobFields DEF ReadSteps
    <2>3. UNCHANGED <<read, wire, faults>>
      BY <1>1, SendsStep DEF got, relay
    <2> QED
      BY <1>0, <2>1, <2>2, <2>3, HandLess DEF Quieter
  <1>2. CASE OpensChat(c)
    <2>1. UNCHANGED <<read, wire, task, faults>>
      BY <1>2 DEF OpensChat, StartDm, Begin, Order, relay, got
    <2> QED
      BY <1>0, <2>1 DEF Quieter, Hand
  <1>3. CASE DeleteChat(c)
    <2>1. UNCHANGED <<read, wire, faults>> /\ Step(c, "cmd", Idle)
      BY <1>3, EndSteps DEF DeleteChat, relay, got, count
    <2>2. Idle.at \notin ReadSteps
      BY IdleJob DEF ReadSteps
    <2> QED
      BY <1>0, <2>1, <2>2, HandLess DEF Quieter
  <1>4. ASSUME NEW t \in Tasks, FetchFails(c, t) PROVE Quieter
    <2>1. UNCHANGED <<read, wire>> /\ faults' = faults + 1 /\ Step(c, t, Idle)
      BY <1>4, EndSteps DEF FetchFails, Fault
    <2>2. Idle.at \notin ReadSteps
      BY IdleJob DEF ReadSteps
    <2> QED
      BY <1>0, <2>1, <2>2, HandLess DEF Quieter
  <1>5. ASSUME NEW t \in Tasks, PinContact(c, t) PROVE Quieter
    <2>1. UNCHANGED <<read, wire, faults>> /\ task[c][t] \in Jobs
      BY <1>0, <1>5 DEF PinContact, relay, got, count, TaskOK
    <2>2. CASE At(c, t, "pin") /\ Step(c, t, Moved(task[c][t], "save"))
      <3>1. Moved(task[c][t], "save").at \notin ReadSteps
        BY <2>1, MovedJob DEF SendSteps, ReadSteps
      <3> QED
        BY <1>0, <2>1, <2>2, <3>1, HandLess DEF Quieter
    <2>3. CASE At(c, t, "rpin") /\ t = "proc" /\ Step(c, t, Moved(task[c][t], "inbound"))
      <3>1. task[c]["proc"].at \in ReadSteps
        BY <2>3 DEF At, ReadSteps
      <3> QED
        BY <1>0, <2>1, <2>3, <3>1, HandLess DEF Quieter
    <2> QED
      BY <1>5, <2>2, <2>3, PinStep
  <1>6. ASSUME NEW t \in Tasks, NEW e \in Idents, Fetch(c, t, e) PROVE Quieter
    <2>0. UNCHANGED <<read, wire>> /\ Answer(e)
      BY <1>6 DEF Fetch, got
    <2>1. UNCHANGED <<read, wire>> /\ faults' \in Nat /\ faults <= faults'
      BY <1>0, <2>0, AnswerCounts
    <2>2. CASE Step(c, t, Idle)
      <3>1. Idle.at \notin ReadSteps
        BY IdleJob DEF ReadSteps
      <3> QED
        BY <2>1, <2>2, <3>1, HandLess DEF Quieter
    <2>3. ASSUME NEW n \in Given(c), Step(c, t, Bundled(c, t, e, n)) PROVE Quieter
      <3>1. Bundled(c, t, e, n).at = "pin"
        BY <1>0 DEF TaskOK, Jobs, Bundled
      <3>2. Bundled(c, t, e, n).at \notin ReadSteps
        BY <3>1 DEF ReadSteps
      <3> QED
        BY <2>1, <2>3, <3>2, HandLess DEF Quieter
    <2> QED
      BY <1>6, <2>2, <2>3, FetchStep
  <1>7. ASSUME NEW t \in Tasks, NEW e \in Idents, FetchStray(c, t, e) PROVE Quieter
    <2> DEFINE k == Strayed(c, t, e)
    <2>1. /\ At(c, t, "fetch") /\ e # Real /\ Step(c, t, k)
          /\ UNCHANGED <<read, wire>> /\ faults' = faults + 1
      BY <1>7, StrayStep DEF got, Fault
    <2>2. k.at = "save"
      BY <2>1, StrayedFields
    <2>3. k.at \notin ReadSteps
      BY <2>2 DEF ReadSteps
    <2> HIDE DEF k
    <2> QED
      BY <1>0, <2>1, <2>3, HandLess DEF Quieter
  <1> QED
    BY <1>1, <1>2, <1>3, <1>4, <1>5, <1>6, <1>7

LEMMA ReceiveQuieter ==
  ASSUME Types, NEW c \in Clients,
         \/ CreateInbound(c) \/ SaveAccount(c) \/ (\E e \in Idents : FetchSender(c, e))
         \/ Replenish(c) \/ SaveKeys(c) \/ PublishKeys(c)
  PROVE  Quieter
  <1>0. /\ RowsOK /\ HistOK /\ TaskOK /\ "cmd" \in Tasks /\ "proc" \in Tasks
        /\ faults \in Nat /\ Idle.at \notin ReadSteps
    BY IdleJob DEF Types, Shape, Tasks, HistOK, ReadSteps
  <1>1. CASE CreateInbound(c)
    <2>1. UNCHANGED <<read, wire, faults>> /\ task[c]["proc"].at \in ReadSteps
      BY <1>1 DEF CreateInbound, relay, count, At, ReadSteps
    <2>2. Step(c, "proc", Idle) \/ Step(c, "proc", Opened(c))
      BY <1>1, InboundStep
    <2> QED
      BY <1>0, <2>1, <2>2, HandLess DEF Quieter
  <1>2. CASE SaveAccount(c)
    <2>1. UNCHANGED <<read, wire, faults>> /\ task[c]["proc"].at \in ReadSteps
      BY <1>2 DEF SaveAccount, relay, count, got, At, ReadSteps
    <2> QED
      BY <1>0, <1>2, <2>1, AccountStep, HandLess DEF Quieter
  <1>3. ASSUME NEW e \in Idents, FetchSender(c, e) PROVE Quieter
    <2>0. UNCHANGED <<read, wire>> /\ Answer(e) /\ task[c]["proc"].at \in ReadSteps
      BY <1>3 DEF FetchSender, At, ReadSteps
    <2>1. /\ UNCHANGED <<read, wire>> /\ task[c]["proc"].at \in ReadSteps
          /\ faults' \in Nat /\ faults <= faults'
      BY <1>0, <2>0, AnswerCounts
    <2>2. Step(c, "proc", Idle) \/ Step(c, "proc", Greeted(c, e))
      BY <1>3, SenderStep
    <2> QED
      BY <1>0, <2>1, <2>2, HandLess DEF Quieter
  <1>4. CASE Replenish(c)
    <2>1. UNCHANGED <<read, wire, faults>>
      BY <1>4 DEF Replenish, Order, relay, got
    <2>2. Step(c, "cmd", RenewJob(c)) /\ RenewJob(c).at \notin ReadSteps
      BY <1>4, RenewStep DEF ReadSteps
    <2> QED
      BY <1>0, <2>1, <2>2, HandLess DEF Quieter
  <1>5. CASE SaveKeys(c)
    <2>1. UNCHANGED <<read, wire, faults>> /\ task[c]["cmd"] \in Jobs
      BY <1>0, <1>5 DEF SaveKeys, got, count, TaskOK
    <2>2. Moved(task[c]["cmd"], "publish").at \notin ReadSteps
      BY <2>1, MovedJob DEF CmdSteps, ReadSteps
    <2> QED
      BY <1>0, <1>5, <2>1, <2>2, KeysStep, HandLess DEF Quieter
  <1>6. CASE PublishKeys(c)
    <2>1. UNCHANGED <<read, wire, faults>>
      BY <1>6 DEF PublishKeys, got, count
    <2> QED
      BY <1>0, <1>6, <2>1, EndSteps, HandLess DEF Quieter
  <1> QED
    BY <1>1, <1>2, <1>3, <1>4, <1>5, <1>6

LEMMA Adds ==
  /\ \A a, b \in Nat : \A h \in {0, 1} : a + b + h \in Nat
  /\ \A x, y, a, b, a1, b1 \in Nat : \A m \in {0, 1} :
        x + y <= a + b /\ a + b + m <= a1 + b1 => x + y + m <= a1 + b1
  /\ \A x, y, z \in Nat, x1, y1 \in Nat : \A m \in {0, 1} :
        x1 + y1 <= x + y + m /\ x + y + m <= z => x1 + y1 <= z
  OBVIOUS

LEMMA CarriedNat ==
  ASSUME Types, NEW c \in Clients
  PROVE  /\ Carried(c) \in Nat /\ Hand(c) \in {0, 1}
         /\ Len(read[c]) \in Nat /\ Len(wire[c]) \in Nat
         /\ sent \in Nat /\ faults \in Nat
         /\ Carried(c) = Len(read[c]) + Len(wire[c]) + Hand(c)
  <1>1. Len(read[c]) \in Nat /\ Len(wire[c]) \in Nat /\ sent \in Nat /\ faults \in Nat
    BY LenProperties DEF Types, Shape, HistOK, WireOK
  <1>2. Hand(c) \in {0, 1}
    BY DEF Hand
  <1>3. Carried(c) = Len(read[c]) + Len(wire[c]) + Hand(c)
    BY DEF Carried
  <1>4. Carried(c) \in Nat
    <2>1. PICK a, b, h : a = Len(read[c]) /\ b = Len(wire[c]) /\ h = Hand(c)
      OBVIOUS
    <2>2. a \in Nat /\ b \in Nat /\ h \in {0, 1}
      BY <1>1, <1>2, <2>1
    <2>3. Carried(c) = a + b + h
      BY <1>3, <2>1
    <2> QED
      BY <2>2, <2>3
  <1> QED
    BY <1>1, <1>2, <1>3, <1>4

LEMMA CarriedNext ==
  ASSUME Types', NEW c \in Clients
  PROVE  /\ Carried(c)' \in Nat /\ Hand(c)' \in {0, 1}
         /\ Len(read'[c]) \in Nat /\ Len(wire'[c]) \in Nat
         /\ sent' \in Nat /\ faults' \in Nat
         /\ Carried(c)' = Len(read'[c]) + Len(wire'[c]) + Hand(c)'
  <1>1. Len(read'[c]) \in Nat /\ Len(wire'[c]) \in Nat /\ sent' \in Nat /\ faults' \in Nat
    BY LenProperties DEF Types, Shape, HistOK, WireOK
  <1>2. Hand(c)' \in {0, 1}
    BY DEF Hand
  <1>3. Carried(c)' = Len(read'[c]) + Len(wire'[c]) + Hand(c)'
    BY DEF Carried
  <1>4. Carried(c)' \in Nat
    <2>1. PICK a, b, h : a = Len(read'[c]) /\ b = Len(wire'[c]) /\ h = Hand(c)'
      OBVIOUS
    <2>2. a \in Nat /\ b \in Nat /\ h \in {0, 1}
      BY <1>1, <1>2, <2>1
    <2>3. Carried(c)' = a + b + h
      BY <1>3, <2>1
    <2> QED
      BY <2>2, <2>3
  <1> QED
    BY <1>1, <1>2, <1>3, <1>4

\* Each client carries no more than before, or one more that is accounted for.
LEMMA CountedKept ==
  ASSUME Types, Types', Counted, NEW c \in Clients, NEW m \in {0, 1},
         Carried(c)' <= Carried(c) + m,
         \A d \in Clients : d # c => Carried(d)' <= Carried(d),
         sent + faults + m <= sent' + faults'
  PROVE  Counted'
  <1> SUFFICES ASSUME NEW d \in Clients PROVE Carried(d)' + Carried(Peer(d))' <= sent' + faults'
    BY DEF Counted
  <1>1. PICK p : p = Peer(d)
    OBVIOUS
  <1>2. p \in Clients /\ p # d /\ (c = d \/ c = p)
    BY <1>1, PeerFacts
  <1>3. /\ Carried(d) \in Nat /\ Carried(p) \in Nat /\ sent \in Nat /\ faults \in Nat
    BY <1>2, CarriedNat
  <1>4. /\ Carried(d)' \in Nat /\ Carried(p)' \in Nat /\ sent' \in Nat /\ faults' \in Nat
    BY <1>2, CarriedNext
  <1>5. Carried(d) + Carried(p) <= sent + faults
    BY <1>1 DEF Counted
  <1>6. Carried(d)' + Carried(p)' <= Carried(d) + Carried(p) + m
    BY <1>2, <1>3, <1>4
  <1>7. Carried(d)' + Carried(p)' <= sent' + faults'
    <2>1. Carried(d) + Carried(p) + m <= sent' + faults'
      BY <1>3, <1>4, <1>5, Adds
    <2>2. PICK y, z : y = sent' /\ z = faults'
      OBVIOUS
    <2>3. y \in Nat /\ z \in Nat
      BY <1>4, <2>2
    <2>4. y + z \in Nat
      BY <2>3
    <2> QED
      BY <1>3, <1>4, <1>6, <2>1, <2>2, <2>4, Adds
  <1>8. Peer(d)' = p
    BY <1>1 DEF Peer
  <1> QED
    BY <1>1, <1>7

LEMMA QuietCounted ==
  ASSUME Types, Types', Counted, NEW c \in Clients, Quieter, UNCHANGED sent
  PROVE  Counted'
  <1>1. ASSUME NEW d \in Clients PROVE Carried(d)' <= Carried(d)
    <2>1. PICK a, b, h, g : a = Len(read[d]) /\ b = Len(wire[d]) /\ h = Hand(d) /\ g = Hand(d)'
      OBVIOUS
    <2>2. a \in Nat /\ b \in Nat /\ h \in {0, 1} /\ g \in {0, 1} /\ g <= h
      BY <2>1, CarriedNat, CarriedNext DEF Quieter
    <2>3. Carried(d) = a + b + h /\ Carried(d)' = a + b + g
      BY <2>1 DEF Carried, Quieter
    <2> QED
      BY <2>2, <2>3
  <1>2. Carried(c)' <= Carried(c) + 0
    <2>1. Carried(c) \in Nat
      BY CarriedNat
    <2> QED
      BY <1>1, <2>1
  <1>3. sent + faults + 0 <= sent' + faults'
    <2>1. PICK x, y, z : x = sent /\ y = faults /\ z = faults'
      OBVIOUS
    <2>2. x \in Nat /\ y \in Nat /\ z \in Nat /\ y <= z /\ sent' = x
      BY <2>1, CarriedNat DEF Quieter
    <2>3. x + y + 0 <= x + z
      BY <2>2
    <2> QED
      BY <2>1, <2>2, <2>3
  <1> QED
    BY <1>1, <1>2, <1>3, CountedKept

\* A step of one client that changes what it carries by at most m, under so many
\* more messages or faults.
LEMMA OneCounted ==
  ASSUME Types, Types', Counted, NEW c \in Clients, NEW m \in {0, 1},
         \A d \in Clients : d # c => read'[d] = read[d] /\ wire'[d] = wire[d] /\ Hand(d)' = Hand(d),
         NEW a, NEW b, NEW h, NEW a1, NEW b1, NEW h1,
         a = Len(read[c]), b = Len(wire[c]), h = Hand(c),
         a1 = Len(read'[c]), b1 = Len(wire'[c]), h1 = Hand(c)',
         a1 + b1 + h1 <= a + b + h + m,
         \/ m = 0 /\ sent' = sent /\ faults' = faults
         \/ m = 1 /\ sent' = sent + 1 /\ faults' = faults
         \/ sent' = sent /\ faults' = faults + 1
  PROVE  Counted'
  <1>1. Carried(c) = a + b + h /\ Carried(c)' = a1 + b1 + h1
    BY DEF Carried
  <1>2. Carried(c)' <= Carried(c) + m
    BY <1>1
  <1>3. ASSUME NEW d \in Clients, d # c PROVE Carried(d)' <= Carried(d)
    <2>1. Carried(d)' = Carried(d) /\ Carried(d) \in Nat
      BY <1>3, CarriedNat DEF Carried
    <2> QED
      BY <2>1
  <1>4. sent + faults + m <= sent' + faults'
    <2>1. PICK x, y : x = sent /\ y = faults
      OBVIOUS
    <2>2. x \in Nat /\ y \in Nat
      BY <2>1, CarriedNat
    <2>3. /\ x + y + 0 <= x + y /\ x + y + 1 <= (x + 1) + y
          /\ x + y + m <= x + (y + 1)
      BY <2>2
    <2> QED
      BY <2>1, <2>3
  <1> QED
    BY <1>2, <1>3, <1>4, CountedKept

LEMMA NextCounted ==
  ASSUME Types, Types', Counted, [Next]_vars
  PROVE  Counted'
  <1>0. /\ RowsOK /\ WireOK /\ TaskOK /\ HistOK /\ "cmd" \in Tasks /\ "proc" \in Tasks
        /\ Idle.at \notin ReadSteps
    BY IdleJob DEF Types, Shape, Tasks, ReadSteps
  <1>1. CASE UNCHANGED vars
    BY <1>1 DEF vars, relay, got, count, Counted, Carried, Hand, Peer
  <1>2. ASSUME NEW c \in Clients, Receive(c) PROVE Counted'
    <2>1. /\ wire[c] \in Seq(Frames) /\ wire[c] # <<>> /\ task[c]["proc"] = Idle
          /\ wire' = [wire EXCEPT ![c] = Tail(wire[c])] /\ UNCHANGED <<read, sent, faults>>
      BY <1>2, ReceiveStep DEF Receive, count
    <2>2. Len(wire'[c]) = Len(wire[c]) - 1
      BY <1>0, <2>1, OnTail DEF WireOK
    <2>3. \A d \in Clients : d # c => wire'[d] = wire[d] /\ Hand(d)' = Hand(d)
      <3>1. \A d \in Clients : d # c => task'[d] = task[d]
        BY <1>0, <1>2 DEF Receive, Do, TaskOK
      <3> QED
        BY <1>0, <2>1, <3>1 DEF WireOK, Hand
    <2>4. PICK a, b, h1 : a = Len(read[c]) /\ b = Len(wire[c]) /\ h1 = Hand(c)'
      OBVIOUS
    <2>5. a \in Nat /\ b \in Nat /\ h1 \in {0, 1} /\ Hand(c) = 0
      BY <1>0, <2>1, <2>4, CarriedNat, CarriedNext DEF Hand
    <2>6. a + (b - 1) + h1 <= a + b + 0 + 0
      BY <2>5
    <2>7. Len(read'[c]) = a /\ Len(wire'[c]) = b - 1 /\ \A d \in Clients : read'[d] = read[d]
      BY <2>1, <2>2, <2>4
    <2> QED
      BY <2>1, <2>3, <2>4, <2>5, <2>6, <2>7, OneCounted
  <1>3. ASSUME NEW c \in Clients, Deliver(c) PROVE Counted'
    <2>1. /\ read' = [read EXCEPT ![c] = Append(@, task[c]["proc"].frame.no)]
          /\ UNCHANGED <<wire, sent, faults>> /\ task[c]["proc"].at \in ReadSteps
          /\ task[c]["proc"].frame.no \in Nat
      BY <1>3, DeliverFacts DEF relay, count, ReadSteps
    <2>2. Len(read'[c]) = Len(read[c]) + 1 /\ \A d \in Clients : d # c => read'[d] = read[d]
      <3>1. read[c] \in Seq(Nat)
        BY <1>0 DEF HistOK
      <3>2. read'[c] = Append(read[c], task[c]["proc"].frame.no)
        BY <1>0, <2>1 DEF HistOK
      <3> QED
        BY <1>0, <2>1, <3>1, <3>2, AppendProperties DEF HistOK
    <2>3. Hand(c) = 1 /\ Hand(c)' = 0 /\ \A d \in Clients : d # c => Hand(d)' = Hand(d)
      BY <1>0, <1>3, <2>1, EndSteps, StepHand DEF Hand
    <2>4. PICK a, b : a = Len(read[c]) /\ b = Len(wire[c])
      OBVIOUS
    <2>5. a \in Nat /\ b \in Nat
      BY <2>4, CarriedNat
    <2>6. (a + 1) + b + 0 <= a + b + 1 + 0
      BY <2>5
    <2>7. Len(read'[c]) = a + 1 /\ Len(wire'[c]) = b /\ \A d \in Clients : wire'[d] = wire[d]
      BY <2>1, <2>2, <2>4
    <2> QED
      BY <2>1, <2>2, <2>3, <2>4, <2>6, <2>7, OneCounted
  <1>4. ASSUME NEW c \in Clients, NEW t \in Tasks, SaveSend(c, t) PROVE Counted'
    <2>0. PICK p : p = Peer(c)
      OBVIOUS
    <2>1. p \in Clients /\ p # c
      BY <2>0, PeerFacts
    <2>2. UNCHANGED <<read, faults>>
      BY <1>4, SaveSendNames DEF got
    <2>3. \A d \in Clients : Hand(d)' = Hand(d)
      <3>1. task[c][t].at = "save"
        BY <1>4 DEF SaveSend, At
      <3>2. PICK k : Step(c, t, k) /\ k.at \notin ReadSteps
        <4>1. task[c][t] \in Jobs
          BY <1>0 DEF TaskOK
        <4>2. "delete" \in CmdSteps /\ "delete" \notin ReadSteps
          BY DEF CmdSteps, ReadSteps
        <4>3. Moved(task[c][t], "delete").at = "delete"
          BY <4>1, <4>2, MovedJob
        <4>4. Moved(task[c][t], "delete").at \notin ReadSteps
          BY <4>2, <4>3
        <4> QED
          BY <1>0, <1>4, <4>4, SaveStep
      <3> SUFFICES ASSUME NEW d \in Clients PROVE Hand(d)' = Hand(d)
        OBVIOUS
      <3>3. CASE d = c /\ t = "proc"
        <4>1. Hand(c)' = 0
          BY <3>2, <3>3, StepHand
        <4>2. Hand(c) = 0
          BY <3>1, <3>3 DEF Hand, ReadSteps
        <4> QED
          BY <3>3, <4>1, <4>2
      <3>4. CASE ~(d = c /\ t = "proc")
        BY <3>2, <3>4, StepHand DEF Tasks
      <3> QED
        BY <3>3, <3>4
    <2>4. CASE task[c][t].op = "start"
      <3>1. UNCHANGED <<wire, sent>>
        BY <1>4, <2>4, SaveSendFacts
      <3>2. Quieter
        <4>1. faults \in Nat /\ \A d \in Clients : Hand(d) \in {0, 1}
          BY <2>1, CarriedNat
        <4> QED
          BY <2>2, <2>3, <3>1, <4>1 DEF Quieter
      <3> QED
        BY <3>1, <3>2, QuietCounted
    <2>5. CASE task[c][t].op # "start"
      <3>0. PICK f : f = Frame(task[c][t].copy, task[c][t].op)
        OBVIOUS
      <3>1. f \in Frames /\ wire' = [wire EXCEPT ![p] = Append(@, f)] /\ sent' = sent + 1
        BY <1>4, <2>0, <2>5, <3>0, SaveSendFacts
      <3>2. Len(wire'[p]) = Len(wire[p]) + 1 /\ \A d \in Clients : d # p => wire'[d] = wire[d]
        <4>1. wire[p] \in Seq(Frames) /\ wire'[p] = Append(wire[p], f)
          BY <1>0, <2>1, <3>1 DEF WireOK
        <4> QED
          BY <1>0, <3>1, <4>1, OnAppend DEF WireOK
      <3>3. PICK a, b, h : a = Len(read[p]) /\ b = Len(wire[p]) /\ h = Hand(p)
        OBVIOUS
      <3>4. a \in Nat /\ b \in Nat /\ h \in {0, 1}
        BY <2>1, <3>3, CarriedNat
      <3>5. a + (b + 1) + h <= a + b + h + 1
        BY <3>4
      <3> QED
        BY <2>1, <2>2, <2>3, <3>1, <3>2, <3>3, <3>5, OneCounted
    <2> QED
      BY <2>4, <2>5
  <1>5. ASSUME NEW c \in Clients, Crash(c) PROVE Counted'
    <2>1. UNCHANGED <<read, sent>> /\ faults' = faults + 1
      BY <1>5 DEF Crash, Fault, got
    <2>2. PICK n \in 0..Len(wire[c]) :
             wire' = [wire EXCEPT ![c] = SubSeq(wire[c], n + 1, Len(wire[c]))]
      BY <1>5 DEF Crash
    <2>3. Len(wire'[c]) <= Len(wire[c]) /\ Len(wire'[c]) \in Nat
          /\ \A d \in Clients : d # c => wire'[d] = wire[d]
      <3>1. wire[c] \in Seq(Frames) /\ wire'[c] = SubSeq(wire[c], n + 1, Len(wire[c]))
        BY <1>0, <2>2 DEF WireOK
      <3> QED
        BY <1>0, <2>2, <3>1, OnRest DEF WireOK
    <2>4. Hand(c)' = 0 /\ \A d \in Clients : d # c => Hand(d)' = Hand(d)
      BY <1>0, <1>5, CrashTasks DEF Hand
    <2>5. PICK a, b, h, b1 : a = Len(read[c]) /\ b = Len(wire[c]) /\ h = Hand(c) /\ b1 = Len(wire'[c])
      OBVIOUS
    <2>6. a \in Nat /\ b \in Nat /\ h \in {0, 1} /\ b1 \in Nat /\ b1 <= b
      BY <2>3, <2>5, CarriedNat
    <2>7. a + b1 + 0 <= a + b + h + 0
      BY <2>6
    <2> QED
      BY <2>1, <2>3, <2>4, <2>5, <2>7, OneCounted
  <1>6. ASSUME NEW c \in Clients, Redeliver(c) PROVE Counted'
    <2>1. /\ UNCHANGED <<read, sent, task>> /\ faults' = faults + 1 /\ wire[c] # <<>>
          /\ wire' = [wire EXCEPT ![c] = <<Head(wire[c])>> \o wire[c]]
      BY <1>6 DEF Redeliver, Fault, got
    <2>2. Len(wire'[c]) = Len(wire[c]) + 1 /\ \A d \in Clients : d # c => wire'[d] = wire[d]
      <3>1. wire[c] \in Seq(Frames) /\ wire'[c] = <<Head(wire[c])>> \o wire[c]
        BY <1>0, <2>1 DEF WireOK
      <3> QED
        BY <1>0, <2>1, <3>1, OnAgain DEF WireOK
    <2>3. \A d \in Clients : Hand(d)' = Hand(d)
      BY <2>1 DEF Hand
    <2>4. PICK a, b, h : a = Len(read[c]) /\ b = Len(wire[c]) /\ h = Hand(c)
      OBVIOUS
    <2>5. a \in Nat /\ b \in Nat /\ h \in {0, 1}
      BY <2>4, CarriedNat
    <2>6. a + (b + 1) + h <= a + b + h + 1
      BY <2>5
    <2> QED
      BY <2>1, <2>2, <2>3, <2>4, <2>6, OneCounted
  <1>7. ASSUME NEW c \in Clients,
               \/ Sends(c) \/ OpensChat(c) \/ DeleteChat(c)
               \/ (\E t \in Tasks : FetchFails(c, t) \/ PinContact(c, t))
               \/ (\E t \in Tasks, e \in Idents : Fetch(c, t, e) \/ FetchStray(c, t, e))
               \/ Replenish(c) \/ SaveKeys(c) \/ PublishKeys(c)
               \/ CreateInbound(c) \/ SaveAccount(c)
               \/ (\E e \in Idents : FetchSender(c, e))
        PROVE  Counted'
    <2>1. Quieter
      BY <1>7, SendQuieter, ReceiveQuieter
    <2>2. UNCHANGED sent
      BY <1>7, OthersStill DEF Others
    <2> QED
      BY <2>1, <2>2, QuietCounted
  <1> QED
    BY <1>1, <1>2, <1>3, <1>4, <1>5, <1>6, <1>7, NextCases

LEMMA InitCounted == Init => Counted
  <1> SUFFICES ASSUME Init, NEW c \in Clients PROVE Carried(c) + Carried(Peer(c)) <= sent + faults
    BY DEF Counted
  <1>1. ASSUME NEW d \in Clients PROVE Carried(d) = 0
    <2>1. Len(read[d]) = 0 /\ Len(wire[d]) = 0 /\ task[d]["proc"] = Idle
      BY DEF Init, Tasks
    <2>2. Hand(d) = 0
      BY <2>1, IdleJob DEF Hand, ReadSteps
    <2> QED
      BY <2>1, <2>2 DEF Carried
  <1>2. sent = 0 /\ faults = 0
    BY DEF Init
  <1> QED
    BY <1>1, <1>2, PeerFacts

LEMMA TypeFacts == Types /\ Sound /\ Counted => TypeOK
  <1> SUFFICES ASSUME Types, Sound, Counted PROVE TypeOK
    OBVIOUS
  <1>1. chat \in [Clients -> BOOLEAN] /\ ops \in 0..MaxOps /\ faults \in 0..MaxFaults
    BY DEF Types, Shape, RowsOK, HistOK
  <1>2. ASSUME NEW c \in Clients, row[c] # NoSession
        PROVE  /\ \/ row[c].key \in Clients \X (1..made[c] \cup 1..made[Peer(c)])
                  \/ row[c].key \in {Stranger} \X (1..faults)
               /\ row[c].ident \in Idents /\ row[c].snd \in 0..sent
    <2>1. PICK s : s = row[c]
      OBVIOUS
    <2>2. s \in SessionsOf(c) /\ s \in Sessions /\ SessOK(c, s)
      BY <1>2, <2>1, OwnSessions, TypedSessions DEF Sound, SessionsOK, Tasks
    <2>3. s.key \in Keys /\ IsSpent(s.key)
      BY <2>2 DEF SessOK, Sessions, Keys
    <2>4. \/ s.key \in Clients \X (1..made[c] \cup 1..made[Peer(c)])
          \/ s.key \in {Stranger} \X (1..faults)
      <3>1. CASE s.key[1] = Stranger
        <4>1. s.key[2] \in 1..faults /\ s.key = <<s.key[1], s.key[2]>>
          BY <2>3, <3>1 DEF IsSpent, Keys
        <4> QED
          BY <3>1, <4>1
      <3>2. CASE s.key[1] # Stranger
        <4>1. /\ s.key[1] \in Clients /\ s.key[2] \in 1..made[s.key[1]]
              /\ s.key = <<s.key[1], s.key[2]>>
          BY <2>3, <3>2 DEF IsSpent, Spent, Keys
        <4>2. s.key[1] = c \/ s.key[1] = Peer(c)
          BY <4>1, PeerFacts
        <4> QED
          BY <4>1, <4>2
      <3> QED
        BY <3>1, <3>2
    <2>5. s.ident \in Idents /\ s.snd \in 0..sent
      <3>1. s.snd \in Nat /\ sent \in Nat /\ s.snd <= sent /\ s.ident \in Idents
        BY <2>2 DEF SessOK, Sessions, Types, Shape, HistOK
      <3> QED
        BY <3>1
    <2> QED
      BY <2>1, <2>4, <2>5
  <1>3. ASSUME NEW c \in Clients
        PROVE  /\ otks[c] \subseteq 1..made[c] /\ pool[c] \subseteq 1..made[c]
               /\ pin[c] \in Idents \cup {NoIdent} /\ refused[c] \subseteq 1..sent
    BY DEF Sound, KeysOK, Numbered, Types, Shape, RowsOK, Seen
  <1>4. ASSUME NEW c \in Clients PROVE Len(read[c]) <= sent + faults
    <2>1. PICK a, b, h, x, y, z, p :
             /\ a = Len(read[c]) /\ b = Len(wire[c]) /\ h = Hand(c) /\ x = sent /\ y = faults
             /\ p = Peer(c) /\ z = Carried(p)
      OBVIOUS
    <2>2. a \in Nat /\ b \in Nat /\ h \in {0, 1} /\ x \in Nat /\ y \in Nat /\ z \in Nat
      BY <2>1, CarriedNat, PeerFacts
    <2>3. (a + b + h) + z <= x + y
      BY <2>1 DEF Counted, Carried
    <2>4. a <= x + y
      BY <2>2, <2>3
    <2> QED
      BY <2>1, <2>4
  <1> QED
    BY <1>1, <1>2, <1>3, <1>4 DEF TypeOK

\* The variables hold what they are declared to hold: a stored session was made
\* with a one-time key that one of the two has made, or with a stranger's, the
\* relay gives out no key that was not made, and no client reads or refuses more than was sent or delivered again.
THEOREM TypeCorrect == Spec => []TypeOK
  <1> DEFINE I == Types /\ Sound /\ Counted
  <1>1. Init => I
    BY InitTypes, InitSound, InitCounted
  <1>2. I /\ [Next]_vars => I'
    BY NextTypes, NextSound, NextCounted
  <1>3. I => TypeOK
    BY TypeFacts
  <1> HIDE DEF I
  <1> QED
    BY <1>1, <1>2, <1>3, PTL DEF Spec

----------------------------------------------------------------------------
(* A step is one client's.                                                 *)

Local(c) ==
    \A d \in Clients \ {c} :
       /\ row'[d] = row[d] /\ otks'[d] = otks[d] /\ pin'[d] = pin[d] /\ made'[d] = made[d]
       /\ task'[d] = task[d] /\ read'[d] = read[d] /\ used'[d] = used[d]
       /\ pool'[d] \subseteq pool[d] /\ (d \in overtaken' <=> d \in overtaken)
       /\ (d \in raced' <=> d \in raced)

LEMMA NextLocal ==
  ASSUME Types, NEW c \in Clients, Others(c) \/ \E t \in Tasks : SaveSend(c, t)
  PROVE  Local(c) /\ overtaken \subseteq overtaken' /\ raced \subseteq raced'
  <1>0. RowsOK /\ TaskOK /\ HistOK
    BY DEF Types, Shape
  <1>1. CASE Sends(c)
    <2>1. UNCHANGED <<vaultRows, relay, got, history>>
      BY <1>1, SendsStep
    <2>2. \A d \in Clients \ {c} : task'[d] = task[d]
      BY <1>0, <1>1 DEF Sends, Begin, LeaveChat, Do, TaskOK
    <2> QED
      BY <2>1, <2>2 DEF Local, vaultRows, relay, got, history
  <1>2. CASE OpensChat(c)
    <2>1. UNCHANGED <<row, otks, pin, relay, task, got, history>>
      BY <1>2 DEF OpensChat, StartDm, Begin
    <2> QED
      BY <2>1 DEF Local, relay, got, history
  <1>3. CASE DeleteChat(c)
    BY <1>0, <1>3 DEF Local, DeleteChat, RowsOK, TaskOK, End, Do, relay, got
  <1>4. ASSUME NEW t \in Tasks, FetchFails(c, t) PROVE Local(c) /\ overtaken \subseteq overtaken' /\ raced \subseteq raced'
    BY <1>0, <1>4, FailsPool DEF Local, FetchFails, TaskOK, End, Do, vaultRows, history
  <1>5. ASSUME NEW t \in Tasks, PinContact(c, t) PROVE Local(c) /\ overtaken \subseteq overtaken' /\ raced \subseteq raced'
    BY <1>0, <1>5 DEF Local, PinContact, RowsOK, TaskOK, Goto, relay, got
  <1>6. ASSUME NEW t \in Tasks, NEW e \in Idents, Fetch(c, t, e)
        PROVE  Local(c) /\ overtaken \subseteq overtaken' /\ raced \subseteq raced'
    BY <1>0, <1>6 DEF Local, Fetch, RowsOK, TaskOK, End, Do, vaultRows, got, history
  <1>7. CASE Replenish(c)
    BY <1>0, <1>7 DEF Local, Replenish, TaskOK, Do, vaultRows, relay, got, history
  <1>8. CASE SaveKeys(c)
    BY <1>0, <1>8, OvertakesMore DEF Local, SaveKeys, RowsOK, TaskOK, Goto, got
  <1>9. CASE PublishKeys(c)
    BY <1>0, <1>9 DEF Local, PublishKeys, RowsOK, TaskOK, End, Do, vaultRows, got, history
  <1>10. CASE Receive(c)
    <2>1. UNCHANGED <<vaultRows, pool, made, read, history>>
      BY <1>10 DEF Receive
    <2>2. \A d \in Clients \ {c} : task'[d] = task[d]
      BY <1>0, <1>10 DEF Receive, Do, TaskOK
    <2> QED
      BY <2>1, <2>2 DEF Local, vaultRows, history
  <1>11. CASE CreateInbound(c)
    BY <1>0, <1>11 DEF Local, CreateInbound, TaskOK, Do, End, vaultRows, relay, history
  <1>12. CASE SaveAccount(c)
    BY <1>0, <1>12, OvertakesMore DEF Local, SaveAccount, RowsOK, TaskOK, Goto, relay, got
  <1>13. CASE Deliver(c)
    BY <1>0, <1>13, OvertakesMore DEF Local, Deliver, RowsOK, HistOK, TaskOK, End, Do, relay
  <1>14. ASSUME NEW e \in Idents, FetchSender(c, e) PROVE Local(c) /\ overtaken \subseteq overtaken' /\ raced \subseteq raced'
    BY <1>0, <1>14 DEF Local, FetchSender, RowsOK, TaskOK, End, Do, vaultRows, history
  <1>15. CASE Crash(c)
    BY <1>0, <1>15 DEF Local, Crash, TaskOK, got, history
  <1>16. CASE Redeliver(c)
    BY <1>16 DEF Local, Redeliver, vaultRows, got, history
  <1>17. ASSUME NEW t \in Tasks, SaveSend(c, t) PROVE Local(c) /\ overtaken \subseteq overtaken' /\ raced \subseteq raced'
    <2>1. UNCHANGED <<otks, pin, pool, made, got>>
      BY <1>17 DEF SaveSend
    <2>2. \A d \in Clients \ {c} : row'[d] = row[d] /\ task'[d] = task[d] /\ used'[d] = used[d]
      <3>1. \A d \in Clients \ {c} : row'[d] = row[d]
        BY <1>0, <1>17 DEF SaveSend, RowsOK
      <3>2. \A d \in Clients \ {c} : task'[d] = task[d]
        BY <1>0, <1>17 DEF SaveSend, TaskOK, Goto, End, Do
      <3>3. \A d \in Clients \ {c} : used'[d] = used[d]
        BY <1>0, <1>17 DEF SaveSend, HistOK
      <3> QED
        BY <3>1, <3>2, <3>3
    <2>3. Overtakes(c, row[c] # task[c][t].loaded)
      BY <1>17 DEF SaveSend
    <2> QED
      BY <1>0, <2>1, <2>2, <2>3, OvertakesMore DEF Local, got
  <1>18. ASSUME NEW t \in Tasks, NEW e \in Idents, FetchStray(c, t, e)
         PROVE  Local(c) /\ overtaken \subseteq overtaken' /\ raced \subseteq raced'
    <2>1. /\ UNCHANGED <<vaultRows, made, wire, got, history>>
          /\ \A d \in Clients : pool'[d] \subseteq pool[d]
      BY <1>18, StrayStep
    <2>2. \A d \in Clients \ {c} : task'[d] = task[d]
      BY <1>0, <1>18 DEF FetchStray, Do, TaskOK
    <2> QED
      BY <2>1, <2>2 DEF Local, vaultRows, got, history
  <1> QED
    BY <1>1, <1>2, <1>3, <1>4, <1>5, <1>6, <1>7, <1>8, <1>9, <1>10, <1>11, <1>12, <1>13,
       <1>14, <1>15, <1>16, <1>17, <1>18 DEF Others

----------------------------------------------------------------------------
(* The pin.                                                                *)

\* A session that the client started with the other was made with the identity
\* that it has pinned.
Agrees(c, s) == s # NoSession /\ s.key[1] = Peer(c) => s.ident = pin[c]

\* The sessions it has, but for one whose identity is still to be pinned.
Settled(c) ==
    {row[c]} \cup {task[c][t].loaded : t \in Tasks}
        \cup {task[c][t].copy : t \in {u \in Tasks : ~At(c, u, "pin")}}
PinInv == \A c \in Clients \ raced : \A s \in Settled(c) : Agrees(c, s)

LEMMA PinKept ==
  ASSUME Types, Types', PinInv, NEW c \in Clients, Local(c), raced \subseteq raced',
         pin[c] # NoIdent => pin'[c] = pin[c],
         c \notin raced' => \A s \in Settled(c)' : s \in Settled(c) \/ Agrees(c, s)'
  PROVE  PinInv'
  <1> SUFFICES ASSUME NEW d \in Clients, d \notin raced', NEW s \in Settled(d)'
               PROVE  Agrees(d, s)'
    BY DEF PinInv
  <1>1. CASE d # c
    <2>1. s \in Settled(d)
      BY <1>1 DEF Settled, Local, At
    <2> QED
      BY <1>1, <2>1 DEF PinInv, Agrees, Local
  <1>2. CASE d = c /\ ~Agrees(d, s)'
    <2>1. s \in Settled(c) /\ d \notin raced
      BY <1>2
    <2>2. Agrees(c, s)
      BY <1>2, <2>1 DEF PinInv
    <2>3. s \in Maybe
      <3>1. row[c] \in Maybe /\ \A t \in Tasks : task[c][t].loaded \in Maybe /\ task[c][t].copy \in Maybe
        BY DEF Types, Shape, RowsOK, TaskOK, Jobs
      <3> QED
        BY <2>1, <3>1 DEF Settled
    <2>4. s # NoSession => s.ident # NoIdent
      BY <2>3, OlmConstants DEF Maybe, Sessions
    <2> QED
      BY <1>2, <2>2, <2>4 DEF Agrees
  <1> QED
    BY <1>1, <1>2

\* A step of one task that leaves the pin.
LEMMA PinStill ==
  ASSUME Types, Types', PinInv, NEW c \in Clients, Local(c), raced \subseteq raced',
         UNCHANGED pin, NEW t \in Tasks, NEW k, Step(c, t, k),
         c \notin raced' =>
            \A s \in {row'[c], k.loaded} : s \in Settled(c) \/ Agrees(c, s)',
         c \notin raced' =>
            k.at = "pin" \/ k.copy \in Settled(c) \/ Agrees(c, k.copy)'
  PROVE  PinInv'
  <1> SUFFICES ASSUME c \notin raced', NEW s \in Settled(c)'
               PROVE  s \in Settled(c) \/ Agrees(c, s)'
    BY PinKept
  <1>1. \/ s = row'[c] \/ \E r \in Tasks : s = task'[c][r].loaded
        \/ \E r \in Tasks : s = task'[c][r].copy /\ task'[c][r].at # "pin"
    BY DEF Settled, At
  <1>2. ASSUME NEW r \in Tasks, s = task'[c][r].loaded PROVE s \in Settled(c) \/ s = k.loaded
    BY <1>2 DEF Step, Settled
  <1>3. ASSUME NEW r \in Tasks, s = task'[c][r].copy, task'[c][r].at # "pin"
        PROVE  s \in Settled(c) \/ (s = k.copy /\ k.at # "pin")
    BY <1>3 DEF Step, Settled, At
  <1> QED
    BY <1>1, <1>2, <1>3

LEMMA SettledOwn ==
  ASSUME NEW c \in Clients, NEW t \in Tasks
  PROVE  /\ row[c] \in Settled(c) /\ task[c][t].loaded \in Settled(c)
         /\ task[c][t].at # "pin" => task[c][t].copy \in Settled(c)
         /\ Agrees(c, NoSession)'
  BY DEF Settled, Agrees, At

\* The steps that leave the row and the pin, and the tasks but that they may end.
LEMMA PinSame ==
  ASSUME Types, Types', PinInv, NEW c \in Clients, Local(c), raced \subseteq raced',
         row'[c] \in {row[c], NoSession}, UNCHANGED pin,
         \A t \in Tasks : task'[c][t] \in {task[c][t], Idle}
  PROVE  PinInv'
  <1> SUFFICES ASSUME NEW s \in Settled(c)' PROVE s \in Settled(c) \/ Agrees(c, s)'
    BY PinKept
  <1>1. \/ s = row'[c] \/ \E r \in Tasks : s = task'[c][r].loaded
        \/ \E r \in Tasks : s = task'[c][r].copy /\ task'[c][r].at # "pin"
    BY DEF Settled, At
  <1>2. s # NoSession => s \in Settled(c)
    BY <1>1, SettledOwn, IdleJob DEF Tasks
  <1> QED
    BY <1>2, SettledOwn DEF Tasks

LEMMA SendPin ==
  ASSUME Types, Types', Sound, PinInv, NEW c \in Clients, Local(c), raced \subseteq raced',
         \/ Sends(c) \/ OpensChat(c) \/ DeleteChat(c)
         \/ \E t \in Tasks : FetchFails(c, t) \/ PinContact(c, t)
         \/ \E t \in Tasks, e \in Idents : Fetch(c, t, e) \/ FetchStray(c, t, e)
  PROVE  PinInv'
  <1>0. RowsOK /\ TaskOK /\ HistOK /\ "cmd" \in Tasks
    BY DEF Types, Shape, Tasks
  <1>1. CASE Sends(c)
    <2>1. PICK t \in Tasks, op \in {"start", "text", "control", "left"},
               a \in {"fetch", "save", "delete"} : Step(c, t, SendJob(c, op, a))
      BY <1>1, SendsStep
    <2>2. SendJob(c, op, a).loaded = row[c] /\ SendJob(c, op, a).copy = row[c]
      BY <1>0, SendJobFields
    <2>3. UNCHANGED <<row, pin>>
      BY <1>1, SendsStep DEF vaultRows
    <2> QED
      BY <2>1, <2>2, <2>3, SettledOwn, PinStill
  <1>2. CASE OpensChat(c)
    <2>1. UNCHANGED <<row, pin, task>>
      BY <1>2 DEF OpensChat, StartDm, Begin
    <2> QED
      BY <2>1, PinSame
  <1>3. CASE DeleteChat(c)
    <2>1. row'[c] = NoSession /\ UNCHANGED pin /\ Step(c, "cmd", Idle)
      BY <1>0, <1>3, EndSteps DEF DeleteChat, RowsOK
    <2>2. \A t \in Tasks : task'[c][t] \in {task[c][t], Idle}
      BY <2>1 DEF Step
    <2> QED
      BY <2>1, <2>2, PinSame
  <1>4. ASSUME NEW t \in Tasks, FetchFails(c, t) PROVE PinInv'
    <2>1. UNCHANGED <<row, pin>> /\ Step(c, t, Idle)
      BY <1>4, EndSteps DEF FetchFails, vaultRows
    <2>2. \A r \in Tasks : task'[c][r] \in {task[c][r], Idle}
      BY <2>1 DEF Step
    <2> QED
      BY <2>1, <2>2, PinSame
  <1>5. ASSUME NEW t \in Tasks, PinContact(c, t) PROVE PinInv'
    <2> DEFINE k == task[c][t]
    <2>1. /\ row' = row /\ pin'[c] = UpsertContact(pin[c], k.ident)
          /\ raced' = IF pin[c] \notin {k.seen, k.ident} THEN raced \cup {c} ELSE raced
          /\ k \in Jobs /\ JobOK(c, t, k)
      BY <1>0, <1>5 DEF PinContact, RowsOK, TaskOK, Types, JobsOK
    <2>2. pin[c] # NoIdent => pin'[c] = pin[c]
      BY <2>1 DEF UpsertContact
    <2>3. c \notin raced' => pin[c] \in {k.seen, k.ident}
      BY <2>1
    <2>4. \/ k.at = "pin" /\ Step(c, t, Moved(k, "save"))
          \/ k.at = "rpin" /\ Step(c, t, Moved(k, "inbound"))
      BY <1>5, PinStep DEF At
    <2>5. \A a \in {"save", "inbound"} : Moved(k, a).loaded = k.loaded /\ Moved(k, a).copy = k.copy
      BY <2>1, MovedJob DEF SendSteps, ReadSteps
    <2>6. ASSUME c \notin raced', NEW s \in Settled(c)'
          PROVE  s \in Settled(c) \/ Agrees(c, s)'
      <3>1. \/ s = row'[c] \/ \E r \in Tasks : s = task'[c][r].loaded
            \/ \E r \in Tasks : s = task'[c][r].copy /\ task'[c][r].at # "pin"
        BY DEF Settled, At
      <3>2. ASSUME NEW r \in Tasks, s = task'[c][r].loaded PROVE s \in Settled(c)
        <4>1. task'[c][r].loaded = task[c][r].loaded
          BY <2>4, <2>5 DEF Step
        <4> QED
          BY <3>2, <4>1, SettledOwn
      <3>3. ASSUME NEW r \in Tasks, r # t, s = task'[c][r].copy, task'[c][r].at # "pin"
            PROVE  s \in Settled(c)
        <4>1. task'[c][r] = task[c][r]
          BY <2>4, <3>3 DEF Step
        <4> QED
          BY <3>3, <4>1, SettledOwn
      <3>4. CASE s = task'[c][t].copy
        <4>1. s = k.copy
          BY <2>4, <2>5, <3>4 DEF Step
        <4>2. CASE k.at = "pin"
          <5>1. s.ident = k.ident /\ k.seen \in {NoIdent, k.ident} /\ k.ident # NoIdent
            BY <2>1, <4>1, <4>2, OlmConstants DEF JobOK, New, Sessions
          <5>2. pin'[c] = s.ident
            BY <2>1, <2>3, <2>6, <5>1 DEF UpsertContact
          <5> QED
            BY <5>2 DEF Agrees
        <4>3. CASE k.at = "rpin"
          BY <4>1, <4>3, SettledOwn
        <4> QED
          BY <2>4, <4>2, <4>3
      <3> QED
        BY <2>1, <3>1, <3>2, <3>3, <3>4, SettledOwn
    <2> HIDE DEF k
    <2> QED
      BY <2>2, <2>6, PinKept
  <1>6. ASSUME NEW t \in Tasks, NEW e \in Idents, Fetch(c, t, e) PROVE PinInv'
    <2>1. UNCHANGED <<row, pin>>
      BY <1>6 DEF Fetch, vaultRows
    <2>2. CASE Step(c, t, Idle)
      <3>1. \A r \in Tasks : task'[c][r] \in {task[c][r], Idle}
        BY <2>2 DEF Step
      <3> QED
        BY <2>1, <3>1, PinSame
    <2>3. ASSUME NEW n \in Given(c), Step(c, t, Bundled(c, t, e, n)) PROVE PinInv'
      <3> DEFINE k == Bundled(c, t, e, n)
      <3>1. k.at = "pin" /\ k.loaded = task[c][t].loaded
        BY <1>0 DEF TaskOK, Jobs, Bundled
      <3>2. Step(c, t, k)
        BY <2>3
      <3> HIDE DEF k
      <3> QED
        BY <2>1, <3>1, <3>2, SettledOwn, PinStill
    <2> QED
      BY <1>6, <2>2, <2>3, FetchStep
  <1>7. ASSUME NEW t \in Tasks, NEW e \in Idents, FetchStray(c, t, e) PROVE PinInv'
    <2> DEFINE k == Strayed(c, t, e)
    <2>1. /\ At(c, t, "fetch") /\ e # Real /\ Step(c, t, k) /\ UNCHANGED <<row, pin>>
      BY <1>7, StrayStep DEF vaultRows
    <2>2. k.loaded = NoSession /\ k.copy.key = <<Stranger, faults + 1>>
      BY <2>1, StrayedFields
    <2>3. PICK s : s = k.copy
      OBVIOUS
    <2>4. Agrees(c, s)'
      <3>1. <<Stranger, faults + 1>>[1] = Stranger
        OBVIOUS
      <3> QED
        BY <2>2, <2>3, <3>1, PeerFacts DEF Agrees, Peer
    <2> HIDE DEF k
    <2> QED
      BY <2>1, <2>2, <2>3, <2>4, SettledOwn, PinStill
  <1> QED
    BY <1>1, <1>2, <1>3, <1>4, <1>5, <1>6, <1>7

LEMMA SavePin ==
  ASSUME Types, Types', PinInv, NEW c \in Clients, Local(c), raced \subseteq raced',
         NEW t \in Tasks, SaveSend(c, t)
  PROVE  PinInv'
  <1> DEFINE k == task[c][t]
  <1>1. k \in Jobs /\ k.at = "save" /\ k.copy \in Sessions /\ RowsOK
    BY SaveSendFacts DEF Types, Shape
  <1>2. PICK s : row'[c] = s /\ s.key = k.copy.key /\ s.ident = k.copy.ident /\ UNCHANGED pin
    <2> DEFINE s == IF k.op = "start" THEN k.copy ELSE Advanced(k.copy)
    <2>1. row' = [row EXCEPT ![c] = s] /\ s.key = k.copy.key /\ s.ident = k.copy.ident /\ UNCHANGED pin
      BY SaveSendFacts
    <2> HIDE DEF s, k
    <2>2. row'[c] = s
      BY <1>1, <2>1 DEF RowsOK
    <2> QED
      BY <2>1, <2>2
  <1>3. c \notin raced' => Agrees(c, s)'
    <2>1. SUFFICES ASSUME c \notin raced' PROVE Agrees(c, s)'
      OBVIOUS
    <2>2. PICK q : q = k.copy
      OBVIOUS
    <2>3. Agrees(c, q)
      BY <1>1, <2>1, <2>2, SettledOwn DEF PinInv
    <2>4. q # NoSession
      BY <1>1, <2>2, OlmConstants
    <2> QED
      BY <1>2, <2>2, <2>3, <2>4 DEF Agrees
  <1>4. PICK j : Step(c, t, j) /\ j.loaded \in {k.loaded, NoSession} /\ j.copy \in {k.copy, NoSession}
    <2>1. CASE k.op = "left"
      BY <1>1, <2>1, SaveStep, MovedJob DEF CmdSteps
    <2>2. CASE k.op # "left"
      BY <2>2, SaveStep, IdleJob
    <2> QED
      BY <2>1, <2>2
  <1>5. k.loaded \in Settled(c) /\ k.copy \in Settled(c) /\ Agrees(c, NoSession)'
    BY <1>1, SettledOwn
  <1> HIDE DEF k
  <1>6. c \notin raced' => \A r \in {row'[c], j.loaded} : r \in Settled(c) \/ Agrees(c, r)'
    BY <1>2, <1>3, <1>4, <1>5
  <1>7. j.copy \in Settled(c) \/ Agrees(c, j.copy)'
    BY <1>4, <1>5
  <1> QED
    BY <1>2, <1>4, <1>6, <1>7, PinStill

LEMMA ReceivePin ==
  ASSUME Types, Types', Sound, PinInv, NEW c \in Clients, Local(c), raced \subseteq raced',
         \/ Receive(c) \/ CreateInbound(c) \/ SaveAccount(c) \/ Deliver(c)
         \/ (\E e \in Idents : FetchSender(c, e))
         \/ Replenish(c) \/ SaveKeys(c) \/ PublishKeys(c) \/ Crash(c) \/ Redeliver(c)
  PROVE  PinInv'
  <1>0. RowsOK /\ TaskOK /\ HistOK /\ "cmd" \in Tasks /\ "proc" \in Tasks /\ task[c]["proc"] \in Jobs
    BY DEF Types, Shape, Tasks, TaskOK
  <1>1. CASE Receive(c)
    <2> DEFINE f == Head(wire[c])
    <2>1. UNCHANGED <<row, pin>> /\ f \in Frames
      BY <1>1, ReceiveStep DEF Receive, vaultRows
    <2>2. CASE UNCHANGED task
      BY <2>1, <2>2, PinSame
    <2>3. CASE Reads(row[c], f) /\ Step(c, "proc", ReadJob(c, f))
      <3> DEFINE k == ReadJob(c, f)
      <3>1. k.loaded = row[c] /\ k.copy = [row[c] EXCEPT !.rcv = @ \cup {f.idx}]
        BY <2>1, <2>3, ReadJobFields
      <3>2. PICK r, q : r = row[c] /\ q = k.copy
        OBVIOUS
      <3>3. r \in Sessions /\ r # NoSession
        BY <1>0, <2>3, <3>2 DEF RowsOK, Maybe, Reads
      <3>4. q.key = r.key /\ q.ident = r.ident
        BY <3>1, <3>2, <3>3 DEF Sessions
      <3>5. c \notin raced' => Agrees(c, q)'
        <4>1. SUFFICES ASSUME c \notin raced' PROVE Agrees(c, q)'
          OBVIOUS
        <4>2. Agrees(c, r)
          BY <1>0, <3>2, <4>1, SettledOwn DEF PinInv
        <4> QED
          BY <2>1, <3>3, <3>4, <4>2 DEF Agrees
      <3>6. Step(c, "proc", k)
        BY <2>3
      <3> HIDE DEF k, f
      <3> QED
        BY <1>0, <2>1, <3>1, <3>2, <3>5, <3>6, SettledOwn, PinStill
    <2>4. ASSUME NEW a \in {"rfetch", "inbound"}, Step(c, "proc", FirstJob(c, f, a))
          PROVE  PinInv'
      <3>1. FirstJob(c, f, a).loaded = row[c] /\ FirstJob(c, f, a).copy = NoSession
        BY <2>1, FirstJobFields
      <3> QED
        BY <1>0, <2>1, <2>4, <3>1, SettledOwn, PinStill
    <2> QED
      BY <1>1, <2>2, <2>3, <2>4, ReceiveStep
  <1>2. ASSUME UNCHANGED <<row, pin>>, NEW t \in Tasks, Step(c, t, Idle) PROVE PinInv'
    <2>1. \A r \in Tasks : task'[c][r] \in {task[c][r], Idle}
      BY <1>2 DEF Step
    <2> QED
      BY <1>2, <2>1, PinSame
  <1>3. ASSUME UNCHANGED <<row, pin>>, NEW t \in Tasks, NEW k, Step(c, t, k),
               k.loaded = task[c][t].loaded, k.copy = task[c][t].copy, task[c][t].at # "pin"
        PROVE  PinInv'
    BY <1>3, SettledOwn, PinStill
  <1>4. CASE CreateInbound(c)
    <2>1. UNCHANGED <<row, pin>> /\ task[c]["proc"].at # "pin"
      BY <1>4 DEF CreateInbound, vaultRows, At
    <2>2. CASE ~Step(c, "proc", Idle)
      <3>1. /\ Step(c, "proc", Opened(c)) /\ Opened(c).loaded = task[c]["proc"].loaded
            /\ Opened(c).copy = task[c]["proc"].copy
        BY <1>4, <2>2, InboundStep
      <3> QED
        BY <1>0, <1>3, <2>1, <3>1
    <2> QED
      BY <1>0, <1>2, <2>1, <2>2
  <1>5. CASE SaveAccount(c)
    <2>1. UNCHANGED <<row, pin>> /\ task[c]["proc"].at # "pin"
      BY <1>5 DEF SaveAccount, At
    <2>2. /\ Moved(task[c]["proc"], "isave").loaded = task[c]["proc"].loaded
          /\ Moved(task[c]["proc"], "isave").copy = task[c]["proc"].copy
      BY <1>0, MovedJob DEF ReadSteps
    <2> QED
      BY <1>0, <1>3, <1>5, <2>1, <2>2, AccountStep
  <1>6. ASSUME NEW e \in Idents, FetchSender(c, e) PROVE PinInv'
    <2>1. UNCHANGED <<row, pin>> /\ task[c]["proc"].at # "pin"
      BY <1>6 DEF FetchSender, vaultRows, At
    <2>2. CASE ~Step(c, "proc", Idle)
      <3>1. /\ Step(c, "proc", Greeted(c, e)) /\ Greeted(c, e).loaded = task[c]["proc"].loaded
            /\ Greeted(c, e).copy = task[c]["proc"].copy
        BY <1>6, <2>2, SenderStep
      <3> QED
        BY <1>0, <1>3, <2>1, <3>1
    <2> QED
      BY <1>0, <1>2, <2>1, <2>2
  <1>7. CASE Replenish(c)
    <2>1. UNCHANGED <<row, pin>>
      BY <1>7 DEF Replenish, vaultRows
    <2> QED
      BY <1>0, <1>7, <2>1, RenewStep, SettledOwn, PinStill
  <1>8. CASE SaveKeys(c)
    <2>1. UNCHANGED <<row, pin>> /\ task[c]["cmd"].at # "pin" /\ task[c]["cmd"] \in Jobs
      BY <1>0, <1>8 DEF SaveKeys, At, TaskOK
    <2>2. /\ Moved(task[c]["cmd"], "publish").loaded = task[c]["cmd"].loaded
          /\ Moved(task[c]["cmd"], "publish").copy = task[c]["cmd"].copy
      BY <2>1, MovedJob DEF CmdSteps
    <2> QED
      BY <1>0, <1>3, <1>8, <2>1, <2>2, KeysStep
  <1>9. CASE PublishKeys(c)
    <2>1. UNCHANGED <<row, pin>>
      BY <1>9 DEF PublishKeys, vaultRows
    <2> QED
      BY <1>0, <1>2, <1>9, <2>1, EndSteps
  <1>10. CASE Crash(c) \/ Redeliver(c)
    <2>1. UNCHANGED <<row, pin>>
      BY <1>10 DEF Crash, Redeliver, vaultRows
    <2>2. \A t \in Tasks : task'[c][t] \in {task[c][t], Idle}
      BY <1>10, CrashTasks DEF Redeliver
    <2> QED
      BY <2>1, <2>2, PinSame
  <1>11. CASE Deliver(c)
    <2> DEFINE k == task[c]["proc"]
               s == IF k.at = "rsave" THEN k.copy ELSE Inbound(k.frame)
    <2>1. /\ k.at \in {"rsave", "isave"} /\ k.frame \in Frames
          /\ JobOK(c, "proc", k) /\ row' = [row EXCEPT ![c] = s] /\ UNCHANGED pin
      BY <1>11, DeliverFacts
    <2>2. PICK q : q = s
      OBVIOUS
    <2>3. q \in Settled(c) \/ Agrees(c, q)'
      <3>1. CASE k.at = "rsave"
        BY <1>0, <2>2, <3>1, SettledOwn
      <3>2. CASE k.at = "isave"
        <4>1. PICK f : f = k.frame
          OBVIOUS
        <4>2. q.key = f.key
          BY <2>1, <2>2, <3>2, <4>1, InboundFields
        <4>3. f.pre /\ FrameOK(c, f)
          BY <1>0, <2>1, <3>2, <4>1, OwnSessions DEF JobOK, ReadSteps, Sound, FramesOK
        <4> HIDE DEF k, s
        <4>4. Peer(c)' = Peer(c)
          BY DEF Peer
        <4> QED
          BY <4>2, <4>3, <4>4 DEF FrameOK, Agrees
      <3> QED
        BY <2>1, <3>1, <3>2
    <2>4. row'[c] = q
      BY <1>0, <2>1, <2>2 DEF RowsOK
    <2> HIDE DEF k, s
    <2> QED
      BY <1>0, <1>11, <2>1, <2>3, <2>4, EndSteps, IdleJob, SettledOwn, PinStill
  <1> QED
    BY <1>1, <1>4, <1>5, <1>6, <1>7, <1>8, <1>9, <1>10, <1>11

LEMMA NextPin == Types /\ Types' /\ Sound /\ PinInv /\ [Next]_vars => PinInv'
  <1> SUFFICES ASSUME Types, Types', Sound, PinInv, [Next]_vars PROVE PinInv'
    OBVIOUS
  <1>1. CASE UNCHANGED vars
    BY <1>1 DEF vars, vaultRows, history, PinInv, Settled, Agrees, At
  <1>2. ASSUME NEW c \in Clients, Others(c) PROVE PinInv'
    BY <1>2, NextLocal, SendPin, ReceivePin DEF Others
  <1>3. ASSUME NEW c \in Clients, NEW t \in Tasks, SaveSend(c, t) PROVE PinInv'
    BY <1>3, NextLocal, SavePin
  <1> QED
    BY <1>1, <1>2, <1>3, NextOthers

LEMMA InitPin == Init => PinInv
  <1> SUFFICES ASSUME Init, NEW c \in Clients, NEW s \in Settled(c) PROVE Agrees(c, s)
    BY DEF PinInv
  <1>1. s = NoSession
    BY IdleJob DEF Init, Settled
  <1> QED
    BY <1>1 DEF Agrees

\* accept_identity: a session from an answer that names the other is with the
\* identity that is pinned for the other, however many answers the two tasks were
\* waiting for when the first was pinned, and whatever answers came under another
\* name; only a task that goes on with its own identity after the
\* other pinned a different one leaves the client out.
THEOREM SessionPinnedAlways == Spec => []SessionPinned
  <1> DEFINE I == Types /\ Sound /\ PinInv
  <1>1. Init => I
    BY InitTypes, InitSound, InitPin
  <1>2. I /\ [Next]_vars => I'
    BY NextTypes, NextSound, NextPin
  <1>3. I => SessionPinned
    BY DEF PinInv, Settled, Agrees, SessionPinned
  <1> HIDE DEF I
  <1> QED
    BY <1>1, <1>2, <1>3, PTL DEF Spec

----------------------------------------------------------------------------
(* One-time keys, message keys and messages serve once.                    *)

Unused(c, k) == ~UsedBy(c, k) /\ (row[c] # NoSession => row[c].key # k)

\* A task has made a session that it has not saved.
Fresh(c, t) == task[c][t].at \in {"pin", "save"} /\ task[c][t].loaded = NoSession

\* The row's session has used only the numbers below its own.
Below(c) ==
    row[c] # NoSession => \A u \in used[c] : u[1] = row[c].key => u[2] < row[c].snd
FreshUnused(c) ==
    \A t \in Tasks : Fresh(c, t) =>
       /\ Unused(c, task[c][t].copy.key)
       /\ \A r \in Tasks : r # t /\ Fresh(c, r) => task[c][r].copy.key # task[c][t].copy.key
HalvesUnused(c) == \A n \in otks[c] : Unused(c, <<c, n>>)
SpentUnused(c) ==
    At(c, "proc", "isave") =>
       /\ Unused(c, task[c]["proc"].frame.key)
       /\ task[c]["proc"].frame.key[2] \notin otks[c]
UseOK(c) == Below(c) /\ FreshUnused(c) /\ HalvesUnused(c) /\ SpentUnused(c)

HeldOK(c) == pool[c] \subseteq otks[c] /\ (At(c, "cmd", "publish") => made[c] \in otks[c])

\* A frame whose message was read, and one that cannot be read any more.
Was(c, f) == \E i \in 1..Len(read[c]) : read[c][i] = f.no
Dead(c, f) ==
    /\ f.key[1] # Stranger /\ row[c] # NoSession /\ row[c].key = f.key => f.idx \in row[c].rcv
    /\ f.key[1] = c => f.key[2] \notin otks[c]

First == {"rfetch", "rpin", "inbound"}
Later == {"asave", "isave", "rsave"}
WireDead(c) == \A f \in On(wire[c]) : Was(c, f) => Dead(c, f)
HandDead(c) ==
    LET k == task[c]["proc"] IN
    /\ k.at \in First => (Was(c, k.frame) => Dead(c, k.frame))
    /\ k.at \in Later => ~Was(c, k.frame)
    /\ k.at = "isave" => \A f \in On(wire[c]) : Was(c, f) => f.key # k.frame.key
Once(c) == \A i, j \in 1..Len(read[c]) : i # j => read[c][i] # read[c][j]
ReadOK(c) == WireDead(c) /\ HandDead(c) /\ Once(c)

OnceOK(c) == UseOK(c) /\ HeldOK(c) /\ ReadOK(c)
OnceInv == \A c \in Clients \ overtaken : OnceOK(c)

\* A prekey message under the owner's identity is for a key of the reader's.
LEMMA OwnKey ==
  ASSUME Types, Sound, NEW c \in Clients, NEW f \in FramesTo(c), f.pre, f.ident = Real
  PROVE  f.key[1] = c /\ f.key = <<c, f.key[2]>>
  <1>1. f.key \in (Clients \cup {Stranger}) \X Nat
    BY TypedFrames DEF Frames, Keys
  <1>2. f.key[1] # Peer(c) /\ f.key[1] # Stranger
    BY DEF Sound, FramesOK, FrameOK
  <1>3. f.key[1] = c
    BY <1>1, <1>2, PeerFacts
  <1> QED
    BY <1>1, <1>3

\* The processor saves for such a message only.
LEMMA OpenedFrame ==
  ASSUME Types, NEW c \in Clients, task[c]["proc"].at \in {"asave", "isave"}
  PROVE  /\ task[c]["proc"].frame.pre /\ task[c]["proc"].frame.ident = Real
         /\ task[c]["proc"].frame \in FramesTo(c)
  <1>1. JobOK(c, "proc", task[c]["proc"])
    BY DEF Types, JobsOK, Tasks
  <1>2. task[c]["proc"].frame \in FramesTo(c)
    BY DEF FramesTo, InHand, ReadSteps
  <1> QED
    BY <1>1, <1>2 DEF JobOK

\* What the step of a client leaves the other.
LEMMA OnceOther ==
  ASSUME Types, Numbered, NEW c \in Clients, Local(c), NEW d \in Clients, d # c, OnceOK(d),
         \A f \in On(wire'[d]) : f \in On(wire[d]) \/ f.no = sent + 1
  PROVE  OnceOK(d)'
  <1>1. /\ row'[d] = row[d] /\ otks'[d] = otks[d] /\ made'[d] = made[d]
        /\ task'[d] = task[d] /\ read'[d] = read[d] /\ used'[d] = used[d]
        /\ pool'[d] \subseteq pool[d]
    BY DEF Local
  <1>2. UseOK(d)'
    BY <1>1 DEF OnceOK, UseOK, Below, FreshUnused, HalvesUnused, SpentUnused, Unused, UsedBy,
                Fresh, At
  <1>3. HeldOK(d)'
    BY <1>1 DEF OnceOK, HeldOK, At
  <1>4. \A f : (Was(d, f)' <=> Was(d, f)) /\ (Dead(d, f)' <=> Dead(d, f))
    BY <1>1 DEF Was, Dead
  <1>5. \A f \in On(wire'[d]) : Was(d, f) => f \in On(wire[d])
    <2> SUFFICES ASSUME NEW f, f.no = sent + 1, Was(d, f) PROVE FALSE
      OBVIOUS
    <2>1. f.no \in 1..sent
      BY DEF Was, Numbered
    <2> QED
      BY <2>1 DEF Types, Shape, HistOK
  <1>6. WireDead(d)'
    BY <1>1, <1>4, <1>5 DEF WireDead, OnceOK, ReadOK
  <1>7. HandDead(d)'
    BY <1>1, <1>4, <1>5 DEF HandDead, OnceOK, ReadOK
  <1>8. Once(d)'
    BY <1>1 DEF Once, OnceOK, ReadOK
  <1> QED
    BY <1>2, <1>3, <1>6, <1>7, <1>8 DEF OnceOK, ReadOK

\* The processor goes on with its frame, takes one off the wire, or reads one
\* that was not read before.
HandCalm(c) ==
    LET k == task[c]["proc"]
        j == task'[c]["proc"]
    IN /\ j.at \in First => \/ k.at \in First /\ j.frame = k.frame
                            \/ j.frame \in On(wire[c])
       /\ j.at \in Later => \/ k.at = j.at /\ j.frame = k.frame
                            \/ j.at # "isave" /\ ~Was(c, j.frame)

\* A step that leaves the client's own keys, sessions and reading as they were,
\* but that it may drop its session.
Calm(c) ==
    /\ row'[c] \in {row[c], NoSession} /\ otks'[c] = otks[c]
    /\ used'[c] = used[c] /\ read'[c] = read[c] /\ On(wire'[c]) \subseteq On(wire[c])
    /\ \A t \in Tasks : Fresh(c, t)' =>
          Fresh(c, t) /\ task'[c][t].copy.key = task[c][t].copy.key
    /\ HandCalm(c)

\* A step that reads nothing and revives no frame.
CalmFrames(c) ==
    /\ read'[c] = read[c] /\ On(wire'[c]) \subseteq On(wire[c])
    /\ \A f \in FramesTo(c) : Dead(c, f) => Dead(c, f)'
    /\ HandCalm(c)

LEMMA CalmUse ==
  ASSUME NEW c \in Clients, UseOK(c), Calm(c)
  PROVE  UseOK(c)'
  <1>1. \A k : Unused(c, k) => Unused(c, k)'
    BY DEF Calm, Unused, UsedBy
  <1>2. Below(c)'
    BY DEF Calm, UseOK, Below
  <1>3. FreshUnused(c)'
    <2> SUFFICES ASSUME NEW t \in Tasks, Fresh(c, t)'
                 PROVE  /\ Unused(c, task[c][t].copy.key)'
                        /\ \A r \in Tasks : r # t /\ Fresh(c, r)' =>
                              task'[c][r].copy.key # task'[c][t].copy.key
      BY DEF FreshUnused
    <2>1. PICK k : k = task[c][t].copy.key
      OBVIOUS
    <2>2. Fresh(c, t) /\ task'[c][t].copy.key = k
      BY <2>1 DEF Calm
    <2>3. Unused(c, k)'
      BY <1>1, <2>1, <2>2 DEF UseOK, FreshUnused
    <2>4. \A r \in Tasks : r # t /\ Fresh(c, r)' => task'[c][r].copy.key # k
      BY <2>1, <2>2 DEF Calm, UseOK, FreshUnused
    <2> QED
      BY <2>2, <2>3, <2>4 DEF Unused, UsedBy
  <1>4. HalvesUnused(c)'
    BY <1>1 DEF Calm, UseOK, HalvesUnused
  <1>5. SpentUnused(c)'
    <2> SUFFICES ASSUME At(c, "proc", "isave")'
                 PROVE  /\ Unused(c, task[c]["proc"].frame.key)'
                        /\ task'[c]["proc"].frame.key[2] \notin otks'[c]
      BY DEF SpentUnused
    <2>1. PICK k : k = task[c]["proc"].frame.key
      OBVIOUS
    <2>2. At(c, "proc", "isave") /\ task'[c]["proc"].frame.key = k
      BY <2>1 DEF Calm, HandCalm, Later, At
    <2>3. Unused(c, k)' /\ k[2] \notin otks'[c]
      BY <1>1, <2>1, <2>2 DEF Calm, UseOK, SpentUnused
    <2> QED
      BY <2>2, <2>3 DEF Unused, UsedBy
  <1> QED
    BY <1>2, <1>3, <1>4, <1>5 DEF UseOK

LEMMA CalmIsFrames ==
  ASSUME NEW c \in Clients, Calm(c)
  PROVE  CalmFrames(c)
  BY DEF Calm, CalmFrames, Dead

LEMMA CalmRead ==
  ASSUME NEW c \in Clients, ReadOK(c), CalmFrames(c)
  PROVE  ReadOK(c)'
  <1>1. /\ \A f : Was(c, f)' <=> Was(c, f)
        /\ \A f \in FramesTo(c) : Dead(c, f) => Dead(c, f)'
        /\ On(wire[c]) \subseteq FramesTo(c)
        /\ task[c]["proc"].at \in First => task[c]["proc"].frame \in FramesTo(c)
    BY DEF CalmFrames, Was, FramesTo, InHand, First, ReadSteps
  <1>2. WireDead(c)' /\ Once(c)'
    BY <1>1 DEF CalmFrames, ReadOK, WireDead, Once
  <1>3. HandDead(c)'
    <2> DEFINE k == task[c]["proc"]
    <2>1. PICK j : j = task'[c]["proc"]
      OBVIOUS
    <2>2. PICK f : f = j.frame
      OBVIOUS
    <2>3. j.at \in First => (Was(c, f) => Dead(c, f)')
      BY <1>1, <2>1, <2>2 DEF CalmFrames, HandCalm, ReadOK, WireDead, HandDead
    <2>4. j.at \in Later => ~Was(c, f)
      BY <2>1, <2>2 DEF CalmFrames, HandCalm, ReadOK, HandDead
    <2>5. j.at = "isave" => \A g \in On(wire'[c]) : Was(c, g) => g.key # f.key
      BY <2>1, <2>2 DEF CalmFrames, HandCalm, ReadOK, HandDead, Later
    <2>6. /\ j.at \in First => (Was(c, f)' => Dead(c, f)')
          /\ j.at \in Later => ~Was(c, f)'
          /\ j.at = "isave" => \A g \in On(wire'[c]) : Was(c, g)' => g.key # f.key
      BY <1>1, <2>3, <2>4, <2>5
    <2>7. (Was(c, f)' <=> Was(c, j.frame)') /\ (Dead(c, f)' <=> Dead(c, j.frame)')
      BY <2>2
    <2> QED
      BY <2>1, <2>2, <2>6 DEF HandDead, Was, Dead
  <1> QED
    BY <1>2, <1>3 DEF ReadOK

LEMMA HandStep ==
  ASSUME NEW c \in Clients, NEW t \in Tasks, NEW k, Step(c, t, k),
         k.at \in First => \/ task[c]["proc"].at \in First /\ k.frame = task[c]["proc"].frame
                           \/ k.frame \in On(wire[c]),
         k.at \in Later => k.at # "isave" /\ ~Was(c, k.frame)
  PROVE  HandCalm(c)
  <1>2. PICK j, i : j = task'[c]["proc"] /\ i = task[c]["proc"]
    OBVIOUS
  <1>3. /\ j.at \in First => \/ i.at \in First /\ j.frame = i.frame
                             \/ j.frame \in On(wire[c])
        /\ j.at \in Later => \/ i.at = j.at /\ j.frame = i.frame
                             \/ j.at # "isave" /\ ~Was(c, j.frame)
    <2>1. CASE t = "proc"
      BY <1>2, <2>1 DEF Step
    <2>2. CASE t # "proc"
      <3>1. j = i
        BY <1>2, <2>2 DEF Step, Tasks
      <3> QED
        BY <3>1
    <2> QED
      BY <2>1, <2>2
  <1> QED
    BY <1>2, <1>3 DEF HandCalm

LEMMA CalmStep ==
  ASSUME Types, NEW c \in Clients, NEW t \in Tasks, NEW k, Step(c, t, k),
         row'[c] \in {row[c], NoSession}, otks'[c] = otks[c], used'[c] = used[c],
         read'[c] = read[c], On(wire'[c]) \subseteq On(wire[c]),
         k.at \in {"pin", "save"} /\ k.loaded = NoSession =>
             Fresh(c, t) /\ k.copy.key = task[c][t].copy.key,
         k.at \in First => \/ task[c]["proc"].at \in First /\ k.frame = task[c]["proc"].frame
                           \/ k.frame \in On(wire[c]),
         k.at \in Later => k.at # "isave" /\ ~Was(c, k.frame)
  PROVE  Calm(c)
  <1>1. ASSUME NEW r \in Tasks, Fresh(c, r)'
        PROVE  Fresh(c, r) /\ task'[c][r].copy.key = task[c][r].copy.key
    <2>1. CASE r = t
      BY <1>1, <2>1 DEF Step, Fresh
    <2>2. CASE r # t
      BY <1>1, <2>2 DEF Step, Fresh
    <2> QED
      BY <2>1, <2>2
  <1>2. HandCalm(c)
    BY HandStep
  <1> QED
    BY <1>1, <1>2 DEF Calm

\* A step that may end tasks and lose frames, and does no more.
LEMMA CalmEnd ==
  ASSUME Types, NEW c \in Clients,
         row'[c] \in {row[c], NoSession}, otks'[c] = otks[c], used'[c] = used[c],
         read'[c] = read[c], On(wire'[c]) \subseteq On(wire[c]),
         \A t \in Tasks : task'[c][t] \in {task[c][t], Idle}
  PROVE  Calm(c)
  <1>1. /\ Idle.at \notin {"pin", "save"} /\ Idle.at \notin First /\ Idle.at \notin Later
        /\ "proc" \in Tasks
    BY IdleJob DEF First, Later, Tasks
  <1>2. \A t \in Tasks : Fresh(c, t)' =>
           Fresh(c, t) /\ task'[c][t].copy.key = task[c][t].copy.key
    BY <1>1 DEF Fresh
  <1>3. PICK j, i : j = task'[c]["proc"] /\ i = task[c]["proc"]
    OBVIOUS
  <1>4. j \in {i, Idle}
    BY <1>1, <1>3
  <1>5. /\ j.at \in First => i.at \in First /\ j.frame = i.frame
        /\ j.at \in Later => i.at = j.at /\ j.frame = i.frame
    BY <1>1, <1>4
  <1> QED
    BY <1>2, <1>3, <1>5 DEF Calm, HandCalm

LEMMA WireSame == ASSUME UNCHANGED wire, NEW c PROVE On(wire'[c]) \subseteq On(wire[c])
  OBVIOUS

\* The operations that are calm.
LEMMA SendCalm ==
  ASSUME Types, NEW c \in Clients,
         \/ Sends(c) \/ OpensChat(c) \/ DeleteChat(c)
         \/ \E t \in Tasks : FetchFails(c, t) \/ PinContact(c, t)
         \/ Replenish(c) \/ PublishKeys(c)
  PROVE  Calm(c)
  <1>0. /\ RowsOK /\ TaskOK /\ HistOK /\ "cmd" \in Tasks
        /\ \A d \in Clients : UNCHANGED wire => On(wire'[d]) \subseteq On(wire[d])
    BY WireSame DEF Types, Shape, Tasks
  <1>1. CASE Sends(c)
    <2>1. PICK t \in Tasks, op \in {"start", "text", "control", "left"},
               a \in {"fetch", "save", "delete"} : Step(c, t, SendJob(c, op, a))
      BY <1>1, SendsStep
    <2> DEFINE k == SendJob(c, op, a)
    <2>2. k.loaded = row[c] /\ k.copy = row[c] /\ k.at = a /\ JobOK(c, t, k)
      BY <1>0, <2>1, SendJobFields DEF Step
    <2>3. ~(k.at \in {"pin", "save"} /\ k.loaded = NoSession)
      BY <2>2, OlmConstants DEF JobOK, New
    <2>4. k.at \notin First /\ k.at \notin Later
      BY <2>2 DEF First, Later
    <2>5. UNCHANGED <<row, otks, used, read, wire>>
      BY <1>1, SendsStep DEF vaultRows, relay, got, history
    <2> HIDE DEF k
    <2> QED
      BY <1>0, <2>1, <2>3, <2>4, <2>5, CalmStep DEF k
  <1>2. CASE OpensChat(c)
    <2>1. UNCHANGED <<row, otks, used, read, wire, task>>
      BY <1>2 DEF OpensChat, StartDm, Begin, relay, got, history
    <2> QED
      BY <1>0, <2>1, CalmEnd
  <1>3. CASE DeleteChat(c)
    <2>1. row'[c] = NoSession /\ UNCHANGED <<otks, used, read, wire>> /\ Step(c, "cmd", Idle)
      BY <1>0, <1>3, EndSteps DEF DeleteChat, RowsOK, relay, got
    <2>2. \A t \in Tasks : task'[c][t] \in {task[c][t], Idle}
      BY <2>1 DEF Step
    <2> QED
      BY <1>0, <2>1, <2>2, CalmEnd
  <1>4. ASSUME NEW t \in Tasks, FetchFails(c, t) PROVE Calm(c)
    <2>1. UNCHANGED <<row, otks, used, read, wire>> /\ Step(c, t, Idle)
      BY <1>4, EndSteps DEF FetchFails, vaultRows, history
    <2>2. \A r \in Tasks : task'[c][r] \in {task[c][r], Idle}
      BY <2>1 DEF Step
    <2> QED
      BY <1>0, <2>1, <2>2, CalmEnd
  <1>5. ASSUME NEW t \in Tasks, PinContact(c, t) PROVE Calm(c)
    <2>1. UNCHANGED <<row, otks, used, read, wire>> /\ task[c][t] \in Jobs
      BY <1>0, <1>5 DEF PinContact, relay, got, TaskOK
    <2>2. ASSUME NEW a \in {"save", "inbound"}, Step(c, t, Moved(task[c][t], a)),
                 a = "save" => task[c][t].at = "pin",
                 a = "inbound" => task[c][t].at = "rpin" /\ t = "proc"
          PROVE  Calm(c)
      <3> DEFINE k == Moved(task[c][t], a)
      <3>1. k.at = a /\ k.loaded = task[c][t].loaded /\ k.copy = task[c][t].copy
            /\ k.frame = task[c][t].frame
        BY <2>1, MovedJob DEF SendSteps, ReadSteps
      <3>2. k.at \in {"pin", "save"} /\ k.loaded = NoSession =>
                Fresh(c, t) /\ k.copy.key = task[c][t].copy.key
        BY <2>2, <3>1 DEF Fresh
      <3>3. k.at \in First => task[c]["proc"].at \in First /\ k.frame = task[c]["proc"].frame
        BY <2>2, <3>1 DEF First
      <3>4. k.at \notin Later
        BY <3>1 DEF Later
      <3>5. Step(c, t, k)
        BY <2>2
      <3> HIDE DEF k
      <3> QED
        BY <1>0, <2>1, <3>2, <3>3, <3>4, <3>5, CalmStep
    <2> QED
      BY <1>5, <2>2, PinStep DEF At
  <1>6. CASE Replenish(c)
    <2>1. UNCHANGED <<row, otks, used, read, wire>>
      BY <1>6 DEF Replenish, vaultRows, relay, got, history
    <2>2. Step(c, "cmd", RenewJob(c)) /\ RenewJob(c).at = "renew"
      BY <1>6, RenewStep
    <2>3. "renew" \notin First /\ "renew" \notin Later
      BY DEF First, Later
    <2> QED
      BY <1>0, <2>1, <2>2, <2>3, CalmStep
  <1>7. CASE PublishKeys(c)
    <2>1. UNCHANGED <<row, otks, used, read, wire>> /\ Step(c, "cmd", Idle)
      BY <1>7, EndSteps DEF PublishKeys, vaultRows, got, history
    <2>2. \A t \in Tasks : task'[c][t] \in {task[c][t], Idle}
      BY <2>1 DEF Step
    <2> QED
      BY <1>0, <2>1, <2>2, CalmEnd
  <1> QED
    BY <1>1, <1>2, <1>3, <1>4, <1>5, <1>6, <1>7

LEMMA ReceiveCalm ==
  ASSUME Types, Sound, NEW c \in Clients, ReadOK(c),
         \/ Receive(c) \/ CreateInbound(c) \/ (\E e \in Idents : FetchSender(c, e))
         \/ Crash(c) \/ Redeliver(c)
  PROVE  Calm(c)
  <1>0. /\ RowsOK /\ WireOK /\ TaskOK /\ HistOK /\ "cmd" \in Tasks /\ "proc" \in Tasks
        /\ \A d \in Clients : UNCHANGED wire => On(wire'[d]) \subseteq On(wire[d])
    BY WireSame DEF Types, Shape, Tasks
  <1>1. CASE Receive(c)
    <2> DEFINE f == Head(wire[c])
    <2>1. /\ f \in Frames /\ wire[c] \in Seq(Frames) /\ wire[c] # <<>>
          /\ wire' = [wire EXCEPT ![c] = Tail(@)]
          /\ UNCHANGED <<row, used, otks, read>>
      BY <1>1, ReceiveStep DEF Receive, vaultRows, history
    <2>2. f \in On(wire[c]) /\ On(wire'[c]) \subseteq On(wire[c])
      BY <1>0, <2>1, OnTail DEF WireOK
    <2>3. CASE UNCHANGED task
      BY <2>1, <2>2, <2>3, CalmEnd
    <2>4. CASE Reads(row[c], f) /\ Step(c, "proc", ReadJob(c, f))
      <3> DEFINE k == ReadJob(c, f)
      <3>1. k.at = "rsave" /\ k.frame = f /\ Step(c, "proc", k)
        BY <2>1, <2>4, ReadJobFields
      <3>2. ~Dead(c, f)
        BY <2>4 DEF Dead, Reads
      <3>3. ~Was(c, f)
        BY <2>2, <3>2 DEF ReadOK, WireDead
      <3>4. "rsave" \notin First
        BY DEF First
      <3> HIDE DEF k, f
      <3> QED
        BY <1>0, <2>1, <2>2, <3>1, <3>3, <3>4, CalmStep
    <2>5. ASSUME NEW a \in {"rfetch", "inbound"}, Step(c, "proc", FirstJob(c, f, a))
          PROVE  Calm(c)
      <3> DEFINE k == FirstJob(c, f, a)
      <3>1. k.at = a /\ k.frame = f /\ Step(c, "proc", k)
        BY <2>1, <2>5, FirstJobFields
      <3>2. a \notin Later /\ a \notin {"pin", "save"}
        BY DEF Later
      <3> HIDE DEF k, f
      <3> QED
        BY <1>0, <2>1, <2>2, <3>1, <3>2, CalmStep
    <2> QED
      BY <1>1, <2>3, <2>4, <2>5, ReceiveStep
  <1>2. CASE CreateInbound(c)
    <2>1. UNCHANGED <<row, otks, used, read, wire>>
      BY <1>2 DEF CreateInbound, vaultRows, relay, history
    <2>2. CASE Step(c, "proc", Idle)
      <3>1. \A r \in Tasks : task'[c][r] \in {task[c][r], Idle}
        BY <2>2 DEF Step
      <3> QED
        BY <1>0, <2>1, <3>1, CalmEnd
    <2>3. CASE ~Step(c, "proc", Idle)
      <3>1. PICK f : f = task[c]["proc"].frame
        OBVIOUS
      <3>2. /\ Step(c, "proc", Opened(c)) /\ Opened(c).at = "asave" /\ Opened(c).frame = f
            /\ f.key[2] \in otks[c] /\ JobOK(c, "proc", Opened(c))
            /\ task[c]["proc"].at = "inbound"
        BY <1>2, <2>3, <3>1, InboundStep DEF Step
      <3>3. f.pre /\ f.ident = Real /\ f \in FramesTo(c)
        BY <1>0, <3>1, <3>2, OwnSessions DEF JobOK, ReadSteps
      <3>4. f.key[1] = c
        BY <3>3, OwnKey
      <3>5. ~Was(c, f)
        BY <3>1, <3>2, <3>4 DEF ReadOK, HandDead, Dead, First
      <3>6. "asave" \notin First
        BY DEF First
      <3> QED
        BY <1>0, <2>1, <3>2, <3>5, <3>6, CalmStep
    <2> QED
      BY <2>2, <2>3
  <1>3. ASSUME NEW e \in Idents, FetchSender(c, e) PROVE Calm(c)
    <2>1. UNCHANGED <<row, otks, used, read, wire>> /\ task[c]["proc"].at \in First
      BY <1>3 DEF FetchSender, vaultRows, history, At, First
    <2>2. CASE Step(c, "proc", Idle)
      <3>1. \A r \in Tasks : task'[c][r] \in {task[c][r], Idle}
        BY <2>2 DEF Step
      <3> QED
        BY <1>0, <2>1, <3>1, CalmEnd
    <2>3. CASE ~Step(c, "proc", Idle)
      <3>1. /\ Step(c, "proc", Greeted(c, e)) /\ Greeted(c, e).at = "rpin"
            /\ Greeted(c, e).frame = task[c]["proc"].frame
        BY <1>3, <2>3, SenderStep
      <3>2. "rpin" \notin Later
        BY DEF Later
      <3> QED
        BY <1>0, <2>1, <3>1, <3>2, CalmStep
    <2> QED
      BY <2>2, <2>3
  <1>4. CASE Crash(c) \/ Redeliver(c)
    <2>1. UNCHANGED <<row, otks, used, read>>
      BY <1>4 DEF Crash, Redeliver, vaultRows, got, history
    <2>2. \A t \in Tasks : task'[c][t] \in {task[c][t], Idle}
      BY <1>4, CrashTasks DEF Redeliver
    <2>3. On(wire'[c]) \subseteq On(wire[c])
      <3>1. wire[c] \in Seq(Frames)
        BY <1>0 DEF WireOK
      <3>2. CASE Crash(c)
        <4>1. PICK n \in 0..Len(wire[c]) : wire'[c] = SubSeq(wire[c], n + 1, Len(wire[c]))
          BY <1>0, <3>2 DEF Crash, WireOK
        <4> QED
          BY <3>1, <4>1, OnRest
      <3>3. CASE Redeliver(c)
        <4>1. wire[c] # <<>> /\ wire'[c] = <<Head(wire[c])>> \o wire[c]
          BY <1>0, <3>3 DEF Redeliver, WireOK
        <4> QED
          BY <3>1, <4>1, OnAgain
      <3> QED
        BY <1>4, <3>2, <3>3
    <2> QED
      BY <2>1, <2>2, <2>3, CalmEnd
  <1> QED
    BY <1>1, <1>2, <1>3, <1>4

----------------------------------------------------------------------------
(* The operations that are not calm.                                       *)

LEMMA HeldKept ==
  ASSUME Types, Sound, NEW c \in Clients, HeldOK(c), c \notin overtaken',
         Others(c) \/ \E t \in Tasks : SaveSend(c, t)
  PROVE  HeldOK(c)'
  <1>0. RowsOK /\ TaskOK /\ HistOK /\ "cmd" \in Tasks /\ "proc" \in Tasks
    BY DEF Types, Shape, Tasks
  <1>1. CASE SaveKeys(c)
    <2>1. /\ otks'[c] = task[c]["cmd"].acct \cup {made[c] + 1} /\ made'[c] = made[c] + 1
          /\ pool' = pool /\ Overtakes(c, otks[c] # task[c]["cmd"].acct)
      BY <1>0, <1>1 DEF SaveKeys, RowsOK
    <2>2. otks[c] = task[c]["cmd"].acct
      BY <1>0, <2>1, OvertakesMore
    <2> QED
      BY <2>1, <2>2 DEF HeldOK
  <1>2. CASE PublishKeys(c)
    <2>1. /\ otks' = otks /\ made' = made /\ pool'[c] = pool[c] \cup {made[c]}
          /\ At(c, "cmd", "publish")
      BY <1>0, <1>2 DEF PublishKeys, RowsOK, vaultRows
    <2> QED
      BY <2>1 DEF HeldOK
  <1>3. CASE SaveAccount(c)
    <2>1. PICK f : f = task[c]["proc"].frame
      OBVIOUS
    <2>2. /\ otks'[c] = task[c]["proc"].acct \ {f.key[2]} /\ made' = made /\ pool' = pool
          /\ Overtakes(c, otks[c] # task[c]["proc"].acct) /\ task[c]["proc"].at = "asave"
      BY <1>0, <1>3, <2>1 DEF SaveAccount, RowsOK, relay, At
    <2>3. otks[c] = task[c]["proc"].acct
      BY <1>0, <2>2, OvertakesMore
    <2>4. f.pre /\ f.ident = Real /\ f \in FramesTo(c)
      BY <2>1, <2>2, OpenedFrame
    <2>5. f.key[2] \notin pool[c] /\ (At(c, "cmd", "publish") => f.key[2] # made[c])
      <3>1. f.key[1] = c /\ c # Stranger /\ IsSpent(f.key)
        BY <2>4, OwnKey, PeerFacts DEF Sound, FramesOK, FrameOK
      <3> QED
        BY <3>1 DEF IsSpent, Spent
    <2>6. At(c, "cmd", "publish")' => At(c, "cmd", "publish")
      BY <1>3, ReceiveFrugal DEF Frugal
    <2> QED
      BY <2>2, <2>3, <2>5, <2>6 DEF HeldOK
  <1>4. CASE ~(SaveKeys(c) \/ PublishKeys(c) \/ SaveAccount(c))
    <2>1. Frugal
      BY <1>4, SendFrugal, ReceiveFrugal DEF Others
    <2>2. otks' = otks
      <3>1. Sends(c) => otks' = otks
        BY SendsStep DEF vaultRows
      <3>2. OpensChat(c) => otks' = otks
        BY DEF OpensChat, StartDm, Begin
      <3>3. \A t \in Tasks : SaveSend(c, t) => otks' = otks
        BY DEF SaveSend
      <3> QED
        BY <1>4, <3>1, <3>2, <3>3
           DEF Others, DeleteChat, FetchFails, PinContact, Fetch, FetchStray, Replenish, Receive,
               CreateInbound, Deliver, FetchSender, Crash, Redeliver, vaultRows
    <2> QED
      BY <2>1, <2>2 DEF Frugal, HeldOK
  <1> QED
    BY <1>1, <1>2, <1>3, <1>4

\* A session is saved and its task ends.
LEMMA RowUse ==
  ASSUME NEW c \in Clients, NEW t \in Tasks, NEW j, Step(c, t, j), j.at \in {"idle", "delete"},
         UseOK(c), NEW s, NEW m, row'[c] = s, s # NoSession, otks'[c] = otks[c],
         \A u \in used'[c] : u \in used[c] \/ u = <<s.key, m>>,
         \A r \in Tasks : r # t /\ Fresh(c, r) => task[c][r].copy.key # s.key,
         \A n \in otks[c] : <<c, n>> # s.key,
         t # "proc" /\ At(c, "proc", "isave") => task[c]["proc"].frame.key # s.key,
         \A u \in used'[c] : u[1] = s.key => u[2] < s.snd
  PROVE  UseOK(c)'
  <1>1. \A k : Unused(c, k) /\ k # s.key => Unused(c, k)'
    BY DEF Unused, UsedBy
  <1>2. Below(c)'
    BY DEF Below
  <1>3. ASSUME NEW r \in Tasks, Fresh(c, r)'
        PROVE  r # t /\ Fresh(c, r) /\ task'[c][r] = task[c][r]
    <2>1. r # t
      BY <1>3 DEF Fresh, Step
    <2> QED
      BY <1>3, <2>1 DEF Fresh, Step
  <1>4. FreshUnused(c)'
    <2> SUFFICES ASSUME NEW r \in Tasks, Fresh(c, r)'
                 PROVE  /\ Unused(c, task[c][r].copy.key)'
                        /\ \A i \in Tasks : i # r /\ Fresh(c, i)' =>
                              task'[c][i].copy.key # task'[c][r].copy.key
      BY DEF FreshUnused
    <2>1. PICK k : k = task[c][r].copy.key
      OBVIOUS
    <2>2. Fresh(c, r) /\ task'[c][r].copy.key = k /\ r # t
      BY <1>3, <2>1
    <2>3. Unused(c, k)'
      BY <1>1, <2>1, <2>2 DEF UseOK, FreshUnused
    <2>4. \A i \in Tasks : i # r /\ Fresh(c, i)' => task'[c][i].copy.key # k
      BY <1>3, <2>1, <2>2 DEF UseOK, FreshUnused
    <2> QED
      BY <2>2, <2>3, <2>4 DEF Unused, UsedBy
  <1>5. HalvesUnused(c)'
    BY <1>1 DEF UseOK, HalvesUnused
  <1>6. SpentUnused(c)'
    <2> SUFFICES ASSUME At(c, "proc", "isave")'
                 PROVE  /\ Unused(c, task[c]["proc"].frame.key)'
                        /\ task'[c]["proc"].frame.key[2] \notin otks'[c]
      BY DEF SpentUnused
    <2>1. PICK k : k = task[c]["proc"].frame.key
      OBVIOUS
    <2>2. t # "proc" /\ "proc" \in Tasks
      BY DEF Step, At, Tasks
    <2>3. At(c, "proc", "isave") /\ task'[c]["proc"] = task[c]["proc"]
      BY <2>2 DEF Step, At
    <2>4. Unused(c, k)' /\ k[2] \notin otks'[c]
      BY <1>1, <2>1, <2>2, <2>3 DEF UseOK, SpentUnused
    <2> QED
      BY <2>1, <2>3, <2>4 DEF Unused, UsedBy
  <1> QED
    BY <1>2, <1>4, <1>5, <1>6 DEF UseOK

\* A key that was not given yet is in nobody's hands.
LEMMA UngivenUnused ==
  ASSUME Types, Sound, NEW c \in Clients, NEW k, ~IsSpent(k)
  PROVE  /\ Unused(c, k)
         /\ \A r \in Tasks : Fresh(c, r) => task[c][r].copy.key # k
         /\ At(c, "proc", "isave") => task[c]["proc"].frame.key # k
  <1>1. ~UsedBy(c, k)
    BY DEF Sound, KeysOK, UsedBy
  <1>2. row[c] # NoSession => row[c].key # k
    BY OwnSessions DEF Tasks, Sound, SessionsOK, SessOK
  <1>3. ASSUME NEW r \in Tasks, Fresh(c, r) PROVE task[c][r].copy.key # k
    <2>1. JobOK(c, r, task[c][r])
      BY DEF Types, JobsOK
    <2>2. task[c][r].copy \in SessionsOf(c)
      BY <1>3, <2>1, OwnSessions, OlmConstants DEF Fresh, JobOK, New
    <2> QED
      BY <2>2 DEF Sound, SessionsOK, SessOK
  <1>4. At(c, "proc", "isave") => task[c]["proc"].frame.key # k
    <2>1. At(c, "proc", "isave") => task[c]["proc"].frame \in FramesTo(c)
      BY OwnSessions DEF At, ReadSteps, Tasks
    <2> QED
      BY <2>1 DEF Sound, FramesOK, FrameOK
  <1> QED
    BY <1>1, <1>2, <1>3, <1>4 DEF Unused

\* A session a task has made is with a key of the other's.
LEMMA FreshKey ==
  ASSUME Types, NEW c \in Clients, NEW t \in Tasks, Fresh(c, t)
  PROVE  New(c, task[c][t].copy) /\ task[c][t].copy.key[1] # c
  <1>1. JobOK(c, t, task[c][t])
    BY DEF Types, JobsOK
  <1> QED
    BY <1>1, PeerFacts DEF Fresh, JobOK, New

\* A step that saves no session, with what becomes of the keys in the account.
LEMMA KeysUse ==
  ASSUME NEW c \in Clients, NEW t \in Tasks, NEW k, Step(c, t, k), UseOK(c),
         k.at \notin {"pin", "save"}, row'[c] = row[c], used'[c] = used[c],
         \A n \in otks'[c] : n \in otks[c] \/ Unused(c, <<c, n>>), SpentUnused(c)'
  PROVE  UseOK(c)'
  <1>1. \A n : Unused(c, n)' <=> Unused(c, n)
    BY DEF Unused, UsedBy
  <1>2. Below(c)' /\ HalvesUnused(c)'
    BY <1>1 DEF UseOK, Below, HalvesUnused
  <1>3. ASSUME NEW r \in Tasks, Fresh(c, r)'
        PROVE  Fresh(c, r) /\ task'[c][r] = task[c][r]
    <2>1. r # t
      BY <1>3 DEF Fresh, Step
    <2> QED
      BY <1>3, <2>1 DEF Fresh, Step
  <1>4. FreshUnused(c)'
    <2> SUFFICES ASSUME NEW r \in Tasks, Fresh(c, r)'
                 PROVE  /\ Unused(c, task[c][r].copy.key)'
                        /\ \A i \in Tasks : i # r /\ Fresh(c, i)' =>
                              task'[c][i].copy.key # task'[c][r].copy.key
      BY DEF FreshUnused
    <2>1. PICK n : n = task[c][r].copy.key
      OBVIOUS
    <2>2. Fresh(c, r) /\ task'[c][r].copy.key = n
      BY <1>3, <2>1
    <2>3. Unused(c, n)'
      BY <1>1, <2>1, <2>2 DEF UseOK, FreshUnused
    <2>4. \A i \in Tasks : i # r /\ Fresh(c, i)' => task'[c][i].copy.key # n
      BY <1>3, <2>1, <2>2 DEF UseOK, FreshUnused
    <2> QED
      BY <2>2, <2>3, <2>4 DEF Unused, UsedBy
  <1> QED
    BY <1>2, <1>4 DEF UseOK

\* A bundle brings a key that was not given before, of the other's or not.
LEMMA FetchUse ==
  ASSUME Types, Sound, NEW c \in Clients, NEW t \in Tasks, NEW k, NEW n, Step(c, t, k),
         k.at \in {"pin", "save"}, k.copy.key = n, ~IsSpent(n), UNCHANGED <<row, otks, used>>, UseOK(c)
  PROVE  UseOK(c)'
  <1>1. \A i : Unused(c, i)' <=> Unused(c, i)
    BY DEF Unused, UsedBy
  <1>2. Below(c)' /\ HalvesUnused(c)'
    BY <1>1 DEF UseOK, Below, HalvesUnused
  <1>3. Unused(c, n) /\ \A r \in Tasks : Fresh(c, r) => task[c][r].copy.key # n
    BY UngivenUnused
  <1>4. ASSUME NEW r \in Tasks, r # t, Fresh(c, r)'
        PROVE  Fresh(c, r) /\ task'[c][r] = task[c][r]
    BY <1>4 DEF Fresh, Step
  <1>5. task'[c][t].copy.key = n
    BY DEF Step
  <1>6. FreshUnused(c)'
    <2> SUFFICES ASSUME NEW r \in Tasks, Fresh(c, r)'
                 PROVE  /\ Unused(c, task[c][r].copy.key)'
                        /\ \A i \in Tasks : i # r /\ Fresh(c, i)' =>
                              task'[c][i].copy.key # task'[c][r].copy.key
      BY DEF FreshUnused
    <2>1. PICK m : m = task'[c][r].copy.key
      OBVIOUS
    <2>2. CASE r = t
      <3>1. m = n
        BY <1>5, <2>1, <2>2
      <3>2. \A i \in Tasks : i # r /\ Fresh(c, i)' => task'[c][i].copy.key # m
        BY <1>3, <1>4, <2>2, <3>1
      <3> QED
        BY <1>1, <1>3, <2>1, <3>1, <3>2 DEF Unused, UsedBy
    <2>3. CASE r # t
      <3>1. Fresh(c, r) /\ task[c][r].copy.key = m
        BY <1>4, <2>1, <2>3
      <3>2. Unused(c, m)'
        BY <1>1, <3>1 DEF UseOK, FreshUnused
      <3>3. \A i \in Tasks : i # r /\ Fresh(c, i)' => task'[c][i].copy.key # m
        BY <1>3, <1>4, <1>5, <3>1 DEF UseOK, FreshUnused
      <3> QED
        BY <2>1, <3>2, <3>3 DEF Unused, UsedBy
    <2> QED
      BY <2>2, <2>3
  <1>7. SpentUnused(c)'
    <2> SUFFICES ASSUME At(c, "proc", "isave")'
                 PROVE  /\ Unused(c, task[c]["proc"].frame.key)'
                        /\ task'[c]["proc"].frame.key[2] \notin otks'[c]
      BY DEF SpentUnused
    <2>1. PICK m : m = task[c]["proc"].frame.key
      OBVIOUS
    <2>2. t # "proc" /\ "proc" \in Tasks
      BY DEF Step, At, Tasks
    <2>3. At(c, "proc", "isave") /\ task'[c]["proc"] = task[c]["proc"]
      BY <2>2 DEF Step, At
    <2>4. Unused(c, m)' /\ m[2] \notin otks'[c]
      BY <1>1, <2>1, <2>3 DEF UseOK, SpentUnused
    <2> QED
      BY <2>1, <2>3, <2>4 DEF Unused, UsedBy
  <1> QED
    BY <1>2, <1>6, <1>7 DEF UseOK

LEMMA FetchOnce ==
  ASSUME Types, Sound, NEW c \in Clients, NEW t \in Tasks, NEW e \in Idents, Fetch(c, t, e),
         UseOK(c), ReadOK(c)
  PROVE  UseOK(c)' /\ ReadOK(c)'
  <1>1. UNCHANGED <<row, otks, used, read, wire>> /\ On(wire'[c]) \subseteq On(wire[c])
    BY DEF Fetch, vaultRows, got, history
  <1>2. CASE Step(c, t, Idle)
    <2>1. \A r \in Tasks : task'[c][r] \in {task[c][r], Idle}
      BY <1>2 DEF Step
    <2>2. row'[c] = row[c] /\ otks'[c] = otks[c] /\ used'[c] = used[c] /\ read'[c] = read[c]
      BY <1>1
    <2>3. Calm(c)
      BY <1>1, <2>1, <2>2, CalmEnd
    <2> QED
      BY <2>3, CalmUse, CalmIsFrames, CalmRead
  <1>3. CASE ~Step(c, t, Idle)
    <2>1. PICK n \in Given(c) : pin[c] \in {NoIdent, e} /\ n \in Nat /\ Step(c, t, Bundled(c, t, e, n))
      BY <1>3, FetchStep
    <2>2. At(c, t, "fetch")
      BY DEF Fetch
    <2>3. PICK k : k = Bundled(c, t, e, n)
      OBVIOUS
    <2>4. Step(c, t, k) /\ k.at = "pin" /\ k.copy.key = <<Peer(c), n>>
      BY ZenonT(30), <2>1, <2>2, <2>3, BundledFields
    <2>5. ~IsSpent(<<Peer(c), n>>)
      BY <2>1, PeerFacts DEF Given, IsSpent, Spent
    <2>6. UseOK(c)'
      BY <1>1, <2>4, <2>5, FetchUse
    <2>7. "pin" \notin First /\ "pin" \notin Later
      BY DEF First, Later
    <2>8. HandCalm(c)
      BY <2>4, <2>7, HandStep
    <2>9. CalmFrames(c)
      BY <1>1, <2>8 DEF CalmFrames, Dead
    <2> QED
      BY <2>6, <2>9, CalmRead
  <1> QED
    BY <1>2, <1>3

LEMMA StrayOnce ==
  ASSUME Types, Sound, NEW c \in Clients, NEW t \in Tasks, NEW e \in Idents,
         FetchStray(c, t, e), UseOK(c), ReadOK(c)
  PROVE  UseOK(c)' /\ ReadOK(c)'
  <1>1. /\ UNCHANGED <<row, otks, used, read, wire>> /\ On(wire'[c]) \subseteq On(wire[c])
        /\ At(c, t, "fetch") /\ e # Real /\ Step(c, t, Strayed(c, t, e)) /\ faults \in Nat
    BY StrayStep, OlmConstants DEF vaultRows, got, history, Types, Shape, HistOK
  <1>2. PICK k, n : k = Strayed(c, t, e) /\ n = <<Stranger, faults + 1>>
    OBVIOUS
  <1>3. Step(c, t, k) /\ k.at = "save" /\ k.copy.key = n
    BY <1>1, <1>2, StrayedFields
  <1>4. ~IsSpent(n)
    BY <1>1, <1>2 DEF IsSpent
  <1>5. UseOK(c)'
    BY <1>1, <1>3, <1>4, FetchUse
  <1>6. "save" \notin First /\ "save" \notin Later
    BY DEF First, Later
  <1>7. HandCalm(c)
    BY <1>3, <1>6, HandStep
  <1>8. CalmFrames(c)
    BY <1>1, <1>7 DEF CalmFrames, Dead
  <1> QED
    BY <1>5, <1>8, CalmRead

LEMMA KeysOnce ==
  ASSUME Types, Sound, NEW c \in Clients, SaveKeys(c), UseOK(c), ReadOK(c), c \notin overtaken'
  PROVE  UseOK(c)' /\ ReadOK(c)'
  <1>0. RowsOK /\ HistOK /\ TaskOK /\ "cmd" \in Tasks /\ "proc" \in Tasks /\ made[c] \in Nat
    BY DEF Types, Shape, RowsOK, Tasks
  <1>1. PICK m : m = made[c] + 1
    OBVIOUS
  <1>2. /\ UNCHANGED <<row, used, read, wire>> /\ On(wire'[c]) \subseteq On(wire[c])
        /\ otks'[c] = task[c]["cmd"].acct \cup {m}
        /\ Overtakes(c, otks[c] # task[c]["cmd"].acct)
    BY <1>0, <1>1 DEF SaveKeys, RowsOK, got
  <1>3. otks'[c] = otks[c] \cup {m}
    BY <1>0, <1>2, OvertakesMore
  <1>4. m \notin Spent(c) /\ ~IsSpent(<<c, m>>)
    BY <1>0, <1>1, PeerFacts DEF Spent, IsSpent
  <1>5. PICK k : k = Moved(task[c]["cmd"], "publish")
    OBVIOUS
  <1>6. Step(c, "cmd", k) /\ k.at = "publish"
    <2>1. task[c]["cmd"] \in Jobs
      BY <1>0 DEF TaskOK
    <2> QED
      BY <1>5, <2>1, KeysStep, MovedJob DEF CmdSteps
  <1>7. SpentUnused(c)'
    <2> SUFFICES ASSUME At(c, "proc", "isave")'
                 PROVE  /\ Unused(c, task[c]["proc"].frame.key)'
                        /\ task'[c]["proc"].frame.key[2] \notin otks'[c]
      BY DEF SpentUnused
    <2>1. PICK f : f = task[c]["proc"].frame
      OBVIOUS
    <2>2. At(c, "proc", "isave") /\ task'[c]["proc"] = task[c]["proc"]
      BY <1>0, <1>6 DEF Step, At
    <2>3. Unused(c, f.key) /\ f.key[2] \notin otks[c]
      BY <2>1, <2>2 DEF UseOK, SpentUnused
    <2>4. f \in FramesTo(c) /\ f.pre /\ f.ident = Real
      BY <2>1, <2>2, OpenedFrame DEF At
    <2>5. f.key[2] # m
      <3>1. f.key[1] = c /\ c # Stranger /\ IsSpent(f.key)
        BY <2>4, OwnKey, PeerFacts DEF Sound, FramesOK, FrameOK
      <3> QED
        BY <1>4, <3>1 DEF IsSpent
    <2> QED
      BY <1>2, <1>3, <2>1, <2>2, <2>3, <2>5 DEF Unused, UsedBy
  <1>8. UseOK(c)'
    <2>1. Unused(c, <<c, m>>)
      BY <1>4, UngivenUnused
    <2>2. \A n \in otks'[c] : n \in otks[c] \/ Unused(c, <<c, n>>)
      BY <1>3, <2>1
    <2>3. row'[c] = row[c] /\ used'[c] = used[c] /\ k.at \notin {"pin", "save"}
      BY <1>2, <1>6
    <2> QED
      BY <1>0, <1>6, <1>7, <2>2, <2>3, KeysUse
  <1>9. CalmFrames(c)
    <2>1. "publish" \notin First /\ "publish" \notin Later
      BY DEF First, Later
    <2>2. HandCalm(c)
      BY <1>0, <1>6, <2>1, HandStep
    <2>3. ASSUME NEW f \in FramesTo(c), Dead(c, f) PROVE Dead(c, f)'
      <3>1. f.key[1] = c => f.key[2] # m
        BY <1>4, <2>3, PeerFacts DEF Sound, FramesOK, FrameOK, IsSpent
      <3> QED
        BY <1>2, <1>3, <2>3, <3>1 DEF Dead
    <2> QED
      BY <1>2, <2>2, <2>3 DEF CalmFrames
  <1> QED
    BY <1>8, <1>9, CalmRead

LEMMA AccountOnce ==
  ASSUME Types, Sound, NEW c \in Clients, SaveAccount(c), UseOK(c), ReadOK(c), c \notin overtaken'
  PROVE  UseOK(c)' /\ ReadOK(c)'
  <1>0. /\ RowsOK /\ HistOK /\ TaskOK /\ "cmd" \in Tasks /\ "proc" \in Tasks
        /\ task[c]["proc"] \in Jobs /\ JobOK(c, "proc", task[c]["proc"])
    BY DEF Types, Shape, TaskOK, JobsOK, Tasks
  <1>1. PICK f : f = task[c]["proc"].frame
    OBVIOUS
  <1>2. PICK n : n = f.key[2]
    OBVIOUS
  <1>3. /\ UNCHANGED <<row, used, read, wire>>
        /\ otks'[c] = task[c]["proc"].acct \ {n}
        /\ Overtakes(c, otks[c] # task[c]["proc"].acct) /\ task[c]["proc"].at = "asave"
    BY <1>0, <1>1, <1>2 DEF SaveAccount, RowsOK, relay, got, At
  <1>4. otks'[c] = otks[c] \ {n} /\ n \in otks[c]
    BY <1>0, <1>1, <1>2, <1>3, OvertakesMore DEF JobOK
  <1>5. f \in FramesTo(c) /\ f.pre /\ f.ident = Real
    BY <1>0, <1>1, <1>3, OwnSessions DEF JobOK, ReadSteps
  <1>6. f.key = <<c, n>> /\ f.key[1] # Stranger
    BY <1>2, <1>5, OwnKey, PeerFacts
  <1>7. PICK k : k = Moved(task[c]["proc"], "isave")
    OBVIOUS
  <1>8. Step(c, "proc", k) /\ k.at = "isave" /\ k.frame = f
    BY <1>0, <1>1, <1>7, AccountStep, MovedJob DEF ReadSteps
  <1>9. UseOK(c)'
    <2>1. Unused(c, f.key)
      BY <1>4, <1>6 DEF UseOK, HalvesUnused
    <2>2. SpentUnused(c)'
      <3>1. task'[c]["proc"].frame.key = f.key /\ f.key[2] \notin otks'[c]
        BY <1>2, <1>4, <1>8 DEF Step
      <3> QED
        BY <1>3, <2>1, <3>1 DEF SpentUnused, Unused, UsedBy
    <2>3. row'[c] = row[c] /\ used'[c] = used[c] /\ k.at \notin {"pin", "save"}
      BY <1>3, <1>8
    <2>4. \A i \in otks'[c] : i \in otks[c] \/ Unused(c, <<c, i>>)
      BY <1>4
    <2> QED
      BY <1>0, <1>8, <2>2, <2>3, <2>4, KeysUse
  <1>10. ReadOK(c)'
    <2>1. \A g : (Was(c, g)' <=> Was(c, g)) /\ (Dead(c, g) => Dead(c, g)')
      BY <1>3, <1>4 DEF Was, Dead
    <2>2. WireDead(c)' /\ Once(c)'
      BY <1>3, <2>1 DEF ReadOK, WireDead, Once
    <2>3. ~Was(c, f)
      BY <1>1, <1>3 DEF ReadOK, HandDead, Later
    <2>4. \A g \in On(wire[c]) : Was(c, g) => g.key # f.key
      BY <1>4, <1>6 DEF ReadOK, WireDead, Dead
    <2>5. PICK j : j = task'[c]["proc"]
      OBVIOUS
    <2>6. j.at = "isave" /\ j.frame = f /\ "isave" \notin First
      BY <1>8, <2>5 DEF Step, First
    <2>7. ~Was(c, f)' /\ \A g \in On(wire'[c]) : Was(c, g)' => g.key # f.key
      BY <1>3, <2>1, <2>3, <2>4
    <2>8. HandDead(c)'
      BY <2>5, <2>6, <2>7 DEF HandDead, Was
    <2> QED
      BY <2>2, <2>8 DEF ReadOK
  <1> QED
    BY <1>9, <1>10

LEMMA DeliverUse ==
  ASSUME Types, Sound, NEW c \in Clients, Deliver(c), UseOK(c), c \notin overtaken'
  PROVE  UseOK(c)'
  <1>0. RowsOK /\ HistOK /\ "proc" \in Tasks
    BY DEF Types, Shape, Tasks
  <1>1. PICK k, f : k = task[c]["proc"] /\ f = k.frame
    OBVIOUS
  <1>2. PICK s : s = IF k.at = "rsave" THEN k.copy ELSE Inbound(f)
    OBVIOUS
  <1>3. /\ k \in Jobs /\ k.at \in {"rsave", "isave"} /\ f \in Frames /\ JobOK(c, "proc", k)
        /\ s \in Sessions /\ s.key = f.key /\ row' = [row EXCEPT ![c] = s]
        /\ Overtakes(c, row[c] # k.loaded) /\ UNCHANGED <<otks, used>>
    BY <1>1, <1>2, DeliverFacts
  <1>4. row[c] = k.loaded /\ row'[c] = s /\ otks'[c] = otks[c] /\ used'[c] = used[c]
    BY <1>0, <1>3, OvertakesMore DEF RowsOK
  <1>5. /\ \A i \in Tasks : Fresh(c, i) => task[c][i].copy.key # s.key
        /\ \A n \in otks[c] : <<c, n>> # s.key
        /\ \A u \in used[c] : u[1] = s.key => u[2] < s.snd
    <2>1. CASE k.at = "rsave"
      <3>1. PICK r : r = row[c]
        OBVIOUS
      <3>2. r \in Sessions /\ r # NoSession /\ s.key = r.key /\ s.snd = r.snd
        BY <1>2, <1>3, <1>4, <2>1, <3>1, OlmConstants DEF JobOK, Sessions
      <3>3. \A i \in Tasks : Fresh(c, i) => task[c][i].copy.key # s.key
        BY <3>1, <3>2 DEF UseOK, FreshUnused, Unused
      <3>4. \A n \in otks[c] : <<c, n>> # s.key
        BY <3>1, <3>2 DEF UseOK, HalvesUnused, Unused
      <3>5. \A u \in used[c] : u[1] = s.key => u[2] < s.snd
        BY <3>1, <3>2 DEF UseOK, Below
      <3> QED
        BY <3>3, <3>4, <3>5
    <2>2. CASE k.at = "isave"
      <3>1. f.pre /\ f.ident = Real /\ f \in FramesTo(c)
        BY <1>0, <1>1, <1>3, <2>2, OwnSessions DEF JobOK, ReadSteps
      <3>2. s.key[1] = c
        BY <1>3, <3>1, OwnKey
      <3>3. \A i \in Tasks : Fresh(c, i) => task[c][i].copy.key # s.key
        BY <3>2, FreshKey
      <3>4. Unused(c, s.key) /\ s.key[2] \notin otks[c]
        BY <1>1, <1>3, <2>2 DEF UseOK, SpentUnused, At
      <3>5. \A n \in otks[c] : <<c, n>> # s.key
        <4> SUFFICES ASSUME NEW n \in otks[c], <<c, n>> = s.key PROVE FALSE
          OBVIOUS
        <4>1. s.key[2] = n
          OBVIOUS
        <4> QED
          BY <3>4, <4>1
      <3>6. \A u \in used[c] : u[1] # s.key
        BY <3>4 DEF Unused, UsedBy
      <3> QED
        BY <3>3, <3>5, <3>6
    <2> QED
      BY <1>3, <2>1, <2>2
  <1>6. PICK j : j = Idle
    OBVIOUS
  <1>7. Step(c, "proc", j) /\ j.at \in {"idle", "delete"}
    BY <1>6, EndSteps, IdleJob
  <1>8. s # NoSession /\ \A u \in used'[c] : u \in used[c] \/ u = <<s.key, 0>>
    BY <1>3, <1>4, OlmConstants
  <1>9. \A u \in used'[c] : u[1] = s.key => u[2] < s.snd
    BY <1>4, <1>5
  <1> QED
    BY <1>0, <1>4, <1>5, <1>7, <1>8, <1>9, RowUse

LEMMA DeliverRead ==
  ASSUME Types, Sound, NEW c \in Clients, Deliver(c), UseOK(c), ReadOK(c), c \notin overtaken'
  PROVE  ReadOK(c)'
  <1>0. RowsOK /\ HistOK /\ "proc" \in Tasks
    BY DEF Types, Shape, Tasks
  <1>1. PICK k, f : k = task[c]["proc"] /\ f = k.frame
    OBVIOUS
  <1>2. PICK s : s = IF k.at = "rsave" THEN k.copy ELSE Inbound(f)
    OBVIOUS
  <1>3. /\ k \in Jobs /\ k.at \in {"rsave", "isave"} /\ f \in Frames /\ JobOK(c, "proc", k)
        /\ s \in Sessions /\ s.key = f.key /\ row' = [row EXCEPT ![c] = s]
        /\ Overtakes(c, row[c] # k.loaded) /\ UNCHANGED <<otks, wire>>
        /\ read' = [read EXCEPT ![c] = Append(@, f.no)]
    BY <1>1, <1>2, DeliverFacts DEF relay
  <1>4. /\ row[c] = k.loaded /\ row'[c] = s /\ otks'[c] = otks[c] /\ wire'[c] = wire[c]
        /\ read'[c] = Append(read[c], f.no) /\ read[c] \in Seq(Nat) /\ f.no \in Nat
    BY <1>0, <1>3, OvertakesMore DEF RowsOK, HistOK, Frames
  <1>5. f \in FramesTo(c) /\ ~Was(c, f)
    BY <1>0, <1>1, <1>3, OwnSessions DEF ReadSteps, ReadOK, HandDead, Later
  <1>6. PICK n, a, b : n = Len(read[c]) /\ a = read[c] /\ b = read'[c]
    OBVIOUS
  <1>7. /\ n \in Nat /\ Len(b) = n + 1 /\ b[n + 1] = f.no
        /\ \A i \in 1..n : b[i] = a[i] /\ a[i] # f.no
    BY <1>4, <1>5, <1>6 DEF Was
  <1>8. Once(c)'
    <2>1. \A i, j \in 1..n : i # j => a[i] # a[j]
      BY <1>6 DEF ReadOK, Once
    <2>2. \A i \in 1..(n + 1) : i \in 1..n \/ i = n + 1
      BY <1>7
    <2>3. \A i, j \in 1..(n + 1) : i # j => b[i] # b[j]
      BY <1>7, <2>1, <2>2
    <2> QED
      BY <1>6, <1>7, <2>3 DEF Once
  <1>9. \A g : Was(c, g)' => Was(c, g) \/ g.no = f.no
    <2> SUFFICES ASSUME NEW g, Was(c, g)', g.no # f.no PROVE Was(c, g)
      OBVIOUS
    <2>1. PICK i \in 1..(n + 1) : b[i] = g.no
      BY <1>6, <1>7 DEF Was
    <2>2. i \in 1..n /\ a[i] = g.no
      BY <1>7, <2>1
    <2> QED
      BY <1>6, <2>2 DEF Was
  <1>10. ASSUME NEW g \in On(wire[c]), Was(c, g)' PROVE Dead(c, g)'
    <2>1. g = f \/ Was(c, g)
      BY <1>5, <1>9, <1>10 DEF Sound, Distinct, FramesTo
    <2>2. CASE k.at = "rsave"
      <3>1. PICK r : r = row[c]
        OBVIOUS
      <3>2. /\ r \in Sessions /\ r # NoSession /\ s.key = r.key
            /\ s.rcv = r.rcv \cup {f.idx}
        <4>1. r \in Sessions /\ s = [r EXCEPT !.rcv = @ \cup {f.idx}] /\ s.key = r.key
          BY <1>1, <1>2, <1>3, <1>4, <2>2, <3>1 DEF JobOK
        <4> QED
          BY <4>1, OlmConstants DEF Sessions
      <3>3. CASE g = f
        <4>1. g.key[1] = c => g.key[2] \notin otks[c]
          <5> SUFFICES ASSUME f.key[1] = c, f.key[2] \in otks[c] PROVE FALSE
            BY <3>3
          <5>1. f.key = <<c, f.key[2]>>
            BY <1>3 DEF Frames, Keys
          <5>2. Unused(c, f.key)
            BY <5>1 DEF UseOK, HalvesUnused
          <5> QED
            BY <1>3, <3>1, <3>2, <5>2 DEF Unused
        <4> QED
          BY <1>4, <3>2, <3>3, <4>1 DEF Dead
      <3>4. CASE Was(c, g)
        <4>1. Dead(c, g)
          BY <3>4 DEF ReadOK, WireDead
        <4> QED
          BY <1>4, <3>1, <3>2, <4>1 DEF Dead
      <3> QED
        BY <2>1, <3>3, <3>4
    <2>3. CASE k.at = "isave"
      <3>1. s.rcv = {f.idx}
        BY <1>2, <1>3, <2>3, InboundFields
      <3>2. CASE g = f
        <4>1. f.key[2] \notin otks[c]
          BY <1>1, <2>3 DEF UseOK, SpentUnused, At
        <4> QED
          BY <1>4, <3>1, <3>2, <4>1 DEF Dead
      <3>3. CASE Was(c, g)
        <4>1. Dead(c, g) /\ g.key # f.key
          BY <1>1, <2>3, <3>3 DEF ReadOK, WireDead, HandDead
        <4> QED
          BY <1>3, <1>4, <4>1 DEF Dead
      <3> QED
        BY <2>1, <3>2, <3>3
    <2> QED
      BY <1>3, <2>2, <2>3
  <1>11. WireDead(c)'
    BY <1>4, <1>10 DEF WireDead
  <1>12. HandDead(c)'
    <2>1. PICK j : j = task'[c]["proc"]
      OBVIOUS
    <2>2. j.at = "idle"
      BY <2>1, EndSteps, IdleJob DEF Step
    <2>3. j.at \notin First /\ j.at \notin Later
      BY <2>2 DEF First, Later
    <2> QED
      BY <2>1, <2>2, <2>3 DEF HandDead
  <1> QED
    BY <1>8, <1>11, <1>12 DEF ReadOK

\* A send: its message key is a new one, and no frame is revived.
LEMMA SaveOnce ==
  ASSUME Types, Sound, NEW c \in Clients, NEW t \in Tasks, SaveSend(c, t), UseOK(c), ReadOK(c),
         c \notin overtaken'
  PROVE  UseOK(c)' /\ ReadOK(c)' /\ reused' = reused
  <1>0. /\ RowsOK /\ WireOK /\ TaskOK /\ HistOK /\ "proc" \in Tasks
        /\ Peer(c) \in Clients /\ Peer(c) # c
    BY PeerFacts DEF Types, Shape, Tasks
  <1> DEFINE k == task[c][t]
  <1>1. PICK s \in Sessions : \E f :
           /\ k \in Jobs /\ k.at = "save" /\ k.copy \in Sessions
           /\ k.loaded \in Maybe
           /\ IF k.loaded = NoSession THEN New(c, k.copy)
              ELSE k.copy = k.loaded
           /\ s.key = k.copy.key /\ s.ident = k.copy.ident
           /\ s.rcv = k.copy.rcv /\ row' = [row EXCEPT ![c] = s]
           /\ UNCHANGED <<otks, pin, pool, made, got, ops, faults, left>>
           /\ Overtakes(c, row[c] # k.loaded)
           /\ starters' = IF k.loaded = NoSession THEN starters \cup {c} ELSE starters
           /\ k.op = "start" =>
                 UNCHANGED <<wire, sent, used, reused>> /\ s.snd = k.copy.snd
           /\ k.op # "start" =>
                 /\ s.snd = k.copy.snd + 1 /\ f \in Frames
                 /\ f.key = k.copy.key /\ f.ident = k.copy.ident
                 /\ f.idx = k.copy.snd
                 /\ f.pre = (k.copy.rcv = {}) /\ f.no = sent + 1
                 /\ wire' = [wire EXCEPT ![Peer(c)] = Append(@, f)]
                 /\ sent' = sent + 1
                 /\ used' = [used EXCEPT ![c] = @ \cup {<<f.key, f.idx>>}]
                 /\ reused' = IF <<f.key, f.idx>> \in used[c] THEN reused \cup {c} ELSE reused
    BY SaveSendNames
  <1>2. PICK f :
           /\ s \in Sessions /\ k \in Jobs /\ k.at = "save" /\ k.copy \in Sessions
           /\ k.loaded \in Maybe
           /\ IF k.loaded = NoSession THEN New(c, k.copy)
              ELSE k.copy = k.loaded
           /\ s.key = k.copy.key /\ s.ident = k.copy.ident
           /\ s.rcv = k.copy.rcv /\ row' = [row EXCEPT ![c] = s]
           /\ UNCHANGED <<otks, pin, pool, made, got, ops, faults, left>>
           /\ Overtakes(c, row[c] # k.loaded)
           /\ starters' = IF k.loaded = NoSession THEN starters \cup {c} ELSE starters
           /\ k.op = "start" =>
                 UNCHANGED <<wire, sent, used, reused>> /\ s.snd = k.copy.snd
           /\ k.op # "start" =>
                 /\ s.snd = k.copy.snd + 1 /\ f \in Frames
                 /\ f.key = k.copy.key /\ f.ident = k.copy.ident
                 /\ f.idx = k.copy.snd
                 /\ f.pre = (k.copy.rcv = {}) /\ f.no = sent + 1
                 /\ wire' = [wire EXCEPT ![Peer(c)] = Append(@, f)]
                 /\ sent' = sent + 1
                 /\ used' = [used EXCEPT ![c] = @ \cup {<<f.key, f.idx>>}]
                 /\ reused' = IF <<f.key, f.idx>> \in used[c] THEN reused \cup {c} ELSE reused
    BY <1>1
  <1>3. PICK q, m : q = s.key /\ m = k.copy.snd
    OBVIOUS
  <1>4. /\ row[c] = k.loaded /\ row'[c] = s /\ otks'[c] = otks[c] /\ read'[c] = read[c]
        /\ wire'[c] = wire[c] /\ m \in Nat /\ s.snd \in {m, m + 1}
        /\ \A u \in used'[c] : u \in used[c] \/ (u = <<q, m>> /\ s.snd = m + 1)
        /\ reused' = reused \/ <<q, m>> \in used[c]
    <2>1. row[c] = k.loaded /\ row'[c] = s /\ otks'[c] = otks[c] /\ read'[c] = read[c]
      BY <1>0, <1>2, OvertakesMore DEF RowsOK, got
    <2>2. m \in Nat
      BY <1>2, <1>3 DEF Sessions
    <2>3. CASE k.op = "start"
      <3>1. wire' = wire /\ used' = used /\ reused' = reused
        BY <1>2, <2>3
      <3>2. s.snd = m
        BY <1>2, <1>3, <2>3
      <3> QED
        BY <2>1, <2>2, <3>1, <3>2
    <2>4. CASE k.op # "start"
      <3>1. <<f.key, f.idx>> = <<q, m>> /\ s.snd = m + 1
        BY <1>2, <1>3, <2>4
      <3>2. wire'[c] = wire[c]
        BY <1>0, <1>2, <2>4 DEF WireOK
      <3>3. used'[c] = used[c] \cup {<<q, m>>}
        BY <1>0, <1>2, <2>4, <3>1 DEF HistOK
      <3>4. reused' = reused \/ <<q, m>> \in used[c]
        BY <1>2, <2>4, <3>1
      <3> QED
        BY <2>1, <2>2, <3>1, <3>2, <3>3, <3>4
    <2> QED
      BY <2>3, <2>4
  <1>5. PICK j : Step(c, t, j) /\ j.at \in {"idle", "delete"}
    <2>1. CASE k.op = "left"
      BY <1>2, <2>1, SaveStep, MovedJob DEF CmdSteps
    <2>2. CASE k.op # "left"
      BY <2>2, SaveStep, IdleJob
    <2> QED
      BY <2>1, <2>2
  <1>6. /\ \A r \in Tasks : r # t /\ Fresh(c, r) => task[c][r].copy.key # q
        /\ \A n \in otks[c] : <<c, n>> # q
        /\ At(c, "proc", "isave") => task[c]["proc"].frame.key # q
        /\ \A u \in used[c] : u[1] = q => u[2] < m
        /\ \A g \in FramesTo(c) : Dead(c, g) => Dead(c, g)'
    <2>1. CASE k.loaded = NoSession
      <3>1. Fresh(c, t) /\ New(c, k.copy) /\ q = k.copy.key /\ q[1] # c
        BY <1>0, <1>2, <1>3, <2>1, PeerFacts DEF Fresh, New
      <3>2. Unused(c, q) /\ \A r \in Tasks : r # t /\ Fresh(c, r) => task[c][r].copy.key # q
        BY <3>1 DEF UseOK, FreshUnused
      <3>3. At(c, "proc", "isave") => task[c]["proc"].frame.key # q
        <4> SUFFICES ASSUME At(c, "proc", "isave") PROVE task[c]["proc"].frame.key[1] = c
          BY <3>1
        <4>1. PICK g : g = task[c]["proc"].frame
          OBVIOUS
        <4>2. g \in FramesTo(c) /\ g.pre /\ g.ident = Real
          BY <4>1, OpenedFrame DEF At
        <4> QED
          BY <4>1, <4>2, OwnKey
      <3>4. \A u \in used[c] : u[1] # q
        BY <3>2 DEF Unused, UsedBy
      <3>5. \A g \in FramesTo(c) : g.key # q \/ g.key[1] = Stranger
        BY <3>1, <3>2 DEF Sound, FramesOK, FrameOK, Unused, New
      <3>6. \A g \in FramesTo(c) : Dead(c, g) => Dead(c, g)'
        BY <1>3, <1>4, <3>5 DEF Dead
      <3> QED
        BY <3>1, <3>2, <3>3, <3>4, <3>6
    <2>2. CASE k.loaded # NoSession
      <3>1. PICK r : r = row[c]
        OBVIOUS
      <3>2. r # NoSession /\ q = r.key /\ m = r.snd /\ s.rcv = r.rcv
        BY <1>2, <1>3, <1>4, <2>2, <3>1
      <3>3. \A i \in Tasks : Fresh(c, i) => task[c][i].copy.key # q
        BY <3>1, <3>2 DEF UseOK, FreshUnused, Unused
      <3>4. \A n \in otks[c] : <<c, n>> # q
        BY <3>1, <3>2 DEF UseOK, HalvesUnused, Unused
      <3>5. At(c, "proc", "isave") => task[c]["proc"].frame.key # q
        BY <3>1, <3>2 DEF UseOK, SpentUnused, Unused
      <3>6. \A u \in used[c] : u[1] = q => u[2] < m
        BY <3>1, <3>2 DEF UseOK, Below
      <3>7. \A g \in FramesTo(c) : Dead(c, g) => Dead(c, g)'
        BY <1>3, <1>4, <3>1, <3>2 DEF Dead
      <3> QED
        BY <3>3, <3>4, <3>5, <3>6, <3>7
    <2> QED
      BY <2>1, <2>2
  <1>7. reused' = reused
    BY <1>4, <1>6
  <1>8. UseOK(c)'
    <2>1. \A u \in used'[c] : u[1] = q => u[2] < s.snd
      <3> SUFFICES ASSUME NEW u \in used'[c], u[1] = q PROVE u[2] < s.snd
        OBVIOUS
      <3>1. CASE u \in used[c]
        <4>1. u[2] \in Nat /\ u[2] < m
          BY <1>0, <1>6, <3>1 DEF HistOK
        <4> QED
          BY <1>4, <4>1
      <3>2. CASE u \notin used[c]
        BY <1>4, <3>2
      <3> QED
        BY <3>1, <3>2
    <2>2. s # NoSession
      BY OlmConstants
    <2> QED
      BY ZenonT(30), <1>3, <1>4, <1>5, <1>6, <2>1, <2>2, RowUse
  <1>9. CalmFrames(c)
    <2>1. j.at \notin First /\ j.at \notin Later
      BY <1>5 DEF First, Later
    <2>2. HandCalm(c)
      BY <1>5, <2>1, HandStep
    <2> QED
      BY <1>4, <1>6, <2>2 DEF CalmFrames
  <1> QED
    BY <1>7, <1>8, <1>9, CalmRead

LEMMA OthersWire ==
  ASSUME Types, NEW c \in Clients, Others(c)
  PROVE  \A d \in Clients \ {c} : wire'[d] = wire[d]
  <1>1. WireOK
    BY DEF Types, Shape
  <1>2. Sends(c) => UNCHANGED wire
    BY SendsStep DEF relay
  <1>3. OpensChat(c) => UNCHANGED wire
    BY DEF OpensChat, StartDm, Begin, relay
  <1>4. \/ DeleteChat(c) \/ (\E t \in Tasks : FetchFails(c, t) \/ PinContact(c, t))
        \/ (\E t \in Tasks, e \in Idents : Fetch(c, t, e) \/ FetchStray(c, t, e))
        \/ Replenish(c) \/ SaveKeys(c) \/ PublishKeys(c)
        \/ CreateInbound(c) \/ SaveAccount(c) \/ Deliver(c)
        \/ (\E e \in Idents : FetchSender(c, e))
        => UNCHANGED wire
    BY DEF DeleteChat, FetchFails, PinContact, Fetch, FetchStray, Replenish, SaveKeys, PublishKeys,
           CreateInbound, SaveAccount, Deliver, FetchSender, relay
  <1>5. Receive(c) \/ Crash(c) \/ Redeliver(c) => \A d \in Clients \ {c} : wire'[d] = wire[d]
    BY <1>1 DEF Receive, Crash, Redeliver, WireOK
  <1> QED
    BY <1>2, <1>3, <1>4, <1>5 DEF Others

\* What the step of a client leaves itself, unless a save of it went over the
\* other task's.
LEMMA OnceOwn ==
  ASSUME Types, Sound, NEW c \in Clients, c \notin overtaken', OnceOK(c),
         Others(c) \/ \E t \in Tasks : SaveSend(c, t)
  PROVE  OnceOK(c)'
  <1>1. UseOK(c) /\ ReadOK(c) /\ HeldOK(c)'
    BY HeldKept DEF OnceOK
  <1>2. CASE Calm(c)
    BY <1>1, <1>2, CalmUse, CalmIsFrames, CalmRead DEF OnceOK
  <1>3. CASE \E t \in Tasks, e \in Idents : Fetch(c, t, e) \/ FetchStray(c, t, e)
    BY <1>1, <1>3, FetchOnce, StrayOnce DEF OnceOK
  <1>4. CASE SaveKeys(c) \/ SaveAccount(c)
    BY <1>1, <1>4, KeysOnce, AccountOnce DEF OnceOK
  <1>5. CASE Deliver(c)
    BY <1>1, <1>5, DeliverUse, DeliverRead DEF OnceOK
  <1>6. CASE \E t \in Tasks : SaveSend(c, t)
    BY <1>1, <1>6, SaveOnce DEF OnceOK
  <1> QED
    BY <1>1, <1>2, <1>3, <1>4, <1>5, <1>6, SendCalm, ReceiveCalm DEF Others

LEMMA NextOnce ==
  ASSUME Types, Sound, OnceInv, KeyPerMessage, [Next]_vars
  PROVE  OnceInv' /\ KeyPerMessage'
  <1>1. CASE UNCHANGED vars
    <2>1. UNCHANGED <<row, otks, pool, made, wire, task, read, used, reused, overtaken>>
      BY <1>1 DEF vars, vaultRows, relay, got, history
    <2>2. \A c \in Clients : \A k : Unused(c, k)' <=> Unused(c, k)
      BY <2>1 DEF Unused, UsedBy
    <2>3. ASSUME NEW c \in Clients \ overtaken, OnceOK(c) PROVE OnceOK(c)'
      <3>1. UseOK(c)' /\ HeldOK(c)'
        BY <2>1, <2>2, <2>3 DEF OnceOK, UseOK, Below, FreshUnused, HalvesUnused, SpentUnused,
                                Fresh, At, HeldOK
      <3>2. \A f : (Was(c, f)' <=> Was(c, f)) /\ (Dead(c, f)' <=> Dead(c, f))
        BY <2>1 DEF Was, Dead
      <3>3. ReadOK(c)'
        BY <2>1, <2>3, <3>2 DEF OnceOK, ReadOK, WireDead, HandDead, Once
      <3> QED
        BY <3>1, <3>3 DEF OnceOK
    <2> QED
      BY <2>1, <2>3 DEF OnceInv, KeyPerMessage
  <1>2. ASSUME NEW c \in Clients, Others(c) \/ \E t \in Tasks : SaveSend(c, t)
        PROVE  OnceInv' /\ KeyPerMessage'
    <2>1. Local(c) /\ overtaken \subseteq overtaken'
      BY <1>2, NextLocal
    <2>2. \A d \in Clients \ {c} : \A f \in On(wire'[d]) : f \in On(wire[d]) \/ f.no = sent + 1
      <3>1. CASE Others(c)
        BY <3>1, OthersWire
      <3>2. ASSUME NEW t \in Tasks, SaveSend(c, t), NEW d \in Clients \ {c}, NEW f \in On(wire'[d])
            PROVE  f \in On(wire[d]) \/ f.no = sent + 1
        <4>1. PICK g : g = Frame(task[c][t].copy, task[c][t].op)
          OBVIOUS
        <4>2. \/ UNCHANGED wire
              \/ g \in Frames /\ g.no = sent + 1 /\ wire' = [wire EXCEPT ![Peer(c)] = Append(@, g)]
          BY <3>2, <4>1, SaveSendFacts
        <4>3. d = Peer(c) /\ wire \in [Clients -> Seq(Frames)]
          BY PeerFacts DEF Types, Shape, WireOK
        <4>4. CASE UNCHANGED wire
          BY <3>2, <4>4
        <4>5. CASE g \in Frames /\ g.no = sent + 1 /\ wire' = [wire EXCEPT ![Peer(c)] = Append(@, g)]
          <5>1. wire'[d] = Append(wire[d], g) /\ wire[d] \in Seq(Frames)
            BY <4>3, <4>5
          <5>2. On(wire'[d]) = On(wire[d]) \cup {g}
            BY <4>5, <5>1, OnAppend
          <5> QED
            BY <3>2, <4>5, <5>2
        <4> QED
          BY <4>2, <4>4, <4>5
      <3> QED
        BY <1>2, <3>1, <3>2
    <2>3. ASSUME NEW d \in Clients \ overtaken' PROVE OnceOK(d)'
      <3>1. d \in Clients \ overtaken /\ OnceOK(d)
        BY <2>1 DEF OnceInv
      <3>2. CASE d = c
        BY <1>2, <3>1, <3>2, OnceOwn
      <3>3. CASE d # c
        BY <2>1, <2>2, <3>1, <3>3, OnceOther DEF Sound
      <3> QED
        BY <3>2, <3>3
    <2>4. KeyPerMessage'
      <3>1. reused' = reused \/ (c \in overtaken' /\ reused' \subseteq reused \cup {c})
        <4>1. CASE Others(c)
          BY <4>1, OthersStill
        <4>2. ASSUME NEW t \in Tasks, SaveSend(c, t)
              PROVE  reused' = reused \/ (c \in overtaken' /\ reused' \subseteq reused \cup {c})
          <5>1. reused' \subseteq reused \cup {c}
            BY <4>2 DEF SaveSend
          <5>2. c \notin overtaken' => OnceOK(c)
            BY <2>1 DEF OnceInv
          <5> QED
            BY <4>2, <5>1, <5>2, SaveOnce DEF OnceOK
        <4> QED
          BY <1>2, <4>1, <4>2
      <3> QED
        BY <2>1, <3>1 DEF KeyPerMessage
    <2> QED
      BY <2>3, <2>4 DEF OnceInv
  <1> QED
    BY <1>1, <1>2, NextOthers

LEMMA InitOnce == Init => OnceInv /\ KeyPerMessage
  <1> SUFFICES ASSUME Init PROVE OnceInv /\ KeyPerMessage
    OBVIOUS
  <1>1. KeyPerMessage
    BY DEF Init, KeyPerMessage
  <1>2. ASSUME NEW c \in Clients PROVE OnceOK(c)
    <2>1. /\ row[c] = NoSession /\ otks[c] = 1..Published /\ pool[c] = otks[c]
          /\ wire[c] = <<>> /\ read[c] = <<>> /\ used[c] = {}
          /\ \A t \in Tasks : task[c][t] = Idle
      BY DEF Init
    <2>2. "proc" \in Tasks /\ "cmd" \in Tasks
      BY DEF Tasks
    <2>3. \A t \in Tasks : task[c][t].at = "idle"
      BY <2>1, IdleJob
    <2>4. UseOK(c)
      BY <2>1, <2>2, <2>3 DEF UseOK, Below, FreshUnused, HalvesUnused, SpentUnused, Fresh, At,
                              Unused, UsedBy
    <2>5. HeldOK(c)
      BY <2>1, <2>2, <2>3 DEF HeldOK, At
    <2>6. ReadOK(c)
      BY <2>1, <2>2, <2>3 DEF ReadOK, WireDead, HandDead, Once, On, First, Later
    <2> QED
      BY <2>4, <2>5, <2>6 DEF OnceOK
  <1> QED
    BY <1>1, <1>2 DEF OnceInv

\* "Olm/Megolm ratchets never race", with what it is for: whatever is delivered
\* again, crashes or is started afresh, a client encrypts once with a message
\* key and shows a message once, and every one-time key that the relay may give
\* for it is one it can still answer; only a save that went over the other
\* task's of the same client is excepted.
THEOREM KeyOnceAlways == Spec => []KeyOnce
  <1> DEFINE I == Types /\ Sound /\ OnceInv /\ KeyPerMessage
  <1>1. Init => I
    BY InitTypes, InitSound, InitOnce
  <1>2. I /\ [Next]_vars => I'
    BY NextTypes, NextSound, NextOnce
  <1>3. I => KeyOnce
    BY DEF OnceInv, OnceOK, HeldOK, ReadOK, Once, KeyOnce, ReadOnce, PublishedHeld
  <1> HIDE DEF I
  <1> QED
    BY <1>1, <1>2, <1>3, PTL DEF Spec
----------------------------------------------------------------------------
(* A session that one side starts carries every message.                   *)

Smooth == ~Trouble /\ starters # Clients

\* Without a fault every bundle carries the real identity.
RealOnly(c) ==
    /\ pin[c] \in {NoIdent, Real}
    /\ \A s \in SessionsOf(c) : s.ident = Real
    /\ \A f \in FramesTo(c) : f.ident = Real
    /\ task[c]["proc"].at \in {"rpin", "inbound"} => task[c]["proc"].ident = Real

\* The one that started has its session; the other has the same one or none.
Paired(c) ==
    /\ c \in starters => row[c] # NoSession
    /\ c \notin starters /\ row[c] # NoSession =>
          /\ Peer(c) \in starters /\ row[Peer(c)] # NoSession
          /\ row[c].key = row[Peer(c)].key

\* What is on its way to a client was sent with the other's session, in order,
\* and comes after everything its own session has received.
Sent(c) ==
    \A f \in FramesTo(c) :
       /\ row[Peer(c)] # NoSession /\ f.key = row[Peer(c)].key /\ f.idx < row[Peer(c)].snd
       /\ row[c] = NoSession => f.pre
Received(c) ==
    row[c] # NoSession =>
       \A n \in row[c].rcv :
          /\ row[Peer(c)] # NoSession /\ n < row[Peer(c)].snd
          /\ \A f \in FramesTo(c) : n < f.idx
Sorted(c) ==
    /\ \A i, j \in 1..Len(wire[c]) : i < j => wire[c][i].idx < wire[c][j].idx
    /\ \A f \in InHand(c), g \in On(wire[c]) : f.idx < g.idx

\* A new session is made for a frame only where there is none.
Reader(c) ==
    /\ At(c, "proc", "rsave") => row[c] # NoSession
    /\ task[c]["proc"].at \in ReadSteps \ {"rsave"} => row[c] = NoSession

\* The private half of the key that the session was, or will be, started with.
Half(c) ==
    /\ row[c] = NoSession /\ row[Peer(c)] # NoSession /\ ~At(c, "proc", "isave") =>
          row[Peer(c)].key[2] \in otks[c]
    /\ row[Peer(c)] = NoSession =>
          \A t \in Tasks : Fresh(Peer(c), t) => task[Peer(c)][t].copy.key[2] \in otks[c]

Orderly(c) == Sent(c) /\ Received(c) /\ Sorted(c)
Carry(c) == Paired(c) /\ Orderly(c) /\ Reader(c) /\ Half(c)
CarryInv == Smooth => \A c \in Clients : Carry(c)
NoRefusal == Smooth => \A c \in Clients : refused[c] = {}

LEMMA SmoothFacts ==
  ASSUME Types, Smooth
  PROVE  faults = 0 /\ overtaken = {} /\ left = {} /\ starters # Clients
  BY DEF Types, Shape, HistOK, Smooth, Trouble

\* What a run without trouble is made of, from its last step on.
SmoothStep(c) ==
    \/ Sends(c) \/ OpensChat(c)
    \/ (\E t \in Tasks : PinContact(c, t) \/ Fetch(c, t, Real))
    \/ Replenish(c) \/ SaveKeys(c) \/ PublishKeys(c)
    \/ Receive(c) \/ CreateInbound(c) \/ SaveAccount(c) \/ Deliver(c) \/ FetchSender(c, Real)

LEMMA OthersSmooth ==
  ASSUME Types, Types', NEW c \in Clients, Others(c), Smooth'
  PROVE  Smooth /\ SmoothStep(c)
  <1>0. faults' = 0 /\ overtaken' = {} /\ left' = {} /\ starters' # Clients
    BY DEF Types, Shape, HistOK, Smooth, Trouble
  <1>1. HistOK /\ faults \in Nat /\ starters' = starters /\ overtaken = {}
    <2>1. overtaken \subseteq overtaken'
      BY NextLocal
    <2>2. starters' = starters
      BY OthersStill
    <2> QED
      BY <1>0, <2>1, <2>2 DEF Types, Shape, HistOK
  <1>2. ~Fault
    BY <1>0, <1>1, FaultCounts
  <1>3. \A t \in Tasks : ~FetchFails(c, t)
    BY <1>2 DEF FetchFails
  <1>4. ~Crash(c) /\ ~Redeliver(c) /\ \A t \in Tasks, e \in Idents : ~FetchStray(c, t, e)
    BY <1>2 DEF Crash, Redeliver, FetchStray
  <1>5. ~DeleteChat(c)
    BY <1>0 DEF DeleteChat
  <1>6. ASSUME NEW e \in Idents, Answer(e) PROVE e = Real /\ faults = 0
    BY <1>0, <1>1, <1>6, AnswerCounts
  <1>7. \A e \in Idents : /\ FetchSender(c, e) => e = Real
                          /\ \A t \in Tasks : Fetch(c, t, e) => e = Real
    BY <1>6 DEF FetchSender, Fetch
  <1>8. SmoothStep(c)
    BY <1>3, <1>4, <1>5, <1>7 DEF Others, SmoothStep
  <1>9. faults = 0 /\ left = {}
    <2>1. CASE Sends(c)
      BY <1>0, <2>1, SendsStep DEF history
    <2>2. CASE OpensChat(c)
      BY <1>0, <2>2 DEF OpensChat, StartDm, Begin, Order, history
    <2>3. ASSUME NEW t \in Tasks, PinContact(c, t) \/ Fetch(c, t, Real) PROVE faults = 0 /\ left = {}
      BY <1>0, <2>3, <1>6, OlmConstants DEF PinContact, Fetch, count, history
    <2>4. CASE Replenish(c) \/ SaveKeys(c) \/ PublishKeys(c)
      BY <1>0, <2>4 DEF Replenish, SaveKeys, PublishKeys, Order, count, history
    <2>5. CASE Receive(c) \/ CreateInbound(c) \/ SaveAccount(c) \/ Deliver(c) \/ FetchSender(c, Real)
      BY <1>0, <2>5, <1>6, OlmConstants
         DEF Receive, CreateInbound, SaveAccount, Deliver, FetchSender, count, history
    <2> QED
      BY <1>8, <2>1, <2>2, <2>3, <2>4, <2>5 DEF SmoothStep
  <1> QED
    BY <1>0, <1>1, <1>8, <1>9 DEF Smooth, Trouble

LEMMA SaveSmooth ==
  ASSUME Types, Types', NEW c \in Clients, NEW t \in Tasks, SaveSend(c, t), Smooth'
  PROVE  Smooth
  <1>1. faults' = 0 /\ overtaken' = {} /\ left' = {} /\ starters' # Clients
    BY DEF Types, Shape, HistOK, Smooth, Trouble
  <1>2. overtaken = {}
    BY <1>1, NextLocal
  <1>3. faults' = faults /\ left' = left /\ starters \subseteq starters'
    BY DEF SaveSend
  <1>4. starters \subseteq Clients /\ starters' \subseteq Clients
    BY DEF Types, Shape, HistOK
  <1> QED
    BY <1>1, <1>2, <1>3, <1>4 DEF Smooth, Trouble

LEMMA RealStep ==
  ASSUME NEW c \in Clients, NEW t \in Tasks, NEW k, Step(c, t, k),
         \A d \in Clients : RealOnly(d),
         \A d \in Clients : d # c => row'[d] = row[d],
         \A d \in Clients : pin'[d] \in {NoIdent, Real},
         \A s \in {row'[c], k.loaded, k.copy} \ {NoSession} : s \in SessionsOf(c) \/ s.ident = Real,
         \A d \in Clients : \A f \in FramesTo(d)' : f \in FramesTo(d) \/ f.ident = Real,
         t = "proc" /\ k.at \in {"rpin", "inbound"} => k.ident = Real
  PROVE  \A d \in Clients : RealOnly(d)'
  <1> SUFFICES ASSUME NEW d \in Clients PROVE RealOnly(d)'
    OBVIOUS
  <1>1. RealOnly(d) /\ RealOnly(c)
    OBVIOUS
  <1>2. \A s \in SessionsOf(d)' : s.ident = Real
    <2>1. CASE d # c
      BY <1>1, <2>1, StepSessions DEF RealOnly
    <2>2. CASE d = c
      BY <1>1, <2>2, StepSessions DEF RealOnly
    <2> QED
      BY <2>1, <2>2
  <1>3. \A f \in FramesTo(d)' : f.ident = Real
    BY <1>1 DEF RealOnly
  <1>4. task'[d]["proc"].at \in {"rpin", "inbound"} => task'[d]["proc"].ident = Real
    <2>1. CASE d = c /\ t = "proc"
      BY <2>1 DEF Step
    <2>2. CASE d # c \/ t # "proc"
      <3>1. task'[d]["proc"] = task[d]["proc"]
        BY <2>2 DEF Step, Tasks
      <3> QED
        BY <1>1, <3>1 DEF RealOnly
    <2> QED
      BY <2>1, <2>2
  <1> QED
    BY <1>2, <1>3, <1>4 DEF RealOnly

\* A step of one task that leaves the rows and the pins as they are and keeps the
\* sessions it has in hand.
LEMMA RealKeeps ==
  ASSUME NEW c \in Clients, NEW t \in Tasks, NEW k, Step(c, t, k),
         \A d \in Clients : RealOnly(d), UNCHANGED row,
         \A d \in Clients : pin'[d] \in {NoIdent, Real},
         k.loaded \in {NoSession, row[c], task[c][t].loaded},
         k.copy # NoSession => k.copy \in {row[c], task[c][t].copy} \/ k.copy.ident = Real,
         \A d \in Clients : FramesTo(d)' \subseteq FramesTo(d),
         t = "proc" /\ k.at \in {"rpin", "inbound"} => k.ident = Real
  PROVE  \A d \in Clients : RealOnly(d)'
  <1>1. \A s \in {row'[c], k.loaded, k.copy} \ {NoSession} : s \in SessionsOf(c) \/ s.ident = Real
    BY OwnSessions
  <1>2. \A d \in Clients : \A f \in FramesTo(d)' : f \in FramesTo(d) \/ f.ident = Real
    OBVIOUS
  <1>3. \A d \in Clients : d # c => row'[d] = row[d]
    OBVIOUS
  <1> QED
    BY <1>1, <1>2, <1>3, RealStep

LEMMA RealOthers ==
  ASSUME Types, Sound, NEW c \in Clients, Others(c), SmoothStep(c),
         \A d \in Clients : RealOnly(d)
  PROVE  \A d \in Clients : RealOnly(d)'
  <1>0. /\ \A d \in Clients : FramesTo(d)' \subseteq FramesTo(d)
        /\ "proc" \in Tasks /\ "cmd" \in Tasks
    BY OthersMove DEF Moves, Tasks
  <1>p. \A d \in Clients : pin[d] \in {NoIdent, Real}
    BY DEF RealOnly
  <1>r. \A s \in SessionsOf(c) : s.ident = Real
    BY DEF RealOnly
  <1>1. CASE Sends(c)
    <2>1. PICK t \in Tasks, op \in {"start", "text", "control", "left"},
               a \in {"fetch", "save", "delete"} : Step(c, t, SendJob(c, op, a))
      BY <1>1, SendsStep
    <2>2. UNCHANGED <<row, pin>>
      BY <1>1, SendsStep DEF vaultRows
    <2>3. PICK k : k = SendJob(c, op, a)
      OBVIOUS
    <2>4. k.at \notin {"rpin", "inbound"} /\ k.loaded = row[c] /\ k.copy = row[c]
      BY <2>3, SendJobFields DEF Types, Shape
    <2>5. Step(c, t, k)
      BY <2>1, <2>3
    <2> QED
      BY <1>0, <1>p, <2>2, <2>4, <2>5, RealKeeps
  <1>2. CASE OpensChat(c)
    <2>1. UNCHANGED <<row, pin, wire, task>>
      BY <1>2 DEF OpensChat, StartDm, Begin, relay
    <2>2. \A d \in Clients : SessionsOf(d)' = SessionsOf(d)
      BY <2>1 DEF SessionsOf
    <2> QED
      BY <1>0, <2>1, <2>2 DEF RealOnly
  <1>3. ASSUME NEW t \in Tasks, PinContact(c, t) PROVE \A d \in Clients : RealOnly(d)'
    <2>1. PICK k : k = task[c][t]
      OBVIOUS
    <2>2. k.at \in {"pin", "rpin"} /\ k \in Jobs /\ JobOK(c, t, k)
      BY <1>3, <2>1 DEF PinContact, Types, Shape, TaskOK, JobsOK
    <2>3. k.ident = Real
      <3>1. CASE k.at = "pin"
        <4>1. k.copy # NoSession /\ k.ident = k.copy.ident
          BY <2>2, <3>1, OlmConstants DEF JobOK, New
        <4>2. k.copy \in SessionsOf(c)
          BY <2>1, <4>1, OwnSessions
        <4> QED
          BY <1>r, <4>1, <4>2
      <3>2. CASE k.at = "rpin"
        <4>1. t = "proc"
          BY <2>2, <3>2 DEF JobOK, ReadSteps
        <4> QED
          BY <2>1, <3>2, <4>1 DEF RealOnly
      <3> QED
        BY <2>2, <3>1, <3>2
    <2>4. UNCHANGED row /\ pin' = [pin EXCEPT ![c] = UpsertContact(@, k.ident)]
      BY <1>3, <2>1 DEF PinContact
    <2>5. \A d \in Clients : pin'[d] \in {NoIdent, Real}
      BY <1>p, <2>3, <2>4 DEF Types, Shape, RowsOK, UpsertContact
    <2>6. PICK a \in {"save", "inbound"} : Step(c, t, Moved(k, a))
      BY <1>3, <2>1, PinStep
    <2>7. PICK j : j = Moved(k, a)
      OBVIOUS
    <2>8. j.loaded = k.loaded /\ j.copy = k.copy /\ j.ident = Real
      BY <2>2, <2>3, <2>7, MovedJob DEF SendSteps, ReadSteps
    <2>9. Step(c, t, j)
      BY <2>6, <2>7
    <2> QED
      BY <1>0, <2>1, <2>4, <2>5, <2>8, <2>9, RealKeeps
  <1>4. ASSUME NEW t \in Tasks, Fetch(c, t, Real) PROVE \A d \in Clients : RealOnly(d)'
    <2>0. UNCHANGED <<row, pin>> /\ Real \in Idents /\ At(c, t, "fetch")
      BY <1>4, OlmConstants DEF Fetch, vaultRows
    <2>1. CASE Step(c, t, Idle)
      BY <1>0, <1>p, <2>0, <2>1, IdleJob, RealKeeps
    <2>2. ASSUME NEW n \in Nat, pin[c] \in {NoIdent, Real}, Step(c, t, Bundled(c, t, Real, n))
          PROVE  \A d \in Clients : RealOnly(d)'
      <3>1. PICK k : k = Bundled(c, t, Real, n)
        OBVIOUS
      <3>2. k.at = "pin" /\ k.loaded = NoSession /\ k.copy.ident = Real
        <4>1. /\ Bundled(c, t, Real, n).at = "pin" /\ Bundled(c, t, Real, n).loaded = NoSession
              /\ Bundled(c, t, Real, n).copy.ident = Real
          BY ZenonT(30), <2>0, <2>2, BundledFields
        <4> QED
          BY <3>1, <4>1
      <3>3. Step(c, t, k)
        BY <2>2, <3>1
      <3> QED
        BY <1>0, <1>p, <2>0, <3>2, <3>3, RealKeeps
    <2> QED
      BY <1>4, <2>0, <2>1, <2>2, FetchStep
  <1>5. CASE Replenish(c) \/ SaveKeys(c) \/ PublishKeys(c)
    <2>1. UNCHANGED <<row, pin>>
      BY <1>5 DEF Replenish, SaveKeys, PublishKeys, vaultRows
    <2>2. \E k : /\ Step(c, "cmd", k) /\ k.loaded \in {NoSession, task[c]["cmd"].loaded}
                 /\ k.copy \in {NoSession, task[c]["cmd"].copy}
      <3>1. task[c]["cmd"] \in Jobs
        BY <1>0 DEF Types, Shape, TaskOK
      <3>2. CASE Replenish(c)
        BY <3>2, RenewStep
      <3>3. CASE SaveKeys(c)
        BY <3>1, <3>3, KeysStep, MovedJob DEF CmdSteps
      <3>4. CASE PublishKeys(c)
        BY <3>4, EndSteps, IdleJob
      <3> QED
        BY <1>5, <3>2, <3>3, <3>4
    <2>3. PICK k : /\ Step(c, "cmd", k) /\ k.loaded \in {NoSession, task[c]["cmd"].loaded}
                   /\ k.copy \in {NoSession, task[c]["cmd"].copy}
      BY <2>2
    <2> QED
      BY <1>0, <1>p, <2>1, <2>3, RealKeeps
  <1>6. CASE Receive(c)
    <2>0. UNCHANGED <<row, pin>>
      BY <1>6 DEF Receive, vaultRows
    <2>1. CASE UNCHANGED task
      <3>1. \A d \in Clients : SessionsOf(d)' = SessionsOf(d)
        BY <2>0, <2>1 DEF SessionsOf
      <3> QED
        BY <1>0, <2>0, <2>1, <3>1 DEF RealOnly
    <2>2. PICK f : f = Head(wire[c])
      OBVIOUS
    <2>f. f \in Frames
      BY <1>6, <2>2, ReceiveStep
    <2>3. CASE Reads(row[c], f) /\ Step(c, "proc", ReadJob(c, f))
      <3>1. PICK k : k = ReadJob(c, f)
        OBVIOUS
      <3>2. /\ k.at = "rsave" /\ k.loaded = row[c]
            /\ k.copy = [row[c] EXCEPT !.rcv = @ \cup {f.idx}] /\ row[c] \in Sessions
        BY <2>f, <2>3, <3>1, ReadJobFields DEF Types, Shape, RowsOK, Maybe, Reads
      <3>3. k.copy.ident = Real
        <4>1. k.copy.ident = row[c].ident /\ row[c] # NoSession
          BY <2>3, <3>2 DEF Sessions, Reads
        <4> QED
          BY <1>0, <1>r, <4>1, OwnSessions
      <3>4. Step(c, "proc", k)
        BY <2>3, <3>1
      <3> QED
        BY <1>0, <1>p, <2>0, <3>2, <3>3, <3>4, RealKeeps
    <2>4. ASSUME NEW a \in {"rfetch", "inbound"}, a = "rfetch" <=> pin[c] = NoIdent,
                 Step(c, "proc", FirstJob(c, f, a))
          PROVE  \A d \in Clients : RealOnly(d)'
      <3>1. PICK k : k = FirstJob(c, f, a)
        OBVIOUS
      <3>2. k.at = a /\ k.loaded = row[c] /\ k.copy = NoSession /\ k.ident = pin[c]
        BY <2>f, <3>1, FirstJobFields
      <3>3. k.at \in {"rpin", "inbound"} => k.ident = Real
        BY <1>p, <2>4, <3>2
      <3>4. Step(c, "proc", k)
        BY <2>4, <3>1
      <3> QED
        BY <1>0, <1>p, <2>0, <3>2, <3>3, <3>4, RealKeeps
    <2> QED
      BY <1>6, <2>1, <2>2, <2>3, <2>4, ReceiveStep
  <1>7. CASE CreateInbound(c)
    <2>0. UNCHANGED <<row, pin>> /\ task[c]["proc"].at = "inbound"
      BY <1>7 DEF CreateInbound, vaultRows, At
    <2>1. \E k : /\ Step(c, "proc", k) /\ k.loaded \in {NoSession, task[c]["proc"].loaded}
                 /\ k.copy \in {NoSession, task[c]["proc"].copy} /\ k.at \notin {"rpin", "inbound"}
      BY <1>7, InboundStep, IdleJob
    <2>2. PICK k : /\ Step(c, "proc", k) /\ k.loaded \in {NoSession, task[c]["proc"].loaded}
                   /\ k.copy \in {NoSession, task[c]["proc"].copy} /\ k.at \notin {"rpin", "inbound"}
      BY <2>1
    <2> QED
      BY <1>0, <1>p, <2>0, <2>2, RealKeeps
  <1>8. CASE SaveAccount(c)
    <2>0. UNCHANGED <<row, pin>> /\ task[c]["proc"] \in Jobs
      BY <1>0, <1>8 DEF SaveAccount, Types, Shape, TaskOK
    <2>1. PICK k : k = Moved(task[c]["proc"], "isave")
      OBVIOUS
    <2>2. /\ k.loaded = task[c]["proc"].loaded /\ k.copy = task[c]["proc"].copy /\ k.at = "isave"
      BY <2>0, <2>1, MovedJob DEF ReadSteps
    <2>3. Step(c, "proc", k)
      BY <1>8, <2>1, AccountStep
    <2> QED
      BY <1>0, <1>p, <2>0, <2>2, <2>3, RealKeeps
  <1>9. CASE Deliver(c)
    <2>1. PICK k, s : /\ k = task[c]["proc"]
                      /\ s = IF k.at = "rsave" THEN k.copy ELSE Inbound(k.frame)
      OBVIOUS
    <2>2. /\ k.at \in {"rsave", "isave"} /\ k.frame \in Frames /\ JobOK(c, "proc", k)
          /\ s \in Sessions /\ row' = [row EXCEPT ![c] = s] /\ UNCHANGED pin
      BY <1>9, <2>1, DeliverFacts DEF Deliver
    <2>3. s.ident = Real
      <3>1. CASE k.at = "rsave"
        <4>1. s = k.copy /\ k.copy # NoSession
          BY <2>1, <2>2, <3>1, OlmConstants DEF JobOK
        <4> QED
          BY <1>0, <1>r, <2>1, <4>1, OwnSessions
      <3>2. CASE k.at = "isave"
        <4>1. s.ident = k.frame.ident
          BY <2>1, <2>2, <3>2, InboundFields
        <4>2. k.frame \in FramesTo(c)
          BY <1>0, <2>1, <3>2, OwnSessions DEF ReadSteps
        <4> QED
          BY <4>1, <4>2 DEF RealOnly
      <3> QED
        BY <2>2, <3>1, <3>2
    <2>4. row'[c] = s /\ \A d \in Clients : d # c => row'[d] = row[d]
      BY <2>2 DEF Types, Shape, RowsOK
    <2>5. PICK j : j = Idle
      OBVIOUS
    <2>6. Step(c, "proc", j) /\ j.at = "idle" /\ j.loaded = NoSession /\ j.copy = NoSession
      BY <1>9, <2>5, EndSteps, IdleJob
    <2>7. \A x \in {row'[c], j.loaded, j.copy} \ {NoSession} : x \in SessionsOf(c) \/ x.ident = Real
      BY <2>3, <2>4, <2>6
    <2>8. \A d \in Clients : \A f \in FramesTo(d)' : f \in FramesTo(d) \/ f.ident = Real
      BY <1>0
    <2>9. \A d \in Clients : pin'[d] \in {NoIdent, Real}
      BY <1>p, <2>2
    <2> QED
      BY <1>0, <2>4, <2>6, <2>7, <2>8, <2>9, RealStep
  <1>10. CASE FetchSender(c, Real)
    <2>0. UNCHANGED <<row, pin>> /\ Real \in Idents
      BY <1>10, OlmConstants DEF FetchSender, vaultRows
    <2>1. \E k : /\ Step(c, "proc", k) /\ k.loaded \in {NoSession, task[c]["proc"].loaded}
                 /\ k.copy \in {NoSession, task[c]["proc"].copy}
                 /\ k.at \in {"rpin", "inbound"} => k.ident = Real
      BY <1>10, <2>0, SenderStep, IdleJob
    <2>2. PICK k : /\ Step(c, "proc", k) /\ k.loaded \in {NoSession, task[c]["proc"].loaded}
                   /\ k.copy \in {NoSession, task[c]["proc"].copy}
                   /\ k.at \in {"rpin", "inbound"} => k.ident = Real
      BY <2>1
    <2> QED
      BY <1>0, <1>p, <2>0, <2>2, RealKeeps
  <1> QED
    BY <1>1, <1>2, <1>3, <1>4, <1>5, <1>6, <1>7, <1>8, <1>9, <1>10 DEF SmoothStep

LEMMA SaveReal ==
  ASSUME Types, Sound, NEW c \in Clients, NEW t \in Tasks, SaveSend(c, t),
         \A d \in Clients : RealOnly(d)
  PROVE  \A d \in Clients : RealOnly(d)'
  <1>0. "proc" \in Tasks /\ "cmd" \in Tasks
    BY DEF Tasks
  <1>1. PICK k : k = task[c][t]
    OBVIOUS
  <1>a. PICK s \in Sessions : \E f :
           /\ task[c][t] \in Jobs /\ task[c][t].at = "save" /\ task[c][t].copy \in Sessions
           /\ task[c][t].loaded \in Maybe
           /\ IF task[c][t].loaded = NoSession THEN New(c, task[c][t].copy)
              ELSE task[c][t].copy = task[c][t].loaded
           /\ s.key = task[c][t].copy.key /\ s.ident = task[c][t].copy.ident
           /\ s.rcv = task[c][t].copy.rcv /\ row' = [row EXCEPT ![c] = s]
           /\ UNCHANGED <<otks, pin, pool, made, got, ops, faults, left>>
           /\ Overtakes(c, row[c] # task[c][t].loaded)
           /\ starters' = IF task[c][t].loaded = NoSession THEN starters \cup {c} ELSE starters
           /\ task[c][t].op = "start" =>
                 UNCHANGED <<wire, sent, used, reused>> /\ s.snd = task[c][t].copy.snd
           /\ task[c][t].op # "start" =>
                 /\ s.snd = task[c][t].copy.snd + 1 /\ f \in Frames
                 /\ f.key = task[c][t].copy.key /\ f.ident = task[c][t].copy.ident
                 /\ f.idx = task[c][t].copy.snd
                 /\ f.pre = (task[c][t].copy.rcv = {}) /\ f.no = sent + 1
                 /\ wire' = [wire EXCEPT ![Peer(c)] = Append(@, f)]
                 /\ sent' = sent + 1
                 /\ used' = [used EXCEPT ![c] = @ \cup {<<f.key, f.idx>>}]
                 /\ reused' = IF <<f.key, f.idx>> \in used[c] THEN reused \cup {c} ELSE reused
    BY SaveSendNames
  <1>2. PICK f :
           /\ k \in Jobs /\ k.at = "save" /\ k.copy \in Sessions
           /\ s.ident = k.copy.ident /\ row' = [row EXCEPT ![c] = s] /\ UNCHANGED pin
           /\ k.op = "start" => UNCHANGED wire
           /\ k.op # "start" =>
                 /\ f \in Frames /\ f.ident = k.copy.ident
                 /\ wire' = [wire EXCEPT ![Peer(c)] = Append(@, f)]
    BY <1>1, <1>a
  <1>3. s.ident = Real
    <2>1. k.copy # NoSession /\ k.copy \in SessionsOf(c)
      BY <1>1, <1>2, OwnSessions, OlmConstants
    <2> QED
      BY <1>2, <2>1 DEF RealOnly
  <1>4. row'[c] = s /\ \A d \in Clients : d # c => row'[d] = row[d]
    BY <1>2 DEF Types, Shape, RowsOK
  <1>5. \E j : /\ Step(c, t, j) /\ j.at \in {"idle", "delete"}
               /\ j.loaded \in {NoSession, k.loaded} /\ j.copy \in {NoSession, k.copy}
    <2>1. CASE k.op = "left"
      BY <1>1, <1>2, <2>1, SaveStep, MovedJob DEF CmdSteps
    <2>2. CASE k.op # "left"
      BY <1>1, <2>2, SaveStep, IdleJob
    <2> QED
      BY <2>1, <2>2
  <1>6. PICK j : /\ Step(c, t, j) /\ j.at \in {"idle", "delete"}
                 /\ j.loaded \in {NoSession, k.loaded} /\ j.copy \in {NoSession, k.copy}
    BY <1>5
  <1>7. \A x \in {row'[c], j.loaded, j.copy} \ {NoSession} : x \in SessionsOf(c) \/ x.ident = Real
    BY <1>1, <1>3, <1>4, <1>6, OwnSessions
  <1>8. \A d \in Clients : \A g \in FramesTo(d)' : g \in FramesTo(d) \/ g.ident = Real
    <2>1. \A d \in Clients : InHand(d)' \subseteq InHand(d)
      <3>1. CASE t = "cmd"
        BY <1>6, <3>1, StepHand
      <3>2. CASE t = "proc"
        BY <1>6, <3>2, StepHand DEF ReadSteps
      <3> QED
        BY <3>1, <3>2 DEF Tasks
    <2>2. \A d \in Clients : \A g \in On(wire'[d]) : g \in On(wire[d]) \/ g.ident = Real
      <3>1. CASE k.op = "start"
        BY <1>2, <3>1
      <3>2. CASE k.op # "start"
        <4>1. /\ wire' = [wire EXCEPT ![Peer(c)] = Append(@, f)] /\ f \in Frames
              /\ f.ident = Real /\ wire \in [Clients -> Seq(Frames)] /\ Peer(c) \in Clients
          BY <1>2, <1>3, <3>2, PeerFacts DEF Types, Shape, WireOK
        <4>2. On(wire'[Peer(c)]) = On(wire[Peer(c)]) \cup {f}
          BY <4>1, OnAppend
        <4>3. \A d \in Clients \ {Peer(c)} : wire'[d] = wire[d]
          BY <4>1
        <4> QED
          BY <4>1, <4>2, <4>3
      <3> QED
        BY <3>1, <3>2
    <2> QED
      BY <2>1, <2>2 DEF FramesTo
  <1>9. \A d \in Clients : pin'[d] \in {NoIdent, Real}
    BY <1>2 DEF RealOnly
  <1> QED
    BY <1>4, <1>6, <1>7, <1>8, <1>9, RealStep

\* Without a wrong answer nobody holds anything but the real identities.
RealInv == Smooth => \A c \in Clients : RealOnly(c)

LEMMA NextReal == Types /\ Types' /\ Sound /\ RealInv /\ [Next]_vars => RealInv'
  <1> SUFFICES ASSUME Types, Types', Sound, RealInv, [Next]_vars, Smooth'
               PROVE  \A c \in Clients : RealOnly(c)'
    BY DEF RealInv
  <1>1. CASE UNCHANGED vars
    <2>1. UNCHANGED <<row, pin, wire, task, faults, starters, left, overtaken>>
      BY <1>1 DEF vars, vaultRows, relay, count, history
    <2>2. Smooth
      BY <2>1 DEF Smooth, Trouble
    <2>3. \A c \in Clients : RealOnly(c)
      BY <2>2 DEF RealInv
    <2> QED
      BY <2>1, <2>3 DEF RealOnly, SessionsOf, FramesTo, InHand
  <1>2. ASSUME NEW c \in Clients, Others(c) PROVE \A d \in Clients : RealOnly(d)'
    BY <1>2, OthersSmooth, RealOthers DEF RealInv
  <1>3. ASSUME NEW c \in Clients, NEW t \in Tasks, SaveSend(c, t)
        PROVE  \A d \in Clients : RealOnly(d)'
    BY <1>3, SaveSmooth, SaveReal DEF RealInv
  <1> QED
    BY <1>1, <1>2, <1>3, NextOthers

\* A client's processor has no new frame and is at no earlier step; what its tasks
\* have started is what they had, or can be answered.
HandKept(c) ==
    /\ InHand(c)' \subseteq InHand(c)
    /\ At(c, "proc", "rsave")' => At(c, "proc", "rsave")
    /\ task'[c]["proc"].at \in ReadSteps \ {"rsave"} =>
          task[c]["proc"].at \in ReadSteps \ {"rsave"}
    /\ At(c, "proc", "isave") => At(c, "proc", "isave")'
FreshKept(c) ==
    \A t \in Tasks : Fresh(c, t)' =>
       \/ Fresh(c, t) /\ task'[c][t].copy.key = task[c][t].copy.key
       \/ task'[c][t].copy.key[2] \in otks[Peer(c)]

LEMMA OtherKept ==
  ASSUME NEW c \in Clients, NEW t \in Tasks, NEW k, Step(c, t, k)
  PROVE  \A d \in Clients : d # c => HandKept(d) /\ FreshKept(d)
  <1> SUFFICES ASSUME NEW d \in Clients, d # c PROVE HandKept(d) /\ FreshKept(d)
    OBVIOUS
  <1>1. \A r \in Tasks : task'[d][r] = task[d][r]
    BY DEF Step
  <1> QED
    BY <1>1 DEF HandKept, FreshKept, InHand, At, Fresh, Tasks

LEMMA OwnHandKept ==
  ASSUME NEW c \in Clients, NEW t \in Tasks, NEW k, Step(c, t, k),
         t = "proc" => task[c]["proc"].at # "isave",
         k.at \in ReadSteps => /\ t = "proc" /\ task[c]["proc"].at \in ReadSteps
                               /\ k.frame = task[c]["proc"].frame
                               /\ k.at = "rsave" <=> task[c]["proc"].at = "rsave"
  PROVE  HandKept(c)
  <1>1. CASE t = "proc"
    <2>1. task'[c]["proc"] = k
      BY <1>1 DEF Step
    <2>2. CASE k.at \in ReadSteps
      BY <1>1, <2>1, <2>2 DEF HandKept, InHand, At
    <2>3. CASE k.at \notin ReadSteps
      <3>1. k.at # "rsave"
        BY <2>3 DEF ReadSteps
      <3> QED
        BY <1>1, <2>1, <2>3, <3>1 DEF HandKept, InHand, At
    <2> QED
      BY <2>2, <2>3
  <1>2. CASE t # "proc"
    <2>1. task'[c]["proc"] = task[c]["proc"]
      BY <1>2 DEF Step, Tasks
    <2> QED
      BY <2>1 DEF HandKept, InHand, At
  <1> QED
    BY <1>1, <1>2

LEMMA OwnFreshKept ==
  ASSUME NEW c \in Clients, NEW t \in Tasks, NEW k, Step(c, t, k),
         k.at \in {"pin", "save"} /\ k.loaded = NoSession =>
            \/ Fresh(c, t) /\ k.copy.key = task[c][t].copy.key
            \/ k.copy.key[2] \in otks[Peer(c)]
  PROVE  FreshKept(c)
  BY DEF Step, FreshKept, Fresh

LEMMA CarryStill ==
  ASSUME \A d \in Clients : Carry(d) /\ HandKept(d) /\ FreshKept(d),
         UNCHANGED <<row, wire, starters>>,
         \A d \in Clients : \/ otks[d] \subseteq otks'[d]
                            \/ At(d, "proc", "isave")' /\ row[Peer(d)] # NoSession
  PROVE  \A d \in Clients : Carry(d)'
  <1> SUFFICES ASSUME NEW d \in Clients PROVE Carry(d)'
    OBVIOUS
  <1>0. Carry(d) /\ HandKept(d) /\ Peer(d) \in Clients
    BY PeerFacts
  <1>1. On(wire'[d]) = On(wire[d]) /\ FramesTo(d)' \subseteq FramesTo(d)
    BY <1>0 DEF FramesTo, HandKept
  <1>2. Paired(d)'
    BY <1>0 DEF Carry, Paired
  <1>3. Sent(d)' /\ Received(d)'
    BY <1>0, <1>1 DEF Carry, Orderly, Sent, Received
  <1>4. Sorted(d)'
    BY <1>0, <1>1 DEF Carry, Orderly, Sorted, HandKept
  <1>5. Reader(d)'
    BY <1>0 DEF Carry, Reader, HandKept
  <1>6. Half(d)'
    <2>1. row[d] = NoSession /\ row[Peer(d)] # NoSession /\ ~At(d, "proc", "isave")'
             => row[Peer(d)].key[2] \in otks[d]
      BY <1>0 DEF Carry, Half, HandKept
    <2>0. \/ otks[d] \subseteq otks'[d]
          \/ At(d, "proc", "isave")' /\ row[Peer(d)] # NoSession
      OBVIOUS
    <2>2. FreshKept(Peer(d)) /\ Peer(Peer(d)) = d
      BY <1>0, PeerFacts
    <2>3. row[Peer(d)] = NoSession =>
             \A t \in Tasks : Fresh(Peer(d), t)' => task'[Peer(d)][t].copy.key[2] \in otks[d]
      BY <1>0, <2>2 DEF Carry, Half, FreshKept
    <2> QED
      BY <2>0, <2>1, <2>3 DEF Half
  <1> QED
    BY <1>2, <1>3, <1>4, <1>5, <1>6 DEF Carry, Orderly

LEMMA CarryStep ==
  ASSUME NEW c \in Clients, NEW t \in Tasks, NEW k, Step(c, t, k),
         \A d \in Clients : Carry(d), UNCHANGED <<row, wire, starters>>,
         \A d \in Clients : otks[d] \subseteq otks'[d],
         t = "proc" => task[c]["proc"].at # "isave",
         k.at \in ReadSteps => /\ t = "proc" /\ task[c]["proc"].at \in ReadSteps
                               /\ k.frame = task[c]["proc"].frame
                               /\ k.at = "rsave" <=> task[c]["proc"].at = "rsave",
         k.at \in {"pin", "save"} /\ k.loaded = NoSession =>
            \/ Fresh(c, t) /\ k.copy.key = task[c][t].copy.key
            \/ k.copy.key[2] \in otks[Peer(c)]
  PROVE  \A d \in Clients : Carry(d)'
  <1>1. HandKept(c)
    BY OwnHandKept
  <1>2. FreshKept(c)
    BY OwnFreshKept
  <1>3. \A d \in Clients : HandKept(d) /\ FreshKept(d)
    BY <1>1, <1>2, OtherKept
  <1> QED
    BY <1>3, CarryStill

\* The steps that change neither a session nor the way of a frame.
LEMMA CarryQuiet ==
  ASSUME Types, NEW c \in Clients, \A d \in Clients : Carry(d), c \notin overtaken',
         \/ Sends(c) \/ OpensChat(c) \/ (\E t \in Tasks : PinContact(c, t))
         \/ Replenish(c) \/ SaveKeys(c) \/ PublishKeys(c)
         \/ CreateInbound(c) \/ FetchSender(c, Real)
  PROVE  \A d \in Clients : Carry(d)'
  <1>0. "proc" \in Tasks /\ "cmd" \in Tasks /\ RowsOK /\ HistOK
    BY DEF Tasks, Types, Shape
  <1>1. CASE Sends(c)
    <2>1. PICK t \in Tasks, op \in {"start", "text", "control", "left"},
               a \in {"fetch", "save", "delete"} :
                  task[c][t] = Idle /\ Step(c, t, SendJob(c, op, a))
      BY <1>1, SendsStep
    <2>2. UNCHANGED <<row, otks, wire, starters>>
      BY <1>1, SendsStep DEF vaultRows, relay, history
    <2>3. PICK k : k = SendJob(c, op, a)
      OBVIOUS
    <2>4. k.at = a /\ k.loaded = row[c] /\ Step(c, t, k)
      BY <1>0, <2>1, <2>3, SendJobFields
    <2>5. task[c][t].at = "idle"
      BY <2>1, IdleJob
    <2>6. ~(k.at \in {"pin", "save"} /\ k.loaded = NoSession)
      <3>1. JobOK(c, t, k)
        BY <2>4 DEF Step
      <3> QED
        BY <2>3, <2>4, <3>1, <1>0, SendJobFields, OlmConstants DEF JobOK
    <2> QED
      BY CarryStep, <2>2, <2>4, <2>5, <2>6 DEF ReadSteps
  <1>2. CASE OpensChat(c)
    <2>1. UNCHANGED <<row, otks, wire, task, starters>>
      BY <1>2 DEF OpensChat, StartDm, Begin, relay, history
    <2> QED
      BY <2>1, CarryStill DEF HandKept, FreshKept, InHand, At, Fresh
  <1>3. ASSUME NEW t \in Tasks, PinContact(c, t) PROVE \A d \in Clients : Carry(d)'
    <2>1. UNCHANGED <<row, otks, wire, starters>> /\ task[c][t] \in Jobs
      BY <1>3 DEF PinContact, relay, Types, Shape, TaskOK
    <2>2. CASE At(c, t, "pin") /\ Step(c, t, Moved(task[c][t], "save"))
      <3>1. PICK k : k = Moved(task[c][t], "save")
        OBVIOUS
      <3>2. /\ k.at = "save" /\ k.loaded = task[c][t].loaded /\ k.copy = task[c][t].copy
            /\ Step(c, t, k) /\ task[c][t].at = "pin"
        BY <2>1, <2>2, <3>1, MovedJob DEF SendSteps, At
      <3> QED
        BY CarryStep, <2>1, <3>2 DEF ReadSteps, Fresh
    <2>3. CASE At(c, t, "rpin") /\ t = "proc" /\ Step(c, t, Moved(task[c][t], "inbound"))
      <3>1. PICK k : k = Moved(task[c][t], "inbound")
        OBVIOUS
      <3>2. /\ k.at = "inbound" /\ k.frame = task[c][t].frame
            /\ Step(c, t, k) /\ task[c][t].at = "rpin"
        BY <2>1, <2>3, <3>1, MovedJob DEF ReadSteps, At
      <3> QED
        BY CarryStep, <2>1, <2>3, <3>2 DEF ReadSteps
    <2> QED
      BY <1>3, <2>2, <2>3, PinStep
  <1>4. CASE Replenish(c)
    <2>1. UNCHANGED <<row, otks, wire, starters>>
      BY <1>4 DEF Replenish, vaultRows, relay, history
    <2> QED
      BY <1>0, <1>4, CarryStep, <2>1, RenewStep DEF ReadSteps
  <1>5. CASE SaveKeys(c)
    <2>1. UNCHANGED <<row, wire, starters>>
      BY <1>5 DEF SaveKeys
    <2>2. otks[c] = task[c]["cmd"].acct
      BY <1>0, <1>5, OvertakesMore DEF SaveKeys
    <2>3. \A d \in Clients : otks[d] \subseteq otks'[d]
      BY <1>0, <1>5, <2>2 DEF SaveKeys, RowsOK
    <2>4. PICK k : k = Moved(task[c]["cmd"], "publish")
      OBVIOUS
    <2>5. task[c]["cmd"] \in Jobs
      BY <1>0 DEF Types, Shape, TaskOK
    <2>6. k.at = "publish" /\ Step(c, "cmd", k)
      BY <1>5, <2>4, <2>5, KeysStep, MovedJob DEF CmdSteps
    <2> QED
      BY <1>0, CarryStep, <2>1, <2>3, <2>6 DEF ReadSteps
  <1>6. CASE PublishKeys(c)
    <2>1. UNCHANGED <<row, otks, wire, starters>>
      BY <1>6 DEF PublishKeys, vaultRows, history
    <2>2. PICK k : k = Idle
      OBVIOUS
    <2>3. k.at = "idle" /\ Step(c, "cmd", k)
      BY <1>6, <2>2, EndSteps, IdleJob
    <2> QED
      BY <1>0, CarryStep, <2>1, <2>3 DEF ReadSteps
  <1>7. CASE CreateInbound(c)
    <2>1. UNCHANGED <<row, otks, wire, starters>>
      BY <1>7 DEF CreateInbound, vaultRows, relay, history
    <2>2. \E k : /\ Step(c, "proc", k) /\ k.at \in {"idle", "asave"}
                 /\ k.at = "asave" => k.frame = task[c]["proc"].frame
      BY <1>7, InboundStep, IdleJob
    <2>3. PICK k : /\ Step(c, "proc", k) /\ k.at \in {"idle", "asave"}
                   /\ k.at = "asave" => k.frame = task[c]["proc"].frame
      BY <2>2
    <2>4. task[c]["proc"].at = "inbound"
      BY <1>7, InboundStep
    <2> QED
      BY <1>0, CarryStep, <2>1, <2>3, <2>4 DEF ReadSteps
  <1>8. CASE FetchSender(c, Real)
    <2>1. UNCHANGED <<row, otks, wire, starters>>
      BY <1>8 DEF FetchSender, vaultRows, history
    <2>2. \E k : /\ Step(c, "proc", k) /\ k.at \in {"idle", "rpin"}
                 /\ k.at = "rpin" => k.frame = task[c]["proc"].frame
      BY <1>8, SenderStep, IdleJob, OlmConstants
    <2>3. PICK k : /\ Step(c, "proc", k) /\ k.at \in {"idle", "rpin"}
                   /\ k.at = "rpin" => k.frame = task[c]["proc"].frame
      BY <2>2
    <2>4. task[c]["proc"].at = "rfetch"
      BY <1>8 DEF FetchSender, At
    <2> QED
      BY <1>0, CarryStep, <2>1, <2>3, <2>4 DEF ReadSteps
  <1> QED
    BY <1>1, <1>2, <1>3, <1>4, <1>5, <1>6, <1>7, <1>8

LEMMA FetchCarry ==
  ASSUME Types, NEW c \in Clients, NEW t \in Tasks, Fetch(c, t, Real),
         \A d \in Clients : Carry(d), pool[Peer(c)] \subseteq otks[Peer(c)]
  PROVE  \A d \in Clients : Carry(d)'
  <1>0. Real \in Idents /\ At(c, t, "fetch") /\ UNCHANGED <<row, otks, wire, starters>>
    BY OlmConstants DEF Fetch, vaultRows, history
  <1>1. CASE Step(c, t, Idle)
    <2>1. PICK k : k = Idle
      OBVIOUS
    <2>2. Step(c, t, k) /\ k.at = "idle" /\ task[c][t].at = "fetch"
      BY <1>0, <1>1, <2>1, IdleJob DEF At
    <2> QED
      BY <1>0, <2>2, CarryStep DEF ReadSteps
  <1>2. ASSUME NEW n \in Given(c), n \in Nat, pin[c] \in {NoIdent, Real},
               Step(c, t, Bundled(c, t, Real, n))
        PROVE  \A d \in Clients : Carry(d)'
    <2>1. PICK k : k = Bundled(c, t, Real, n)
      OBVIOUS
    <2>a. Step(c, t, k)
      BY <1>2, <2>1
    <2>b. task[c][t].at = "fetch"
      BY <1>0 DEF At
    <2>c. k.at = "pin" /\ k.copy.key = <<Peer(c), n>>
      <3>1. /\ Bundled(c, t, Real, n).at = "pin"
            /\ Bundled(c, t, Real, n).copy.key = <<Peer(c), n>>
        BY ZenonT(30), <1>0, <1>2, BundledFields
      <3> QED
        BY <2>1, <3>1
    <2>2. k.at = "pin" /\ k.copy.key = <<Peer(c), n>> /\ Step(c, t, k) /\ task[c][t].at = "fetch"
      BY <2>a, <2>b, <2>c
    <2>3. k.copy.key[2] \in otks[Peer(c)]
      BY <1>2, <2>2 DEF Given
    <2> QED
      BY <1>0, <2>2, <2>3, CarryStep DEF ReadSteps
  <1> QED
    BY <1>0, <1>1, <1>2, FetchStep

\* The session that is stored can read whatever arrives.
LEMMA RowReads ==
  ASSUME Types, Sound, starters # Clients, NEW c \in Clients,
         \A d \in Clients : Carry(d) /\ RealOnly(d), NEW f \in FramesTo(c), row[c] # NoSession
  PROVE  Reads(row[c], f)
  <1>a. Peer(c) \in Clients /\ Peer(Peer(c)) = c /\ \A d \in Clients : d = c \/ d = Peer(c)
    BY PeerFacts
  <1>b. starters \subseteq Clients
    BY DEF Types, Shape, HistOK
  <1>c. c \notin starters \/ Peer(c) \notin starters
    BY <1>a, <1>b
  <1>1. Peer(c) \in Clients /\ Peer(Peer(c)) = c /\ (c \notin starters \/ Peer(c) \notin starters)
    BY <1>a, <1>c
  <1>2. row[Peer(c)] # NoSession /\ f.key = row[Peer(c)].key
    BY DEF Carry, Orderly, Sent
  <1>3. row[c].key = row[Peer(c)].key
    BY <1>1, <1>2 DEF Carry, Paired
  <1>4. row[c].ident = Real /\ f.ident = Real /\ row[c].key[1] # Stranger
    <2>1. "cmd" \in Tasks
      BY DEF Tasks
    <2>2. row[c] \in SessionsOf(c)
      BY <2>1, OwnSessions
    <2>3. row[c].key[1] = Stranger => row[c].ident # Real
      BY <2>2 DEF Sound, SessionsOK, SessOK
    <2> QED
      BY <2>2, <2>3 DEF RealOnly
  <1>5. f.idx \notin row[c].rcv
    <2>1. f.idx \in Nat
      BY TypedFrames DEF Frames
    <2>2. \A n \in row[c].rcv : n < f.idx
      BY DEF Carry, Orderly, Received
    <2> QED
      BY <2>1, <2>2
  <1> QED
    BY <1>2, <1>3, <1>4, <1>5 DEF Reads

LEMMA ReceiveCarry ==
  ASSUME Types, Sound, starters # Clients, NEW c \in Clients, Receive(c),
         \A d \in Clients : Carry(d) /\ RealOnly(d)
  PROVE  (\A d \in Clients : Carry(d)') /\ UNCHANGED refused
  <1>0. /\ UNCHANGED <<row, otks, starters>> /\ wire' = [wire EXCEPT ![c] = Tail(@)]
        /\ wire \in [Clients -> Seq(Frames)] /\ "proc" \in Tasks
    BY DEF Receive, vaultRows, history, Types, Shape, WireOK, Tasks
  <1>1. PICK f : f = Head(wire[c])
    OBVIOUS
  <1>2. f \in Frames /\ wire[c] \in Seq(Frames) /\ wire[c] # <<>> /\ task[c]["proc"] = Idle
    BY <1>1, ReceiveStep
  <1>3. f \in On(wire[c]) /\ f \in FramesTo(c)
    BY <1>1, <1>2, OnTail DEF FramesTo
  <1>4. row[c] # NoSession => Reads(row[c], f)
    BY <1>3, RowReads
  <1>5. \E k : /\ Step(c, "proc", k) /\ k.frame = f /\ k.at \in ReadSteps /\ k.at # "isave"
               /\ k.at = "rsave" <=> row[c] # NoSession
               /\ UNCHANGED refused
    <2>1. CASE Reads(row[c], f) /\ Step(c, "proc", ReadJob(c, f)) /\ UNCHANGED refused
      <3>1. PICK k : k = ReadJob(c, f)
        OBVIOUS
      <3>2. k.at = "rsave" /\ k.frame = f /\ Step(c, "proc", k) /\ row[c] # NoSession
        BY <1>2, <2>1, <3>1, ReadJobFields DEF Reads
      <3> QED
        BY <2>1, <3>2 DEF ReadSteps
    <2>2. ASSUME ~Reads(row[c], f), NEW a \in {"rfetch", "inbound"},
                 Step(c, "proc", FirstJob(c, f, a)), UNCHANGED refused
          PROVE  \E k : /\ Step(c, "proc", k) /\ k.frame = f /\ k.at \in ReadSteps /\ k.at # "isave"
                        /\ k.at = "rsave" <=> row[c] # NoSession
                        /\ UNCHANGED refused
      <3>1. PICK k : k = FirstJob(c, f, a)
        OBVIOUS
      <3>2. k.at = a /\ k.frame = f /\ Step(c, "proc", k)
        BY <1>2, <2>2, <3>1, FirstJobFields
      <3> QED
        BY <1>4, <2>2, <3>2 DEF ReadSteps
    <2>3. ~(row[c] # NoSession /\ ~Reads(row[c], f))
      BY <1>4
    <2> QED
      BY <1>1, <2>1, <2>2, <2>3, ReceiveStep
  <1>6. PICK k : /\ Step(c, "proc", k) /\ k.frame = f /\ k.at \in ReadSteps /\ k.at # "isave"
                 /\ k.at = "rsave" <=> row[c] # NoSession
    BY <1>5
  <1>7. /\ InHand(c)' = {f} /\ InHand(c) = {} /\ wire'[c] = Tail(wire[c])
        /\ \A d \in Clients : d # c => wire'[d] = wire[d]
    <2>1. InHand(c)' = {f}
      BY <1>0, <1>6, StepHand
    <2>2. InHand(c) = {}
      BY <1>2, IdleJob DEF InHand, ReadSteps
    <2>3. wire'[c] = Tail(wire[c]) /\ \A d \in Clients : d # c => wire'[d] = wire[d]
      BY <1>0
    <2> QED
      BY <2>1, <2>2, <2>3
  <1>8. On(wire'[c]) \subseteq On(wire[c]) /\ FramesTo(c)' \subseteq FramesTo(c)
    BY <1>2, <1>3, <1>7, OnTail DEF FramesTo
  <1>9. \A d \in Clients : d # c => HandKept(d) /\ FreshKept(d)
    BY <1>0, <1>6, OtherKept
  <1>10. FreshKept(c)
    BY <1>0, <1>6, OwnFreshKept DEF ReadSteps
  <1>11. ASSUME NEW d \in Clients PROVE Carry(d)'
    <2>0. Carry(d) /\ Peer(d) \in Clients
      BY PeerFacts
    <2>1. FramesTo(d)' \subseteq FramesTo(d)
      BY <1>7, <1>8, <1>9 DEF FramesTo, HandKept
    <2>2. Paired(d)'
      BY <1>0, <2>0 DEF Carry, Paired
    <2>3. Sent(d)' /\ Received(d)'
      BY <1>0, <2>0, <2>1 DEF Carry, Orderly, Sent, Received
    <2>4. Sorted(d)'
      <3>1. CASE d = c
        <4>1. /\ Len(Tail(wire[c])) = Len(wire[c]) - 1 /\ Len(wire[c]) \in Nat \ {0}
              /\ \A i \in 1..Len(Tail(wire[c])) : Tail(wire[c])[i] = wire[c][i + 1]
          BY <1>2
        <4>2. \A i, j \in 1..Len(wire[c]) : i < j => wire[c][i].idx < wire[c][j].idx
          BY DEF Carry, Orderly, Sorted
        <4>3. ASSUME NEW i \in 1..Len(Tail(wire[c])), NEW j \in 1..Len(Tail(wire[c])), i < j
              PROVE  Tail(wire[c])[i].idx < Tail(wire[c])[j].idx
          <5>1. i + 1 \in 1..Len(wire[c]) /\ j + 1 \in 1..Len(wire[c]) /\ i + 1 < j + 1
            BY <4>1, <4>3
          <5>2. wire[c][i + 1].idx < wire[c][j + 1].idx
            BY <4>2, <5>1
          <5> QED
            BY <4>1, <5>2
        <4>4. ASSUME NEW g \in On(Tail(wire[c])) PROVE f.idx < g.idx
          <5>1. PICK i \in 1..Len(Tail(wire[c])) : g = Tail(wire[c])[i]
            BY DEF On
          <5>2. g = wire[c][i + 1] /\ i + 1 \in 1..Len(wire[c]) /\ 1 \in 1..Len(wire[c]) /\ 1 < i + 1
            BY <4>1, <5>1
          <5>3. f = wire[c][1]
            BY <1>1, <1>2
          <5> QED
            BY <4>2, <5>2, <5>3
        <4> QED
          BY <1>7, <3>1, <4>3, <4>4 DEF Sorted
      <3>2. CASE d # c
        BY <1>7, <1>9, <2>0, <3>2 DEF Carry, Orderly, Sorted, HandKept
      <3> QED
        BY <3>1, <3>2
    <2>5. Reader(d)'
      <3>1. CASE d = c
        <4>1. task'[c]["proc"] = k
          BY <1>6 DEF Step
        <4> QED
          BY <1>0, <1>6, <3>1, <4>1 DEF Reader, At
      <3>2. CASE d # c
        BY <1>0, <1>9, <2>0, <3>2 DEF Carry, Reader, HandKept
      <3> QED
        BY <3>1, <3>2
    <2>6. Half(d)'
      <3>1. At(d, "proc", "isave") => At(d, "proc", "isave")'
        <4>1. CASE d = c
          BY <1>2, <4>1, IdleJob DEF At
        <4>2. CASE d # c
          BY <1>9, <4>2 DEF HandKept
        <4> QED
          BY <4>1, <4>2
      <3>2. row[d] = NoSession /\ row[Peer(d)] # NoSession /\ ~At(d, "proc", "isave")'
               => row[Peer(d)].key[2] \in otks[d]
        BY <2>0, <3>1 DEF Carry, Half
      <3>3. FreshKept(Peer(d)) /\ Peer(Peer(d)) = d
        BY <1>9, <1>10, <2>0, PeerFacts
      <3>4. row[Peer(d)] = NoSession =>
               \A t \in Tasks : Fresh(Peer(d), t)' => task'[Peer(d)][t].copy.key[2] \in otks[d]
        BY <2>0, <3>3 DEF Carry, Half, FreshKept
      <3> QED
        BY <1>0, <3>2, <3>4 DEF Half
    <2> QED
      BY <2>2, <2>3, <2>4, <2>5, <2>6 DEF Carry, Orderly
  <1> QED
    BY <1>5, <1>11

LEMMA AccountCarry ==
  ASSUME Types, NEW c \in Clients, SaveAccount(c), \A d \in Clients : Carry(d)
  PROVE  \A d \in Clients : Carry(d)'
  <1>0. "proc" \in Tasks /\ RowsOK /\ task[c]["proc"] \in Jobs
    BY DEF Types, Shape, TaskOK, Tasks
  <1>1. PICK k : k = Moved(task[c]["proc"], "isave")
    OBVIOUS
  <1>2. /\ Step(c, "proc", k) /\ k.at = "isave" /\ k.frame = task[c]["proc"].frame
        /\ task[c]["proc"].at = "asave"
    BY <1>0, <1>1, AccountStep, MovedJob DEF ReadSteps
  <1>3. HandKept(c)
    BY <1>0, <1>2, OwnHandKept DEF ReadSteps
  <1>4. FreshKept(c)
    BY <1>0, <1>2, OwnFreshKept
  <1>5. \A d \in Clients : HandKept(d) /\ FreshKept(d)
    BY <1>0, <1>2, <1>3, <1>4, OtherKept
  <1>6. row[Peer(c)] # NoSession
    <2>1. task[c]["proc"].frame \in FramesTo(c)
      BY <1>0, <1>2, OwnSessions DEF ReadSteps
    <2> QED
      BY <2>1 DEF Carry, Orderly, Sent
  <1>7. At(c, "proc", "isave")'
    BY <1>2 DEF Step, At
  <1>8. UNCHANGED <<row, wire, starters>> /\ \A d \in Clients : d # c => otks'[d] = otks[d]
    BY <1>0 DEF SaveAccount, relay, RowsOK
  <1> QED
    BY <1>5, <1>6, <1>7, <1>8, CarryStill

\* What is under way once a client that was to read a frame has stored its session.
LEMMA DeliverCarry ==
  ASSUME Types, starters # Clients, NEW c \in Clients, Deliver(c), c \notin overtaken',
         \A d \in Clients : Carry(d)
  PROVE  \A d \in Clients : Carry(d)'
  <1>0. RowsOK /\ HistOK /\ "proc" \in Tasks
    BY DEF Types, Shape, Tasks
  <1>1. PICK k, f : k = task[c]["proc"] /\ f = k.frame
    OBVIOUS
  <1>2. PICK s : s = IF k.at = "rsave" THEN k.copy ELSE Inbound(f)
    OBVIOUS
  <1>3. /\ k \in Jobs /\ k.at \in {"rsave", "isave"} /\ f \in Frames /\ JobOK(c, "proc", k)
        /\ s \in Sessions /\ s.key = f.key /\ row' = [row EXCEPT ![c] = s]
        /\ Overtakes(c, row[c] # k.loaded) /\ UNCHANGED <<otks, wire, starters>>
    BY <1>1, <1>2, DeliverFacts DEF relay
  <1>4. row[c] = k.loaded /\ row'[c] = s /\ \A d \in Clients : d # c => row'[d] = row[d]
    BY <1>0, <1>3, OvertakesMore DEF RowsOK
  <1>5. PICK p : p = Peer(c)
    OBVIOUS
  <1>6. /\ p \in Clients /\ p # c /\ Peer(p) = c /\ Peer(c) = p
        /\ \A d \in Clients : d = c \/ d = p
    BY <1>5, PeerFacts
  <1>7. f \in FramesTo(c) /\ InHand(c) = {f} /\ f.idx \in Nat
    BY <1>0, <1>1, <1>3, OwnSessions DEF ReadSteps, InHand, Frames
  <1>8. /\ row[p] # NoSession /\ f.key = row[p].key /\ f.idx < row[p].snd
        /\ row[c] = NoSession => f.pre
    BY <1>6, <1>7 DEF Carry, Orderly, Sent
  <1>9. PICK j : j = Idle
    OBVIOUS
  <1>10. Step(c, "proc", j) /\ j.at = "idle"
    BY <1>9, EndSteps, IdleJob
  <1>11. HandKept(p) /\ FreshKept(p) /\ FreshKept(c)
    <2>1. HandKept(p) /\ FreshKept(p)
      BY <1>0, <1>6, <1>10, OtherKept
    <2>2. FreshKept(c)
      BY <1>0, <1>10, OwnFreshKept
    <2> QED
      BY <2>1, <2>2
  <1>12. InHand(c)' = {} /\ ~At(c, "proc", "rsave")' /\ task'[c]["proc"].at \notin ReadSteps
    <2>1. task'[c]["proc"].at = "idle"
      BY <1>10 DEF Step
    <2> QED
      BY <2>1 DEF InHand, At, ReadSteps
  <1>13. FramesTo(c)' = On(wire[c]) /\ FramesTo(p)' \subseteq FramesTo(p)
    BY <1>3, <1>6, <1>11, <1>12 DEF FramesTo, HandKept
  <1>14. s # NoSession
    BY <1>3, OlmConstants
  \* What the stored session has received, and that the other has it too.
  <1>15. /\ \A n \in s.rcv : n = f.idx \/ (row[c] # NoSession /\ n \in row[c].rcv)
         /\ s.key = row[p].key
         /\ row[c] # NoSession => s.snd = row[c].snd /\ s.key = row[c].key
    <2>1. CASE k.at = "rsave"
      <3>1. s = [row[c] EXCEPT !.rcv = @ \cup {f.idx}] /\ row[c] \in Sessions
        BY <1>1, <1>2, <1>3, <1>4, <2>1 DEF JobOK
      <3>2. s.rcv = row[c].rcv \cup {f.idx} /\ s.snd = row[c].snd /\ s.key = row[c].key
        BY <3>1 DEF Sessions
      <3>3. row[c] # NoSession
        BY <3>1, OlmConstants
      <3> QED
        BY <1>3, <1>8, <3>2, <3>3
    <2>2. CASE k.at = "isave"
      <3>1. s.rcv = {f.idx}
        BY <1>2, <1>3, <2>2, InboundFields
      <3>2. row[c] = NoSession
        BY <1>1, <2>2 DEF Carry, Reader, ReadSteps
      <3> QED
        BY <1>3, <1>8, <3>1, <3>2
    <2> QED
      BY <1>3, <2>1, <2>2
  <1>16. \A g \in On(wire[c]) : f.idx < g.idx
    BY <1>7 DEF Carry, Orderly, Sorted
  <1>17. row[c] = NoSession =>
           FramesTo(p) = {} /\ row[p].rcv = {} /\ c \notin starters /\ p \in starters
    <2> SUFFICES ASSUME row[c] = NoSession
                 PROVE  FramesTo(p) = {} /\ row[p].rcv = {} /\ c \notin starters /\ p \in starters
      OBVIOUS
    <2>1. FramesTo(p) = {}
      BY <1>6 DEF Carry, Orderly, Sent
    <2>2. row[p].rcv = {}
      BY <1>6, <1>8 DEF Carry, Orderly, Received
    <2>3. c \notin starters
      BY DEF Carry, Paired
    <2>4. p \in starters
      BY <1>6, <1>8, <2>3 DEF Carry, Paired
    <2> QED
      BY <2>1, <2>2, <2>3, <2>4
  <1>18. Carry(c)'
    <2>1. Paired(c)'
      <3>1. c \notin starters => p \in starters
        <4>1. CASE row[c] = NoSession
          BY <1>17, <4>1
        <4>2. CASE row[c] # NoSession
          BY <1>6, <4>2 DEF Carry, Paired
        <4> QED
          BY <4>1, <4>2
      <3> QED
        BY <1>3, <1>4, <1>6, <1>8, <1>14, <1>15, <3>1 DEF Paired
    <2>2. Sent(c)'
      <3>1. \A g \in On(wire[c]) : g.key = row[p].key /\ g.idx < row[p].snd
        BY <1>6 DEF Carry, Orderly, Sent, FramesTo
      <3> QED
        BY <1>4, <1>6, <1>8, <1>13, <1>14, <3>1 DEF Sent
    <2>3. Received(c)'
      <3>1. ASSUME NEW n \in s.rcv PROVE n < row[p].snd /\ \A g \in On(wire[c]) : n < g.idx
        <4>1. CASE n = f.idx
          BY <1>8, <1>16, <4>1
        <4>2. CASE row[c] # NoSession /\ n \in row[c].rcv
          BY <1>6, <4>2 DEF Carry, Orderly, Received, FramesTo
        <4> QED
          BY <1>15, <4>1, <4>2
      <3> QED
        BY <1>4, <1>6, <1>8, <1>13, <3>1 DEF Received
    <2>4. Sorted(c)'
      BY <1>3, <1>12 DEF Carry, Orderly, Sorted
    <2>5. Reader(c)'
      BY <1>12 DEF Reader
    <2>6. Half(c)'
      BY <1>4, <1>6, <1>8, <1>14 DEF Half
    <2> QED
      BY <2>1, <2>2, <2>3, <2>4, <2>5, <2>6 DEF Carry, Orderly
  <1>19. Carry(p)'
    <2>1. Paired(p)'
      <3>1. CASE row[c] = NoSession
        BY <1>3, <1>4, <1>6, <1>8, <1>17, <3>1 DEF Paired
      <3>2. CASE row[c] # NoSession
        BY <1>3, <1>4, <1>6, <1>14, <1>15, <3>2 DEF Carry, Paired
      <3> QED
        BY <3>1, <3>2
    <2>2. Sent(p)'
      <3> SUFFICES ASSUME NEW g \in FramesTo(p)
                   PROVE  /\ row'[c] # NoSession /\ g.key = row'[c].key /\ g.idx < row'[c].snd
                          /\ row'[p] = NoSession => g.pre
        BY <1>6, <1>13 DEF Sent
      <3>1. row[c] # NoSession /\ g.key = row[c].key /\ g.idx < row[c].snd
        BY <1>6 DEF Carry, Orderly, Sent
      <3> QED
        BY <1>4, <1>6, <1>8, <1>14, <1>15, <3>1
    <2>3. Received(p)'
      <3> SUFFICES ASSUME NEW n \in row[p].rcv
                   PROVE  /\ row'[c] # NoSession /\ n < row'[c].snd
                          /\ \A g \in FramesTo(p)' : n < g.idx
        BY <1>4, <1>6 DEF Received
      <3>1. row[c] # NoSession
        BY <1>17
      <3>2. n < row[c].snd /\ \A g \in FramesTo(p) : n < g.idx
        BY <1>6, <1>8 DEF Carry, Orderly, Received
      <3> QED
        BY <1>4, <1>13, <1>14, <1>15, <3>1, <3>2
    <2>4. Sorted(p)'
      BY <1>3, <1>6, <1>11 DEF Carry, Orderly, Sorted, HandKept
    <2>5. Reader(p)'
      BY <1>4, <1>6, <1>11 DEF Carry, Reader, HandKept
    <2>6. Half(p)'
      BY <1>4, <1>6, <1>8, <1>14 DEF Half
    <2> QED
      BY <2>1, <2>2, <2>3, <2>4, <2>5, <2>6 DEF Carry, Orderly
  <1> QED
    BY <1>6, <1>18, <1>19

LEMMA SaveCarry ==
  ASSUME Types, NEW c \in Clients, NEW t \in Tasks, SaveSend(c, t), c \notin overtaken',
         starters' # Clients, \A d \in Clients : Carry(d)
  PROVE  \A d \in Clients : Carry(d)'
  <1>0. RowsOK /\ HistOK /\ WireOK /\ "proc" \in Tasks /\ "cmd" \in Tasks
    BY DEF Types, Shape, Tasks
  <1>1. PICK k, p : k = task[c][t] /\ p = Peer(c)
    OBVIOUS
  <1>2. /\ p \in Clients /\ p # c /\ Peer(p) = c /\ Peer(c) = p
        /\ \A d \in Clients : d = c \/ d = p
    BY <1>1, PeerFacts
  <1>a. PICK s \in Sessions : \E f :
           /\ task[c][t] \in Jobs /\ task[c][t].at = "save" /\ task[c][t].copy \in Sessions
           /\ task[c][t].loaded \in Maybe
           /\ IF task[c][t].loaded = NoSession THEN New(c, task[c][t].copy)
              ELSE task[c][t].copy = task[c][t].loaded
           /\ s.key = task[c][t].copy.key /\ s.ident = task[c][t].copy.ident
           /\ s.rcv = task[c][t].copy.rcv /\ row' = [row EXCEPT ![c] = s]
           /\ UNCHANGED <<otks, pin, pool, made, got, ops, faults, left>>
           /\ Overtakes(c, row[c] # task[c][t].loaded)
           /\ starters' = IF task[c][t].loaded = NoSession THEN starters \cup {c} ELSE starters
           /\ task[c][t].op = "start" =>
                 UNCHANGED <<wire, sent, used, reused>> /\ s.snd = task[c][t].copy.snd
           /\ task[c][t].op # "start" =>
                 /\ s.snd = task[c][t].copy.snd + 1 /\ f \in Frames
                 /\ f.key = task[c][t].copy.key /\ f.ident = task[c][t].copy.ident
                 /\ f.idx = task[c][t].copy.snd
                 /\ f.pre = (task[c][t].copy.rcv = {}) /\ f.no = sent + 1
                 /\ wire' = [wire EXCEPT ![Peer(c)] = Append(@, f)]
                 /\ sent' = sent + 1
                 /\ used' = [used EXCEPT ![c] = @ \cup {<<f.key, f.idx>>}]
                 /\ reused' = IF <<f.key, f.idx>> \in used[c] THEN reused \cup {c} ELSE reused
    BY SaveSendNames
  <1>3. PICK f :
           /\ k.at = "save" /\ k.copy \in Sessions
           /\ IF k.loaded = NoSession THEN New(c, k.copy) ELSE k.copy = k.loaded
           /\ s.key = k.copy.key /\ s.rcv = k.copy.rcv /\ row' = [row EXCEPT ![c] = s]
           /\ UNCHANGED otks /\ Overtakes(c, row[c] # k.loaded)
           /\ starters' = IF k.loaded = NoSession THEN starters \cup {c} ELSE starters
           /\ k.op = "start" => UNCHANGED wire /\ s.snd = k.copy.snd
           /\ k.op # "start" =>
                 /\ s.snd = k.copy.snd + 1 /\ f \in Frames /\ f.key = k.copy.key
                 /\ f.idx = k.copy.snd /\ f.pre = (k.copy.rcv = {})
                 /\ wire' = [wire EXCEPT ![p] = Append(@, f)]
    BY <1>1, <1>a
  <1>4. /\ row[c] = k.loaded /\ row'[c] = s /\ row'[p] = row[p] /\ s # NoSession
        /\ k.copy.snd \in Nat /\ s.snd \in Nat /\ k.copy.snd <= s.snd
    <2>1. row[c] = k.loaded
      BY <1>0, <1>3, OvertakesMore
    <2>2. row'[c] = s /\ row'[p] = row[p] /\ s # NoSession
      BY <1>0, <1>2, <1>3, OlmConstants DEF RowsOK
    <2>3. k.copy.snd \in Nat
      BY <1>3 DEF Sessions
    <2>4. s.snd = k.copy.snd \/ s.snd = k.copy.snd + 1
      BY <1>3
    <2> QED
      BY <2>1, <2>2, <2>3, <2>4
  \* The job that remains has neither a frame nor a session to start.
  <1>5. \E j : Step(c, t, j) /\ j.at \in {"idle", "delete"}
    <2>1. CASE k.op = "left"
      <3>1. k \in Jobs
        BY <1>1, <1>a
      <3> QED
        BY <1>1, <2>1, <3>1, SaveStep, MovedJob DEF CmdSteps
    <2>2. CASE k.op # "left"
      BY <1>1, <2>2, SaveStep, IdleJob
    <2> QED
      BY <2>1, <2>2
  <1>6. PICK j : Step(c, t, j) /\ j.at \in {"idle", "delete"}
    BY <1>5
  <1>7. \A d \in Clients : HandKept(d) /\ FreshKept(d)
    <2>1. j.at \notin ReadSteps /\ j.at \notin {"pin", "save"}
      BY <1>6 DEF ReadSteps
    <2>2. t = "proc" => task[c]["proc"].at # "isave"
      BY <1>1, <1>3
    <2>3. HandKept(c)
      BY <1>6, <2>1, <2>2, OwnHandKept
    <2>4. FreshKept(c)
      BY <1>6, <2>1, OwnFreshKept
    <2> QED
      BY <1>6, <2>3, <2>4, OtherKept
  <1>8. wire'[c] = wire[c] /\ FramesTo(c)' \subseteq FramesTo(c)
    <2>1. wire'[c] = wire[c]
      BY <1>0, <1>2, <1>3 DEF WireOK
    <2> QED
      BY <1>7, <2>1 DEF FramesTo, HandKept
  \* Without a session neither had one, and nothing was under way.
  <1>9. row[c] = NoSession =>
           /\ row[p] = NoSession /\ FramesTo(p) = {} /\ FramesTo(c) = {}
           /\ s.rcv = {} /\ s.key[2] \in otks[p]
    <2> SUFFICES ASSUME row[c] = NoSession
                 PROVE  /\ row[p] = NoSession /\ FramesTo(p) = {} /\ FramesTo(c) = {}
                        /\ s.rcv = {} /\ s.key[2] \in otks[p]
      OBVIOUS
    <2>1. p \notin starters
      <3>1. starters' = starters \cup {c} /\ starters \subseteq Clients
        BY <1>0, <1>3, <1>4 DEF HistOK
      <3> QED
        BY <1>2, <3>1
    <2>2. row[p] = NoSession
      BY <1>2, <2>1 DEF Carry, Paired
    <2>3. FramesTo(p) = {}
      BY <1>2 DEF Carry, Orderly, Sent
    <2>4. FramesTo(c) = {}
      BY <1>2, <2>2 DEF Carry, Orderly, Sent
    <2>5. s.rcv = {}
      BY <1>3, <1>4 DEF New
    <2>6. s.key[2] \in otks[p]
      <3>1. Fresh(c, t)
        BY <1>1, <1>3, <1>4 DEF Fresh
      <3> QED
        BY <1>1, <1>2, <1>3, <3>1 DEF Carry, Half
    <2> QED
      BY <2>2, <2>3, <2>4, <2>5, <2>6
  <1>10. row[c] # NoSession =>
            /\ k.copy = row[c] /\ s.key = row[c].key /\ s.rcv = row[c].rcv
            /\ row[c].snd = k.copy.snd /\ starters' = starters
    BY <1>3, <1>4
  <1>11. \A g \in FramesTo(p) : g.idx < k.copy.snd /\ g.key = s.key
    <2>1. CASE row[c] = NoSession
      BY <1>9, <2>1
    <2>2. CASE row[c] # NoSession
      BY <1>2, <1>10, <2>2 DEF Carry, Orderly, Sent
    <2> QED
      BY <2>1, <2>2
  <1>12. On(wire'[p]) = IF k.op = "start" THEN On(wire[p]) ELSE On(wire[p]) \cup {f}
    <2>1. CASE k.op = "start"
      BY <1>3, <2>1
    <2>2. CASE k.op # "start"
      <3>1. wire'[p] = Append(wire[p], f) /\ wire[p] \in Seq(Frames) /\ f \in Frames
        BY <1>0, <1>2, <1>3, <2>2 DEF WireOK
      <3> QED
        BY <2>2, <3>1, OnAppend
    <2> QED
      BY <2>1, <2>2
  <1>13. \A g \in FramesTo(p)' : g \in FramesTo(p) \/ (k.op # "start" /\ g = f)
    <2>1. InHand(p)' \subseteq InHand(p)
      BY <1>2, <1>7 DEF HandKept
    <2> QED
      BY <1>12, <2>1 DEF FramesTo
  <1>14. Carry(c)'
    <2>1. Paired(c)'
      <3>1. c \notin starters' => row[c] # NoSession /\ c \notin starters
        BY <1>3, <1>4
      <3> QED
        BY <1>2, <1>4, <1>10, <3>1 DEF Carry, Paired
    <2>2. Sent(c)'
      BY <1>2, <1>4, <1>8 DEF Carry, Orderly, Sent
    <2>3. Received(c)'
      <3>1. CASE row[c] = NoSession
        BY <1>4, <1>9, <3>1 DEF Received
      <3>2. CASE row[c] # NoSession
        BY <1>2, <1>4, <1>8, <1>10, <3>2 DEF Carry, Orderly, Received
      <3> QED
        BY <3>1, <3>2
    <2>4. Sorted(c)'
      BY <1>7, <1>8 DEF Carry, Orderly, Sorted, HandKept
    <2>5. Reader(c)'
      <3>1. task[c]["proc"].at \notin ReadSteps \ {"rsave"}
        <4> SUFFICES ASSUME task[c]["proc"].at \in ReadSteps \ {"rsave"} PROVE FALSE
          OBVIOUS
        <4>1. row[c] = NoSession
          BY DEF Carry, Reader
        <4>2. task[c]["proc"].frame \in FramesTo(c)
          BY <1>0, OwnSessions
        <4> QED
          BY <1>9, <4>1, <4>2
      <3>2. task'[c]["proc"].at \notin ReadSteps \ {"rsave"}
        BY <1>7, <3>1 DEF HandKept
      <3> QED
        BY <1>4, <3>2 DEF Reader
    <2>6. Half(c)'
      <3>1. row[p] = NoSession =>
               \A r \in Tasks : Fresh(p, r)' => task'[p][r].copy.key[2] \in otks[c]
        BY <1>2, <1>7 DEF Carry, Half, FreshKept
      <3> QED
        BY <1>2, <1>3, <1>4, <3>1 DEF Half
    <2> QED
      BY <2>1, <2>2, <2>3, <2>4, <2>5, <2>6 DEF Carry, Orderly
  <1>15. Carry(p)'
    <2>1. Paired(p)'
      <3>1. p \in starters' => p \in starters
        BY <1>2, <1>3
      <3>2. starters \subseteq starters'
        BY <1>3
      <3>3. row[p] # NoSession => row[c] # NoSession
        BY <1>9
      <3>4. p \in starters => row[p] # NoSession
        BY <1>2 DEF Carry, Paired
      <3>5. p \notin starters /\ row[p] # NoSession => c \in starters /\ row[p].key = row[c].key
        BY <1>2 DEF Carry, Paired
      <3> QED
        BY <1>2, <1>4, <1>10, <3>1, <3>2, <3>3, <3>4, <3>5 DEF Paired
    <2>2. Sent(p)'
      <3> SUFFICES ASSUME NEW g \in FramesTo(p)'
                   PROVE  g.key = s.key /\ g.idx < s.snd /\ (row[p] = NoSession => g.pre)
        BY <1>2, <1>4 DEF Sent
      <3>1. CASE g \in FramesTo(p)
        <4>1. g.idx \in Nat
          BY <1>2, <3>1, TypedFrames DEF Frames
        <4>2. row[p] = NoSession => g.pre
          BY <1>2, <3>1 DEF Carry, Orderly, Sent
        <4>3. g.key = s.key /\ g.idx < k.copy.snd
          BY <1>11, <3>1
        <4> QED
          BY <1>4, <4>1, <4>2, <4>3
      <3>2. CASE k.op # "start" /\ g = f
        <4>1. row[p] = NoSession => s.rcv = {}
          <5>1. CASE row[c] = NoSession
            BY <1>9, <5>1
          <5>2. CASE row[c] # NoSession
            BY <1>2, <1>10, <5>2 DEF Carry, Orderly, Received
          <5> QED
            BY <5>1, <5>2
        <4>2. f.key = s.key /\ f.idx = k.copy.snd /\ s.snd = k.copy.snd + 1 /\ f.pre = (s.rcv = {})
          BY <1>3, <3>2
        <4>3. f.idx < s.snd
          BY <1>4, <4>2
        <4> QED
          BY <3>2, <4>1, <4>2, <4>3
      <3> QED
        BY <1>13, <3>1, <3>2
    <2>3. Received(p)'
      <3> SUFFICES ASSUME row[p] # NoSession, NEW n \in row[p].rcv
                   PROVE  n < s.snd /\ \A g \in FramesTo(p)' : n < g.idx
        BY <1>2, <1>4 DEF Received
      <3>1. row[c] # NoSession
        BY <1>9
      <3>2. n < k.copy.snd /\ \A g \in FramesTo(p) : n < g.idx
        BY <1>2, <1>10, <3>1 DEF Carry, Orderly, Received
      <3>3. n \in Nat
        BY <1>0, <1>2 DEF RowsOK, Maybe, Sessions
      <3>4. n < s.snd
        BY <1>4, <3>2, <3>3
      <3>5. k.op # "start" => n < f.idx
        BY <1>3, <3>2
      <3> QED
        BY <1>13, <3>2, <3>4, <3>5
    <2>4. Sorted(p)'
      <3>1. CASE k.op = "start"
        BY <1>2, <1>3, <1>7, <3>1 DEF Carry, Orderly, Sorted, HandKept
      <3>2. CASE k.op # "start"
        <4>1. /\ wire'[p] = Append(wire[p], f) /\ wire[p] \in Seq(Frames) /\ f \in Frames
              /\ f.idx = k.copy.snd
          BY <1>0, <1>2, <1>3, <3>2 DEF WireOK
        <4>2. PICK w, v : w = wire[p] /\ v = wire'[p]
          OBVIOUS
        <4>3. PICK n : n = Len(w)
          OBVIOUS
        <4>4. n \in Nat /\ Len(v) = n + 1 /\ v[n + 1] = f /\ \A i \in 1..n : v[i] = w[i]
          BY <4>1, <4>2, <4>3
        <4>5. ASSUME NEW i \in 1..n PROVE v[i].idx < f.idx
          <5>1. w[i] \in FramesTo(p)
            BY <4>2, <4>3 DEF FramesTo, On
          <5>2. w[i].idx < k.copy.snd
            BY <1>11, <5>1
          <5> QED
            BY <4>1, <4>4, <5>2
        <4>6. \A i, l \in 1..n : i < l => v[i].idx < v[l].idx
          <5>1. \A i, l \in 1..n : i < l => w[i].idx < w[l].idx
            BY <1>2, <4>2, <4>3 DEF Carry, Orderly, Sorted
          <5> QED
            BY <4>4, <5>1
        <4>7. ASSUME NEW i \in 1..(n + 1), NEW l \in 1..(n + 1), i < l PROVE v[i].idx < v[l].idx
          <5>1. i \in 1..n
            BY <4>4, <4>7
          <5>2. CASE l = n + 1
            BY <4>4, <4>5, <5>1, <5>2
          <5>3. CASE l # n + 1
            <6>1. l \in 1..n
              BY <4>4, <5>3
            <6> QED
              BY <4>6, <4>7, <5>1, <6>1
          <5> QED
            BY <5>2, <5>3
        <4>8. ASSUME NEW g \in InHand(p)', NEW h \in On(wire'[p]) PROVE g.idx < h.idx
          <5>1. g \in InHand(p) /\ g \in FramesTo(p)
            BY <1>2, <1>7 DEF HandKept, FramesTo
          <5>2. CASE h \in On(wire[p])
            BY <1>2, <5>1, <5>2 DEF Carry, Orderly, Sorted
          <5>3. CASE h = f
            BY <1>11, <4>1, <5>1, <5>3
          <5> QED
            BY <1>12, <5>2, <5>3
        <4> QED
          BY <4>2, <4>4, <4>7, <4>8 DEF Sorted
      <3> QED
        BY <3>1, <3>2
    <2>5. Reader(p)'
      BY <1>2, <1>4, <1>7 DEF Carry, Reader, HandKept
    <2>6. Half(p)'
      <3>1. row[p] = NoSession /\ ~At(p, "proc", "isave")' => s.key[2] \in otks[p]
        <4>1. CASE row[c] = NoSession
          BY <1>9, <4>1
        <4>2. CASE row[c] # NoSession
          BY <1>2, <1>7, <1>10, <4>2 DEF Carry, Half, HandKept
        <4> QED
          BY <4>1, <4>2
      <3> QED
        BY <1>2, <1>3, <1>4, <3>1 DEF Half
    <2> QED
      BY <2>1, <2>2, <2>3, <2>4, <2>5, <2>6 DEF Carry, Orderly
  <1> QED
    BY <1>2, <1>14, <1>15

\* A session is made for a frame that has the key it was started with, whose
\* private half is still there.
LEMMA InboundReads ==
  ASSUME Types, NEW c \in Clients, CreateInbound(c),
         \A d \in Clients : Carry(d) /\ RealOnly(d)
  PROVE  UNCHANGED refused
  <1>0. "proc" \in Tasks
    BY DEF Tasks
  <1>1. PICK k, f : k = task[c]["proc"] /\ f = k.frame
    OBVIOUS
  <1>2. k.at = "inbound" /\ f \in FramesTo(c)
    BY <1>0, <1>1, InboundStep, OwnSessions DEF ReadSteps
  <1>3. row[c] = NoSession
    BY <1>1, <1>2 DEF Carry, Reader, ReadSteps
  <1>4. row[Peer(c)] # NoSession /\ f.key = row[Peer(c)].key /\ f.pre
    BY <1>2, <1>3 DEF Carry, Orderly, Sent
  <1>5. f.key[2] \in otks[c]
    <2>1. ~At(c, "proc", "isave")
      BY <1>1, <1>2 DEF At
    <2> QED
      BY <1>3, <1>4, <2>1 DEF Carry, Half
  <1>6. k.ident = Real /\ f.ident = Real
    BY <1>1, <1>2 DEF RealOnly
  <1> QED
    BY <1>1, <1>4, <1>5, <1>6, InboundStep

LEMMA SmoothReads ==
  ASSUME Types, Sound, starters # Clients, NEW c \in Clients, SmoothStep(c),
         \A d \in Clients : Carry(d) /\ RealOnly(d)
  PROVE  UNCHANGED refused
  <1>1. CASE Sends(c) \/ OpensChat(c)
    BY <1>1, SendsStep DEF OpensChat, StartDm, Begin, got
  <1>2. CASE \E t \in Tasks : PinContact(c, t) \/ Fetch(c, t, Real)
    BY <1>2 DEF PinContact, Fetch, got
  <1>3. CASE Replenish(c) \/ SaveKeys(c) \/ PublishKeys(c)
    BY <1>3 DEF Replenish, SaveKeys, PublishKeys, got
  <1>4. CASE Receive(c)
    BY <1>4, ReceiveCarry
  <1>5. CASE CreateInbound(c)
    BY <1>5, InboundReads
  <1>6. CASE SaveAccount(c) \/ Deliver(c)
    BY <1>6 DEF SaveAccount, Deliver, got
  <1>7. CASE FetchSender(c, Real)
    <2>1. pin[c] \in {NoIdent, Real} /\ Real \in Idents
      BY OlmConstants DEF RealOnly
    <2> QED
      BY <1>7, <2>1, SenderStep
  <1> QED
    BY <1>1, <1>2, <1>3, <1>4, <1>5, <1>6, <1>7 DEF SmoothStep

LEMMA SmoothCarry ==
  ASSUME Types, Sound, starters # Clients, NEW c \in Clients, SmoothStep(c), c \notin overtaken',
         \A d \in Clients : Carry(d) /\ RealOnly(d) /\ pool[d] \subseteq otks[d]
  PROVE  \A d \in Clients : Carry(d)'
  <1>1. CASE \/ Sends(c) \/ OpensChat(c) \/ (\E t \in Tasks : PinContact(c, t))
             \/ Replenish(c) \/ SaveKeys(c) \/ PublishKeys(c)
             \/ CreateInbound(c) \/ FetchSender(c, Real)
    BY <1>1, CarryQuiet
  <1>2. ASSUME NEW t \in Tasks, Fetch(c, t, Real) PROVE \A d \in Clients : Carry(d)'
    <2>1. pool[Peer(c)] \subseteq otks[Peer(c)]
      BY PeerFacts
    <2> QED
      BY <1>2, <2>1, FetchCarry
  <1>3. CASE Receive(c)
    BY <1>3, ReceiveCarry
  <1>4. CASE SaveAccount(c)
    BY <1>4, AccountCarry
  <1>5. CASE Deliver(c)
    BY <1>5, DeliverCarry
  <1> QED
    BY <1>1, <1>2, <1>3, <1>4, <1>5 DEF SmoothStep

LEMMA NextCarry ==
  ASSUME Types, Types', Sound, OnceInv, RealInv, CarryInv, NoRefusal, [Next]_vars
  PROVE  CarryInv' /\ NoRefusal'
  <1> SUFFICES ASSUME Smooth'
               PROVE  (\A c \in Clients : Carry(c)') /\ \A c \in Clients : refused'[c] = {}
    BY DEF CarryInv, NoRefusal
  <1>1. overtaken' = {} /\ starters' # Clients
    BY DEF Types, Shape, HistOK, Smooth, Trouble
  <1>2. Smooth => /\ overtaken = {} /\ starters # Clients
                  /\ \A c \in Clients : Carry(c) /\ RealOnly(c) /\ pool[c] \subseteq otks[c]
                  /\ \A c \in Clients : refused[c] = {}
    <2> SUFFICES ASSUME Smooth
                 PROVE  /\ overtaken = {} /\ starters # Clients
                        /\ \A c \in Clients : Carry(c) /\ RealOnly(c) /\ pool[c] \subseteq otks[c]
                        /\ \A c \in Clients : refused[c] = {}
      OBVIOUS
    <2>1. overtaken = {} /\ starters # Clients
      BY SmoothFacts
    <2>2. \A c \in Clients : pool[c] \subseteq otks[c]
      BY <2>1 DEF OnceInv, OnceOK, HeldOK
    <2> QED
      BY <2>1, <2>2 DEF CarryInv, RealInv, NoRefusal
  <1>3. CASE UNCHANGED vars
    <2>1. /\ UNCHANGED <<row, otks, wire, task, faults, starters, left, overtaken>>
          /\ UNCHANGED refused
      BY <1>3 DEF vars, vaultRows, relay, got, count, history
    <2>2. Smooth
      BY <2>1 DEF Smooth, Trouble
    <2>3. \A d \in Clients : HandKept(d) /\ FreshKept(d)
      BY <2>1 DEF HandKept, FreshKept, InHand, At, Fresh
    <2>4. \A d \in Clients : Carry(d)'
      BY <1>2, <2>1, <2>2, <2>3, CarryStill
    <2> QED
      BY <1>2, <2>1, <2>2, <2>4
  <1>4. ASSUME NEW c \in Clients, Others(c)
        PROVE  (\A d \in Clients : Carry(d)') /\ UNCHANGED refused /\ Smooth
    <2>1. Smooth /\ SmoothStep(c)
      BY <1>4, OthersSmooth
    <2>2. \A d \in Clients : Carry(d)'
      BY <1>1, <1>2, <2>1, SmoothCarry
    <2>3. UNCHANGED refused
      BY <1>2, <2>1, SmoothReads
    <2> QED
      BY <2>1, <2>2, <2>3
  <1>5. ASSUME NEW c \in Clients, NEW t \in Tasks, SaveSend(c, t)
        PROVE  (\A d \in Clients : Carry(d)') /\ UNCHANGED refused /\ Smooth
    <2>1. Smooth
      BY <1>5, SaveSmooth
    <2>2. \A d \in Clients : Carry(d)'
      BY <1>1, <1>2, <1>5, <2>1, SaveCarry
    <2>3. UNCHANGED refused
      BY <1>5 DEF SaveSend, got
    <2> QED
      BY <2>1, <2>2, <2>3
  <1> QED
    BY <1>2, <1>3, <1>4, <1>5, NextOthers

LEMMA InitCarry == Init => RealInv /\ CarryInv /\ NoRefusal
  <1> SUFFICES ASSUME Init, NEW c \in Clients
               PROVE  RealOnly(c) /\ Carry(c) /\ refused[c] = {}
    BY DEF RealInv, CarryInv, NoRefusal
  <1>0. Peer(c) \in Clients /\ "proc" \in Tasks
    BY PeerFacts DEF Tasks
  <1>1. /\ \A d \in Clients : row[d] = NoSession /\ wire[d] = <<>> /\ pin[d] = NoIdent
                              /\ refused[d] = {}
        /\ \A d \in Clients, t \in Tasks : task[d][t] = Idle
        /\ starters = {}
    BY DEF Init
  <1>2. /\ \A d \in Clients, t \in Tasks : /\ task[d][t].at = "idle"
                                           /\ task[d][t].loaded = NoSession
                                           /\ task[d][t].copy = NoSession
    BY <1>1, IdleJob
  <1>3. FramesTo(c) = {} /\ On(wire[c]) = {} /\ InHand(c) = {}
    <2>1. InHand(c) = {}
      BY <1>0, <1>2 DEF InHand, ReadSteps
    <2>2. Len(wire[c]) = 0
      BY <1>1
    <2>3. On(wire[c]) = {}
      BY <2>2 DEF On
    <2> QED
      BY <2>1, <2>3 DEF FramesTo
  <1>4. SessionsOf(c) = {}
    BY <1>1, <1>2 DEF SessionsOf
  <1>5. RealOnly(c)
    BY <1>0, <1>1, <1>2, <1>3, <1>4 DEF RealOnly
  <1>6. Orderly(c)
    <2>1. Len(wire[c]) = 0
      BY <1>1
    <2>2. Sorted(c)
      BY <1>3, <2>1 DEF Sorted
    <2> QED
      BY <1>1, <1>3, <2>2 DEF Orderly, Sent, Received
  <1>7. Paired(c) /\ Reader(c) /\ Half(c)
    <2>1. Paired(c)
      BY <1>1 DEF Paired
    <2>2. Reader(c)
      BY <1>0, <1>2 DEF Reader, At, ReadSteps
    <2>3. Half(c)
      BY <1>0, <1>1, <1>2 DEF Half, Fresh
    <2> QED
      BY <2>1, <2>2, <2>3
  <1> QED
    BY <1>1, <1>5, <1>6, <1>7 DEF Carry

\* A message that a client could not read (the errors of obtain_olm_plaintext) is
\* owed to a fault, to a save that went over another's, to a chat that was left,
\* or to both having started a session: a session that one of the two starts
\* carries every message that either of them sends, for as long as it lasts.
THEOREM RefusalHasCauseAlways == Spec => []RefusalHasCause
  <1> DEFINE I == /\ Types /\ Sound /\ OnceInv /\ KeyPerMessage
                  /\ RealInv /\ CarryInv /\ NoRefusal
  <1>1. Init => I
    BY InitTypes, InitSound, InitOnce, InitCarry
  <1>2. I /\ [Next]_vars => I'
    BY NextTypes, NextSound, NextOnce, NextReal, NextCarry
  <1>3. I => RefusalHasCause
    BY DEF NoRefusal, Smooth, RefusalHasCause
  <1> QED
    BY <1>1, <1>2, <1>3, PTL DEF Spec
=============================================================================
