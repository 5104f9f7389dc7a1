-------------------------- MODULE GroupOwnerProofs --------------------------
(***************************************************************************)
(* Proofs about GroupOwner.                                                *)
(***************************************************************************)
EXTENDS GroupOwner, TLAPS

Ops == {"idle", "create", "admit", "moderate", "say", "join"}

\* What a task may be when n sessions were made.
Jobs(n) == [op : Ops, at : Steps, who : Users \cup {NoUser}, key : 0..n,
            rcp : SUBSET Users, mode : Modes \cup {"none"}, clear : BOOLEAN]

\* Which steps each task's handlers have, and whom they are about.
AdmitSteps == {"add", "load", "share", "event", "save"}
ModerateSteps == {"event", "save", "drop", "mint", "members", "share"}
JoinSteps == {"prune", "member", "queue"}
CmdShape(k) ==
    \/ k.op = "idle"
    \/ k.op = "create" /\ k.at = "share"
    \/ k.op = "admit" /\ k.at \in AdmitSteps /\ k.who \in Users
    \/ k.op = "moderate" /\ k.at \in ModerateSteps /\ k.who \in Users
    \/ k.op = "say" /\ k.at \in {"event", "save"}
ProcShape(k) ==
    \/ k.op = "idle"
    \/ k.op = "admit" /\ k.at \in AdmitSteps /\ k.who \in Users
    \/ k.op = "join" /\ k.at \in JoinSteps /\ k.who \in Users
ShapeOf(t, k) ==
    /\ IF t = "cmd" THEN CmdShape(k) ELSE ProcShape(k)
    /\ k.op = "admit" => k.rcp \subseteq {k.who}
    /\ k.at \in {"save", "share", "members"} => k.key # 0
Shape == \A t \in Tasks : ShapeOf(t, task[t])

\* Every rotation was ordered, and no handler runs before there is a group.
Counted ==
    /\ minted <= orders + 1
    /\ \A u \in Users : Rotating(u) => minted <= orders
    /\ \A t \in Tasks : task[t].op # "idle" => mode # "none"

JobsOK == task \in [Tasks -> Jobs(minted)]
RestOK ==
    /\ mode \in Modes \cup {"none"}
    /\ roster \in SUBSET Users /\ bans \in SUBSET Users /\ reqs \in SUBSET Users
    /\ susp \in [Users -> Nat] /\ sentence \in [Users -> Nat]
    /\ out \in 0..minted /\ minted \in Nat
    /\ mode # "none" => out # 0
    /\ held \in [Users -> SUBSET (1..minted)] /\ latest \in [Users -> 0..minted]
    /\ now \in 0..MaxTime /\ orders \in 0..MaxOrders
    /\ frames \in 0..MaxFrames /\ faults \in 0..MaxFaults
    /\ expelled \in SUBSET Users /\ excused \in SUBSET Users
    /\ behind \in SUBSET Users /\ reverted \in BOOLEAN

Types == JobsOK /\ RestOK /\ Shape /\ Counted

LEMMA Constants ==
    /\ NoUser \notin Users /\ Skew \in Nat /\ MaxOrders \in Nat
    /\ MaxFrames \in Nat /\ MaxFaults \in Nat /\ MaxTime \in Nat
    /\ Durations \subseteq Nat \ {0} /\ "none" \notin Modes
  BY OwnerConstants

----------------------------------------------------------------------------
(* How a handler moves on.                                                 *)

\* Task t is now job k and the other task is where it was.
Turned(t, k) == /\ task'[t] = k
                /\ \A s \in Tasks : s # t => task'[s] = task[s]

\* The fields of a job that decide anything but the verdict on a request.
Fields(k, op, a, u, n, R) ==
    k.op = op /\ k.at = a /\ k.who = u /\ k.key = n /\ k.rcp = R

\* Task t went on to a step, or to the next of the recipients R; the other task
\* is where it was.
Went(t, op, a, u, n, R) ==
    /\ Fields(task'[t], op, a, u, n, R)
    /\ \A s \in Tasks : s # t => task'[s] = task[s]
Ended(t) == Went(t, "idle", "", NoUser, 0, {})
Served(t, n, R) ==
    /\ R # {} => Went(t, task[t].op, "share", Who(t), n, R)
    /\ R = {} /\ task[t].op = "admit" => Went(t, "admit", "event", Who(t), 0, {})
    /\ R = {} /\ task[t].op # "admit" => Ended(t)

LEMMA IdleJob ==
  /\ \A n \in Nat : Idle \in Jobs(n)
  /\ Fields(Idle, "idle", "", NoUser, 0, {}) /\ ~Idle.clear
  BY DEF Idle, Jobs, Ops, Steps, Fields

LEMMA ServingJob ==
  ASSUME NEW n \in Nat, NEW k \in Jobs(n), NEW R \in SUBSET Users
  PROVE  /\ Serving(k, R) \in Jobs(n)
         /\ R # {} => Fields(Serving(k, R), k.op, "share", k.who, k.key, R)
         /\ R = {} /\ k.op = "admit"
               => Fields(Serving(k, R), "admit", "event", k.who, 0, {})
         /\ R = {} /\ k.op # "admit" => Serving(k, R) = Idle
  <1>1. CASE R # {}
    <2>1. Serving(k, R) = [k EXCEPT !.rcp = R, !.at = "share"]
      BY <1>1 DEF Serving
    <2> QED
      BY <1>1, <2>1 DEF Jobs, Steps, Fields
  <1>2. CASE R = {} /\ k.op = "admit"
    <2>1. Serving(k, R) = [Idle EXCEPT !.op = "admit", !.at = "event", !.who = k.who]
      BY <1>2 DEF Serving
    <2>2. k.who \in Users \cup {NoUser}
      BY DEF Jobs
    <2>3. Serving(k, R) \in Jobs(n)
      BY <2>1, <2>2, IdleJob DEF Jobs, Ops, Steps
    <2>4. Fields(Serving(k, R), "admit", "event", k.who, 0, {})
      BY <2>1 DEF Idle, Fields
    <2> QED
      BY <1>2, <2>3, <2>4
  <1>3. CASE R = {} /\ k.op # "admit"
    BY <1>3, IdleJob DEF Serving
  <1> QED
    BY <1>1, <1>2, <1>3

LEMMA Turn ==
  ASSUME NEW n, task \in [Tasks -> Jobs(n)], NEW t \in Tasks, NEW k \in Jobs(n),
         task' = [task EXCEPT ![t] = k]
  PROVE  Turned(t, k) /\ task' \in [Tasks -> Jobs(n)]
  BY DEF Turned

LEMMA GotoTurn ==
  ASSUME JobsOK, minted \in Nat, minted' = minted, NEW t \in Tasks, NEW a \in Steps, Goto(t, a)
  PROVE  /\ Went(t, task[t].op, a, Who(t), task[t].key, task[t].rcp)
         /\ task'[t].clear = task[t].clear
         /\ JobsOK'
  <1>1. task[t] \in Jobs(minted)
    BY DEF JobsOK
  <1>2. [task[t] EXCEPT !.at = a] \in Jobs(minted)
    BY <1>1 DEF Jobs
  <1>3. task' = [task EXCEPT ![t] = [task[t] EXCEPT !.at = a]]
    BY DEF Goto
  <1>4. Turned(t, [task[t] EXCEPT !.at = a]) /\ task' \in [Tasks -> Jobs(minted)]
    BY <1>2, <1>3, Turn DEF JobsOK
  <1> QED
    BY <1>1, <1>4 DEF JobsOK, Turned, Went, Fields, Jobs, Who

LEMMA BeginTurn ==
  ASSUME JobsOK, minted \in Nat, minted' = minted, NEW t \in Tasks, NEW op \in Ops,
         NEW a \in Steps, NEW u \in Users \cup {NoUser}, Begin(t, op, a, u)
  PROVE  Went(t, op, a, u, 0, {}) /\ JobsOK'
  <1> DEFINE k == [Idle EXCEPT !.op = op, !.at = a, !.who = u]
  <1>1. k \in Jobs(minted) /\ Fields(k, op, a, u, 0, {})
    BY IdleJob DEF Idle, Jobs, Fields
  <1>2. task' = [task EXCEPT ![t] = k]
    BY DEF Begin
  <1> HIDE DEF k
  <1> QED
    BY <1>1, <1>2, Turn DEF JobsOK, Turned, Went

LEMMA EndTurn ==
  ASSUME JobsOK, minted \in Nat, minted' = minted, NEW t \in Tasks, End(t)
  PROVE  Ended(t) /\ JobsOK'
  BY IdleJob, Turn DEF JobsOK, End, Turned, Ended, Went
LEMMA TypeParts == Types => TypeOK
  BY Constants DEF Types, JobsOK, RestOK, Counted, TypeOK, Jobs, Ops, Keys

\* What is left to show of a step that made no session.
LEMMA KeptTypes ==
  ASSUME Types, JobsOK', RestOK', minted' = minted, mode' # "none",
         orders' = orders \/ orders' = orders + 1,
         NEW t \in Tasks, ShapeOf(t, task'[t]),
         \A s \in Tasks : s # t => task'[s] = task[s],
         \A u \in Users : Rotating(u)' => Rotating(u) \/ orders' = orders + 1
  PROVE  Types'
  <1>1. Shape'
    BY DEF Types, Shape
  <1>2. orders \in Nat /\ minted \in Nat
    BY Constants DEF Types, RestOK
  <1>5. minted <= orders + 1 /\ \A u \in Users : Rotating(u) => minted <= orders
    BY DEF Types, Counted
  <1>3. minted' <= orders' + 1
    BY <1>2, <1>5
  <1>6. ASSUME NEW u \in Users, Rotating(u)'  PROVE minted' <= orders'
    <2>1. Rotating(u) \/ orders' = orders + 1
      BY <1>6
    <2> QED
      BY <1>2, <1>5, <2>1
  <1>4. Counted'
    BY <1>3, <1>6 DEF Counted
  <1> QED
    BY <1>1, <1>4 DEF Types

LEMMA InTypes ==
  ASSUME Types, NEW t \in Tasks
  PROVE  /\ task[t] \in Jobs(minted) /\ minted \in Nat /\ minted <= minted
         /\ ShapeOf(t, task[t])
         /\ JobsOK /\ RestOK
  BY DEF Types, JobsOK, RestOK, Shape

\* Served: the next recipient, the announcement of the new member or the end.
LEMMA ServeTypes ==
  ASSUME Types, NEW t \in Tasks, Doing(t, "share") \/ Doing(t, "load") \/ Doing(t, "members"),
         NEW n \in 1..minted, NEW R \in SUBSET Users,
         task[t].op = "admit" => R \subseteq {Who(t)},
         task' = [task EXCEPT ![t] = Serving([task[t] EXCEPT !.key = n], R)],
         minted' = minted, orders' = orders, mode' = mode, RestOK'
  PROVE  Types' /\ Served(t, n, R)
  <1> DEFINE k == [task[t] EXCEPT !.key = n]
  <1>1. /\ task[t] \in Jobs(minted) /\ minted \in Nat /\ ShapeOf(t, task[t])
        /\ JobsOK
    BY InTypes
  <1>2. k \in Jobs(minted) /\ k.op = task[t].op /\ k.who = Who(t) /\ k.key = n
    BY <1>1 DEF Jobs, Who
  <1>3. task' = [task EXCEPT ![t] = Serving(k, R)]
    OBVIOUS
  <1> HIDE DEF k
  <1>4. /\ Serving(k, R) \in Jobs(minted)
        /\ R # {} => Fields(Serving(k, R), task[t].op, "share", Who(t), n, R)
        /\ R = {} /\ task[t].op = "admit"
               => Fields(Serving(k, R), "admit", "event", Who(t), 0, {})
        /\ R = {} /\ task[t].op # "admit" => Serving(k, R) = Idle
    BY <1>1, <1>2, ServingJob
  <1>5. Turned(t, Serving(k, R)) /\ JobsOK'
    BY <1>1, <1>3, <1>4, Turn DEF JobsOK
  <1>0. n # 0
    BY <1>1
  <1>6. ShapeOf(t, task'[t])
    BY <1>0, <1>1, <1>4, <1>5, IdleJob DEF Turned, ShapeOf, CmdShape, ProcShape, Fields,
       AdmitSteps, ModerateSteps, Doing, Who, JoinSteps
  <1>7. \A u \in Users : ~Rotating(u)' \/ Rotating(u)
    BY <1>4, <1>5, IdleJob DEF Turned, Fields, Rotating, Dropping, Moderating, Tasks, Who
  <1>8. mode' # "none"
    BY DEF Types, Counted, Doing
  <1>9. Types'
    BY <1>5, <1>6, <1>7, <1>8, KeptTypes DEF Turned
  <1> QED
    BY <1>4, <1>5, <1>9, IdleJob DEF Turned, Served, Went, Ended

\* Which handler a step belongs to.
LEMMA WhatDoing ==
  ASSUME Types, NEW t \in Tasks
  PROVE  /\ Doing(t, "add") \/ Doing(t, "load")
               => task[t].op = "admit" /\ Who(t) \in Users
         /\ Doing(t, "drop") \/ Doing(t, "mint") \/ Doing(t, "members")
               => t = "cmd" /\ task[t].op = "moderate" /\ Who(t) \in Users
         /\ Doing(t, "prune") \/ Doing(t, "member") \/ Doing(t, "queue")
               => t = "proc" /\ task[t].op = "join" /\ Who(t) \in Users
         /\ Doing(t, "event") \/ Doing(t, "save")
               => /\ task[t].op \in {"admit", "moderate", "say"}
                  /\ task[t].op = "moderate" => t = "cmd" /\ Who(t) \in Users
         /\ Doing(t, "share")
               => /\ task[t].op \in {"admit", "moderate", "create"}
                  /\ task[t].op # "admit" => t = "cmd"
                  /\ task[t].op = "admit" => task[t].rcp \subseteq {Who(t)}
  BY InTypes DEF Tasks, Doing, Who, ShapeOf, CmdShape, ProcShape, AdmitSteps, ModerateSteps, JoinSteps

\* A step to another step of a handler.
LEMMA WentTypes ==
  ASSUME Types, JobsOK', RestOK', minted' = minted, mode' # "none",
         orders' = orders \/ orders' = orders + 1,
         NEW t \in Tasks, NEW op, NEW a, NEW u, NEW n, NEW R,
         Went(t, op, a, u, n, R),
         IF t = "cmd" THEN CmdShape([op |-> op, at |-> a, who |-> u])
                      ELSE ProcShape([op |-> op, at |-> a, who |-> u]),
         op = "admit" => R \subseteq {u},
         a \in {"save", "share", "members"} => n # 0,
         t = "cmd" /\ op = "moderate" /\ a \in {"event", "save", "drop", "mint"}
            => Rotating(u) \/ orders' = orders + 1
  PROVE  Types'
  <1>1. ShapeOf(t, task'[t])
    BY DEF Went, Fields, ShapeOf, CmdShape, ProcShape
  <1>2. \A v \in Users : Rotating(v)' => Rotating(v) \/ orders' = orders + 1
    <2>1. CASE t = "cmd"
      BY <2>1 DEF Went, Fields, Rotating, Dropping, Moderating, Who
    <2>2. CASE t # "cmd"
      BY <2>2 DEF Went, Rotating, Dropping, Moderating, Who, Tasks
    <2> QED
      BY <2>1, <2>2
  <1> QED
    BY <1>1, <1>2, KeptTypes DEF Went

\* A handler that ends.
LEMMA EndTypes ==
  ASSUME Types, NEW t \in Tasks, End(t), RestOK', minted' = minted, orders' = orders,
         mode' = mode, mode # "none"
  PROVE  Types' /\ Ended(t)
  <1>1. Ended(t) /\ JobsOK'
    BY InTypes, EndTurn
  <1> QED
    BY <1>1, WentTypes DEF Ended, CmdShape, ProcShape

----------------------------------------------------------------------------
(* Every action keeps the types; where it takes the task.                  *)

\* A handler runs: there is a group and a session.
LEMMA Running ==
  ASSUME Types, NEW t \in Tasks, NEW a, Doing(t, a)
  PROVE  /\ mode # "none" /\ out \in 1..minted
         /\ a \in {"save", "share", "members"} => task[t].key \in 1..minted
  <1>1. mode # "none" /\ out \in 1..minted
    BY DEF Types, RestOK, Counted, Doing
  <1>2. task[t] \in Jobs(minted) /\ ShapeOf(t, task[t])
    BY InTypes
  <1>3. a \in {"save", "share", "members"} => task[t].key \in 1..minted
    BY <1>2 DEF Jobs, ShapeOf, Doing
  <1> QED
    BY <1>1, <1>3

LEMMA SameKey ==
  ASSUME Types, NEW t \in Tasks
  PROVE  /\ task[t] = [task[t] EXCEPT !.key = task[t].key]
         /\ task[t].key \in 0..minted /\ task[t].rcp \in SUBSET Users
         /\ Who(t) \in Users \cup {NoUser}
         /\ task[t].op = "admit" => task[t].rcp \subseteq {Who(t)}
  <1>1. task[t] \in Jobs(minted) /\ ShapeOf(t, task[t])
    BY InTypes
  <1> QED
    BY <1>1 DEF Jobs, ShapeOf, Who

LEMMA ShareTypes ==
  ASSUME Types, NEW t \in Tasks, NEW u \in Users, Share(t, u)
  PROVE  Types' /\ Served(t, task[t].key, task[t].rcp \ {u})
  <1>1. /\ task[t] = [task[t] EXCEPT !.key = task[t].key]
        /\ task[t].key \in 0..minted /\ task[t].rcp \in SUBSET Users
        /\ task[t].op = "admit" => task[t].rcp \subseteq {Who(t)}
    BY SameKey
  <1>2. task' = [task EXCEPT ![t] = Serving(task[t], task[t].rcp \ {u})]
    BY InTypes DEF Share, JobsOK
  <1>3. Doing(t, "share") /\ minted' = minted /\ orders' = orders
    BY DEF Share, count
  <1>4. task[t].key \in 1..minted /\ mode # "none"
    BY <1>3, Running
  <1>5. RestOK'
    BY <1>4 DEF Share, Types, RestOK, rows, count
  <1> QED
    BY <1>1, <1>2, <1>3, <1>4, <1>5, ServeTypes DEF Share, rows

LEMMA SkipTypes ==
  ASSUME Types, NEW t \in Tasks, NEW u \in Users, Skip(t, u)
  PROVE  Types' /\ Served(t, task[t].key, task[t].rcp \ {u})
  <1>1. /\ task[t] = [task[t] EXCEPT !.key = task[t].key]
        /\ task[t].rcp \in SUBSET Users
        /\ task[t].op = "admit" => task[t].rcp \subseteq {Who(t)}
    BY SameKey
  <1>2. task' = [task EXCEPT ![t] = Serving(task[t], task[t].rcp \ {u})]
    BY InTypes DEF Skip, JobsOK
  <1>3. Doing(t, "share") /\ minted' = minted /\ orders' = orders /\ mode' = mode
    BY DEF Skip, Fault, rows
  <1>4. task[t].key \in 1..minted
    BY <1>3, Running
  <1>5. RestOK'
    BY Constants DEF Skip, Fault, Types, RestOK, rows, given
  <1> QED
    BY <1>1, <1>2, <1>3, <1>4, <1>5, ServeTypes

LEMMA EncryptTypes ==
  ASSUME Types, NEW t \in Tasks, Encrypt(t)
  PROVE  Types' /\ Went(t, task[t].op, "save", Who(t), out, task[t].rcp)
  <1>1. /\ Doing(t, "event") /\ minted' = minted /\ orders' = orders
        /\ mode' = mode
    BY DEF Encrypt, rows, count
  <1>2. /\ task[t] \in Jobs(minted) /\ minted \in Nat /\ ShapeOf(t, task[t])
        /\ JobsOK
    BY InTypes
  <1>3. mode # "none" /\ out \in 1..minted
    BY <1>1, Running
  <1> DEFINE k == [task[t] EXCEPT !.key = out, !.at = "save"]
  <1>4. k \in Jobs(minted) /\ Fields(k, task[t].op, "save", Who(t), out, task[t].rcp)
    <2>1. out \in 0..minted
      BY <1>2, <1>3
    <2>2. k \in Jobs(minted)
      BY <1>2, <2>1 DEF Jobs, Steps
    <2> QED
      BY <1>2, <2>2 DEF Jobs, Fields, Who
  <1>5. task' = [task EXCEPT ![t] = k]
    BY <1>2 DEF Encrypt, JobsOK
  <1> HIDE DEF k
  <1>6. Turned(t, k) /\ JobsOK'
    BY <1>1, <1>2, <1>4, <1>5, Turn DEF JobsOK
  <1>7. Went(t, task[t].op, "save", Who(t), out, task[t].rcp)
    BY <1>4, <1>6 DEF Turned, Went
  <1>8. RestOK'
    BY DEF Encrypt, Types, RestOK, rows, count, given, told
  <1>9. /\ task[t].op \in {"admit", "moderate", "say"}
        /\ task[t].op = "moderate" => t = "cmd" /\ Who(t) \in Users
    BY <1>1, WhatDoing
  <1>10. ShapeOf(t, [op |-> task[t].op, at |-> "save", who |-> Who(t), key |-> out,
                     rcp |-> task[t].rcp])
    BY <1>1, <1>2, <1>3, <1>9 DEF ShapeOf, CmdShape, ProcShape, AdmitSteps, ModerateSteps, JoinSteps,
       Doing, Who
  <1>11. t = "cmd" /\ task[t].op = "moderate" => Rotating(Who(t))
    BY <1>1 DEF Rotating, Dropping, Moderating, Doing
  <1>12. out # 0
    BY <1>3
  <1> QED
    BY <1>1, <1>3, <1>6, <1>7, <1>8, <1>10, <1>11, <1>12, WentTypes
       DEF ShapeOf, CmdShape, ProcShape

LEMMA SaveTypes ==
  ASSUME Types, NEW t \in Tasks, Save(t)
  PROVE  /\ Types'
         /\ task[t].op = "moderate" => Went(t, "moderate", "drop", Who(t), 0, {})
         /\ task[t].op # "moderate" => Ended(t)
  <1>1. /\ Doing(t, "save") /\ minted' = minted /\ orders' = orders
        /\ mode' = mode
    BY DEF Save, Stored, rows, count
  <1>2. mode # "none" /\ task[t].key \in 1..minted
    BY <1>1, Running
  <1>3. RestOK'
    BY <1>2 DEF Save, Stored, Types, RestOK, rows, count, given
  <1>4. CASE task[t].op = "moderate"
    <2>1. t = "cmd" /\ Who(t) \in Users
      BY <1>1, <1>4, WhatDoing
    <2>2. Begin(t, "moderate", "drop", Who(t))
      BY <1>4 DEF Save
    <2>3. Went(t, "moderate", "drop", Who(t), 0, {}) /\ JobsOK'
      BY <1>1, <2>1, <2>2, InTypes, BeginTurn DEF Ops, Steps
    <2>4. Rotating(Who(t))
      BY <1>1, <1>4, <2>1 DEF Rotating, Dropping, Moderating, Doing
    <2>5. Types'
      BY <1>1, <1>2, <1>3, <2>1, <2>3, <2>4, WentTypes DEF CmdShape, ModerateSteps
    <2> QED
      BY <1>4, <2>3, <2>5
  <1>5. CASE task[t].op # "moderate"
    <2>1. End(t)
      BY <1>5 DEF Save
    <2> QED
      BY <1>1, <1>2, <1>3, <1>5, <2>1, EndTypes
  <1> QED
    BY <1>4, <1>5

LEMMA SaveUnsentTypes ==
  ASSUME Types, NEW t \in Tasks, SaveUnsent(t)
  PROVE  Types' /\ Ended(t)
  <1>1. /\ Doing(t, "save") /\ minted' = minted /\ orders' = orders
        /\ mode' = mode /\ End(t)
    BY DEF SaveUnsent, Stored, Fault, rows
  <1>2. mode # "none" /\ task[t].key \in 1..minted
    BY <1>1, Running
  <1>3. task[t].op = "moderate" => Who(t) \in Users
    BY <1>1, WhatDoing
  <1>4. RestOK'
    BY <1>2, <1>3, Constants DEF SaveUnsent, Stored, Fault, Types, RestOK, rows, given
  <1> QED
    BY <1>1, <1>2, <1>4, EndTypes

LEMMA OwedUsers ==
  ASSUME Types, NEW t \in Tasks
  PROVE  Owed(t) \subseteq Users
  <1>1. task[t].rcp \in SUBSET Users /\ roster \in SUBSET Users
    BY SameKey DEF Types, RestOK
  <1>2. Doing(t, "load") => Who(t) \in Users
    BY WhatDoing
  <1> QED
    BY <1>1, <1>2 DEF Owed

LEMMA ShareFailsTypes ==
  ASSUME Types, NEW t \in Tasks, ShareFails(t)
  PROVE  Types' /\ Ended(t)
  <1>1. /\ Doing(t, "share") /\ minted' = minted /\ orders' = orders
        /\ mode' = mode /\ End(t)
    BY DEF ShareFails, Fault, rows
  <1>2. mode # "none"
    BY <1>1, Running
  <1>3. RestOK'
    BY <1>2, OwedUsers, Constants DEF ShareFails, Fault, Types, RestOK, rows, given
  <1> QED
    BY <1>1, <1>2, <1>3, EndTypes

LEMMA AddTypes ==
  ASSUME Types, NEW t \in Tasks, Add(t)
  PROVE  Types' /\ Went(t, "admit", "load", Who(t), task[t].key, task[t].rcp)
  <1>1. /\ Doing(t, "add") /\ minted' = minted /\ orders' = orders
        /\ mode' = mode /\ Goto(t, "load")
    BY DEF Add, count
  <1>2. mode # "none"
    BY <1>1, Running
  <1>3. task[t].op = "admit" /\ Who(t) \in Users
    BY <1>1, WhatDoing
  <1>4. RestOK'
    BY <1>3 DEF Add, Types, RestOK, given, count
  <1>5. Went(t, "admit", "load", Who(t), task[t].key, task[t].rcp) /\ JobsOK'
    BY <1>1, <1>3, InTypes, GotoTurn DEF Steps
  <1>6. task[t].rcp \subseteq {Who(t)}
    BY <1>3, SameKey
  <1> QED
    BY <1>1, <1>2, <1>3, <1>4, <1>5, <1>6, WentTypes DEF CmdShape, ProcShape, AdmitSteps

LEMMA LoadTypes ==
  ASSUME Types, NEW t \in Tasks, Load(t)
  PROVE  Types' /\ Served(t, out, {Who(t)})
  <1>1. /\ Doing(t, "load") /\ minted' = minted /\ orders' = orders /\ mode' = mode
    BY DEF Load, count, rows
  <1>2. out \in 1..minted
    BY <1>1, Running
  <1>3. Who(t) \in Users
    BY <1>1, WhatDoing
  <1>4. task' = [task EXCEPT ![t] = Serving([task[t] EXCEPT !.key = out], {Who(t)})]
    BY InTypes DEF Load, JobsOK
  <1>5. RestOK'
    BY DEF Load, Types, RestOK, rows, given, count, told
  <1> QED
    BY <1>1, <1>2, <1>3, <1>4, <1>5, ServeTypes

LEMMA CreateTypes ==
  ASSUME Types, NEW m \in Modes, NEW members \in SUBSET Users,
         CreateGroup(m, members), minted = 0
  PROVE  /\ Types'
         /\ members # {} => Went("cmd", "create", "share", NoUser, 1, members)
         /\ members = {} => Ended("cmd")
  <1> DEFINE k == [Idle EXCEPT !.op = "create", !.key = 1]
  <1>0. "cmd" \in Tasks
    BY DEF Tasks
  <1>1. /\ minted' = 1 /\ orders' = orders /\ mode' = m /\ m # "none" /\ out' = 1
        /\ task' = [task EXCEPT !["cmd"] = Serving(k, members)]
    BY Constants DEF CreateGroup, count
  <1>2. k \in Jobs(1) /\ k.op = "create" /\ k.who = NoUser /\ k.key = 1
    <2>1. k.op = "create" /\ k.who = NoUser /\ k.key = 1
      BY DEF Idle
    <2>2. 1 \in Nat /\ 1 \in 0..1
      OBVIOUS
    <2>4. Idle \in Jobs(1)
      BY <2>2, IdleJob
    <2>3. k \in Jobs(1)
      BY <2>2, <2>4 DEF Jobs, Ops
    <2> QED
      BY <2>1, <2>3
  <1> HIDE DEF k
  <1>3. /\ Serving(k, members) \in Jobs(1)
        /\ members # {} => Fields(Serving(k, members), "create", "share", NoUser, 1, members)
        /\ members = {} => Serving(k, members) = Idle
    BY <1>2, ServingJob
  <1>4. task \in [Tasks -> Jobs(1)]
    BY DEF Types, JobsOK, Jobs
  <1>5. Turned("cmd", Serving(k, members)) /\ task' \in [Tasks -> Jobs(1)]
    BY <1>0, <1>1, <1>3, <1>4, Turn
  <1>6. JobsOK'
    BY <1>1, <1>5 DEF JobsOK
  <1>7. RestOK'
    BY <1>1, Constants DEF CreateGroup, Types, RestOK, given, count, told
  <1>8. ShapeOf("cmd", task'["cmd"])
    <2>1. CASE members = {}
      BY <1>3, <1>5, <2>1, IdleJob DEF Turned, ShapeOf, CmdShape, Fields
    <2>2. CASE members # {}
      BY <1>3, <1>5, <2>2 DEF Turned, ShapeOf, CmdShape, Fields
    <2> QED
      BY <2>1, <2>2
  <1>9. Shape'
    BY <1>5, <1>8 DEF Types, Shape, Turned
  <1>10. \A u \in Users : ~Rotating(u)'
    BY <1>3, <1>5, IdleJob DEF Turned, Rotating, Dropping, Moderating, Fields
  <1>11. orders \in Nat
    BY Constants DEF Types, RestOK
  <1>12. minted' <= orders' + 1
    BY <1>1, <1>11
  <1>13. Counted'
    BY <1>1, <1>10, <1>12 DEF Counted
  <1> QED
    BY <1>3, <1>5, <1>6, <1>7, <1>9, <1>13, IdleJob DEF Types, Turned, Went, Ended

\* A command that begins a handler.
LEMMA BeginTypes ==
  ASSUME Types, Owner, minted' = minted, RestOK', mode' # "none",
         NEW op \in {"admit", "moderate", "say"}, NEW a \in {"add", "event"},
         NEW u \in Users \cup {NoUser}, Begin("cmd", op, a, u),
         op = "admit" => a = "add" /\ u \in Users,
         op = "moderate" => a = "event" /\ u \in Users,
         op = "say" => a = "event"
  PROVE  Types' /\ Went("cmd", op, a, u, 0, {})
  <1>1. "cmd" \in Tasks /\ op \in Ops /\ a \in Steps /\ orders' = orders + 1
    BY DEF Tasks, Ops, Steps, Owner
  <1>2. Went("cmd", op, a, u, 0, {}) /\ JobsOK'
    BY <1>1, InTypes, BeginTurn
  <1> QED
    BY <1>1, <1>2, WentTypes DEF CmdShape, AdmitSteps, ModerateSteps

LEMMA AdmissibleTypes ==
  ASSUME Types, NEW u \in Users, Admissible(u)
  PROVE  Types' /\ Went("cmd", "admit", "add", u, 0, {})
  <1>1. /\ Owner /\ minted' = minted /\ mode' # "none"
        /\ Begin("cmd", "admit", "add", u)
    BY DEF Admissible, Owner
  <1>2. Pruned(u, now) \in [Users -> Nat]
    BY DEF Types, RestOK, Pruned
  <1>3. RestOK'
    BY <1>2, Constants DEF Admissible, Owner, Types, RestOK, given, told
  <1> QED
    BY <1>1, <1>3, BeginTypes

LEMMA ModerateTypes ==
  ASSUME Types, NEW u \in Users, Moderate(u),
         bans' \in SUBSET Users, susp' \in [Users -> Nat], sentence' \in [Users -> Nat]
  PROVE  Types' /\ Went("cmd", "moderate", "event", u, 0, {})
  <1>1. /\ Owner /\ minted' = minted /\ mode' # "none"
        /\ Begin("cmd", "moderate", "event", u)
    BY DEF Moderate, Owner
  <1>2. excused' \in SUBSET Users
    BY DEF Moderate, Types, RestOK
  <1>3. RestOK'
    BY <1>2, Constants DEF Moderate, Owner, Types, RestOK, given
  <1> QED
    BY <1>1, <1>3, BeginTypes

LEMMA OrderTypes ==
  ASSUME Types, NEW u \in Users,
         RemoveMember(u) \/ BanMember(u) \/ (\E d \in Durations : SuspendMember(u, d))
  PROVE  Types' /\ Went("cmd", "moderate", "event", u, 0, {}) /\ Moderate(u)
  <1>1. bans \in SUBSET Users /\ susp \in [Users -> Nat] /\ sentence \in [Users -> Nat]
        /\ now \in Nat
    BY Constants DEF Types, RestOK
  <1>2. CASE RemoveMember(u)
    BY <1>1, <1>2, ModerateTypes DEF RemoveMember
  <1>3. CASE BanMember(u)
    BY <1>1, <1>3, ModerateTypes DEF BanMember
  <1>4. ASSUME NEW d \in Durations, SuspendMember(u, d)
        PROVE  Types' /\ Went("cmd", "moderate", "event", u, 0, {}) /\ Moderate(u)
    <2>1. now + d \in Nat
      BY <1>1, Constants
    <2>2. susp' \in [Users -> Nat] /\ sentence' \in [Users -> Nat]
      BY <1>1, <1>4, <2>1 DEF SuspendMember
    <2> QED
      BY <1>1, <1>4, <2>2, ModerateTypes DEF SuspendMember
  <1> QED
    BY <1>2, <1>3, <1>4

LEMMA SayTypes ==
  ASSUME Types, SendText \/ (\E m \in Modes : SetAccess(m))
  PROVE  Types' /\ Went("cmd", "say", "event", NoUser, 0, {})
  <1>1. /\ Owner /\ minted' = minted /\ mode' # "none" /\ mode' \in Modes \cup {"none"}
        /\ Begin("cmd", "say", "event", NoUser)
    BY Constants DEF SendText, SetAccess, Owner, rows, Types, RestOK
  <1>2. RestOK'
    BY <1>1, Constants DEF SendText, SetAccess, Owner, rows, Types, RestOK, given, told
  <1> QED
    BY <1>1, <1>2, BeginTypes

LEMMA DropTypes ==
  ASSUME Types, Drop
  PROVE  Types' /\ Went("cmd", "moderate", "mint", Who("cmd"), task["cmd"].key, task["cmd"].rcp)
  <1>1. /\ Doing("cmd", "drop") /\ minted' = minted /\ orders' = orders
        /\ mode' = mode /\ Goto("cmd", "mint") /\ "cmd" \in Tasks
    BY DEF Drop, count, Tasks
  <1>2. mode # "none"
    BY <1>1, Running
  <1>3. task["cmd"].op = "moderate" /\ Who("cmd") \in Users
    BY <1>1, WhatDoing
  <1>4. RestOK'
    BY <1>3 DEF Drop, Types, RestOK, given, count
  <1>5. Went("cmd", "moderate", "mint", Who("cmd"), task["cmd"].key, task["cmd"].rcp) /\ JobsOK'
    BY <1>1, <1>3, InTypes, GotoTurn DEF Steps
  <1>6. Rotating(Who("cmd"))
    BY <1>1, <1>3 DEF Rotating, Dropping, Moderating, Doing
  <1>7. CmdShape([op |-> "moderate", at |-> "mint", who |-> Who("cmd")])
    BY <1>3 DEF CmdShape, ModerateSteps
  <1>8. Types'
    BY <1>1, <1>2, <1>4, <1>5, <1>6, <1>7, WentTypes
  <1> QED
    BY <1>5, <1>8

LEMMA MintTypes ==
  ASSUME Types, Mint
  PROVE  /\ Types'
         /\ Went("cmd", "moderate", "members", Who("cmd"), minted + 1, task["cmd"].rcp)
  <1>1. /\ Doing("cmd", "mint") /\ minted' = minted + 1 /\ out' = minted + 1
        /\ orders' = orders /\ mode' = mode /\ "cmd" \in Tasks
    BY DEF Mint, count, rows, Tasks
  <1>2. mode # "none"
    BY <1>1, Running
  <1>3. task["cmd"].op = "moderate" /\ Who("cmd") \in Users
    BY <1>1, WhatDoing
  <1>4. /\ task["cmd"] \in Jobs(minted) /\ minted \in Nat /\ ShapeOf("cmd", task["cmd"])
        /\ JobsOK /\ orders \in Nat
    BY <1>1, InTypes, Constants DEF RestOK
  <1> DEFINE k == [task["cmd"] EXCEPT !.key = minted + 1, !.at = "members"]
  <1>5. task' = [task EXCEPT !["cmd"] = k]
    BY <1>1, <1>4 DEF Mint, JobsOK
  <1>6. minted + 1 \in 0..(minted + 1) /\ 0..minted \subseteq 0..(minted + 1) /\ minted + 1 # 0
    BY <1>4
  <1>7. k \in Jobs(minted + 1)
    BY <1>4, <1>6 DEF Jobs, Steps
  <1>8. Fields(k, "moderate", "members", Who("cmd"), minted + 1, task["cmd"].rcp)
    BY <1>3, <1>4 DEF Jobs, Fields, Who
  <1>9. task \in [Tasks -> Jobs(minted + 1)]
    BY <1>4, <1>6 DEF JobsOK, Jobs
  <1> HIDE DEF k
  <1>10. Turned("cmd", k) /\ task' \in [Tasks -> Jobs(minted + 1)]
    BY <1>1, <1>5, <1>7, <1>9, Turn
  <1>11. JobsOK'
    BY <1>1, <1>10 DEF JobsOK
  <1>12. RestOK'
    <2>1. held' \in [Users -> SUBSET (1..minted')] /\ latest' \in [Users -> 0..minted']
      BY <1>1, <1>4 DEF Mint, Types, RestOK, given
    <2>2. out' \in 0..minted' /\ minted' \in Nat /\ out' # 0
      BY <1>1, <1>4
    <2> QED
      BY <2>1, <2>2 DEF Mint, Types, RestOK, rows, count
  <1>13. ShapeOf("cmd", task'["cmd"])
    BY <1>3, <1>6, <1>8, <1>10 DEF ShapeOf, CmdShape, ModerateSteps, Fields, Turned
  <1>14. Shape'
    BY <1>10, <1>13 DEF Types, Shape, Turned
  <1>15. \A u \in Users : ~Rotating(u)'
    BY <1>8, <1>10 DEF Turned, Rotating, Dropping, Moderating, Fields
  <1>16. Rotating(Who("cmd"))
    BY <1>1, <1>3 DEF Rotating, Moderating, Doing
  <1>17. minted <= orders
    BY <1>3, <1>16 DEF Types, Counted
  <1>18. minted' <= orders' + 1
    BY <1>1, <1>4, <1>17
  <1>19. Counted'
    BY <1>1, <1>2, <1>15, <1>18 DEF Counted
  <1> QED
    BY <1>8, <1>10, <1>11, <1>12, <1>14, <1>19 DEF Types, Turned, Went

LEMMA MembersTypes ==
  ASSUME Types, Members
  PROVE  Types' /\ Served("cmd", task["cmd"].key, roster)
  <1>1. /\ Doing("cmd", "members") /\ minted' = minted /\ orders' = orders
        /\ mode' = mode /\ "cmd" \in Tasks
    BY DEF Members, count, rows, Tasks
  <1>2. task["cmd"].key \in 1..minted
    BY <1>1, Running
  <1>3. task["cmd"].op = "moderate"
    BY <1>1, WhatDoing
  <1>4. task["cmd"] = [task["cmd"] EXCEPT !.key = task["cmd"].key]
    BY <1>1, SameKey
  <1>5. task' = [task EXCEPT !["cmd"] = Serving(task["cmd"], roster)]
    BY <1>1, InTypes DEF Members, JobsOK
  <1>6. RestOK' /\ roster \in SUBSET Users
    BY DEF Members, Types, RestOK, rows, given, count, told
  <1> QED
    BY <1>1, <1>2, <1>3, <1>4, <1>5, <1>6, ServeTypes

\* A step that leaves both tasks where they are.
LEMMA StayTypes ==
  ASSUME Types, task' = task, RestOK', minted' = minted,
         orders' = orders \/ orders' = orders + 1, mode' = mode
  PROVE  Types'
  <1>1. JobsOK' /\ Shape'
    BY DEF Types, JobsOK, Shape
  <1>2. orders \in Nat /\ minted \in Nat
    BY Constants DEF Types, RestOK
  <1>3. minted <= orders + 1
    BY DEF Types, Counted
  <1>4. minted' <= orders' + 1
    BY <1>2, <1>3
  <1>5. ASSUME NEW u \in Users, Rotating(u)'  PROVE minted' <= orders'
    <2>1. Rotating(u)
      BY <1>5 DEF Rotating, Dropping, Moderating, Who
    <2>2. minted <= orders
      BY <2>1 DEF Types, Counted
    <2> QED
      BY <1>2, <2>2
  <1>6. Counted'
    BY <1>4, <1>5 DEF Types, Counted
  <1> QED
    BY <1>1, <1>6 DEF Types

LEMMA StaySteps ==
  ASSUME Types,
         \/ \E u \in Users : UnbanMember(u) \/ UnsuspendMember(u) \/ Left(u)
         \/ Tick \/ UNCHANGED vars
  PROVE  Types' /\ task' = task
  <1>1. /\ task' = task /\ minted' = minted /\ mode' = mode
        /\ orders' = orders \/ orders' = orders + 1
    BY DEF UnbanMember, UnsuspendMember, Left, Tick, vars, rows, count, Owner, Deliver
  <1>2. /\ bans' \in SUBSET Users /\ susp' \in [Users -> Nat]
        /\ sentence' \in [Users -> Nat] /\ roster' \in SUBSET Users
    BY DEF UnbanMember, UnsuspendMember, Left, Tick, vars, rows, count, Types, RestOK
  <1>3. /\ now' \in 0..MaxTime /\ orders' \in 0..MaxOrders
        /\ frames' \in 0..MaxFrames /\ faults' \in 0..MaxFaults
    BY Constants DEF UnbanMember, UnsuspendMember, Left, Tick, vars, count, Types,
       RestOK, Owner, Deliver
  <1>4. /\ out' = out /\ held' = held /\ latest' = latest /\ reqs' = reqs
        /\ expelled' = expelled /\ excused' = excused
        /\ behind' = behind /\ reverted' = reverted
    BY DEF UnbanMember, UnsuspendMember, Left, Tick, vars, rows, given, told
  <1>5. RestOK'
    BY <1>1, <1>2, <1>3, <1>4 DEF Types, RestOK
  <1> QED
    BY <1>1, <1>5, StayTypes

LEMMA RestartTypes ==
  ASSUME Types, Restart
  PROVE  Types' /\ \A t \in Tasks : Fields(task'[t], "idle", "", NoUser, 0, {})
  <1>1. /\ minted' = minted /\ orders' = orders /\ mode' = mode
        /\ task' = [t \in Tasks |-> Idle] /\ minted \in Nat /\ orders \in Nat
    BY Constants DEF Restart, Fault, rows, Types, RestOK
  <1>2. \A t \in Tasks : task'[t] = Idle
    BY <1>1
  <1>3. JobsOK'
    BY <1>1, IdleJob DEF JobsOK
  <1>4. Shape'
    BY <1>2, IdleJob DEF Shape, ShapeOf, CmdShape, ProcShape, Fields
  <1>5. Unfinished("cmd") \subseteq Users
    <2>1. "cmd" \in Tasks
      BY DEF Tasks
    <2>2. Rotating(Who("cmd")) => Who("cmd") \in Users
      BY <2>1, WhatDoing DEF Rotating, Dropping, Moderating, Doing
    <2> QED
      BY <2>2 DEF Unfinished
  <1>6. Owed("cmd") \subseteq Users /\ Owed("proc") \subseteq Users
    BY OwedUsers DEF Tasks
  <1>7. RestOK'
    BY <1>5, <1>6, Constants DEF Restart, Fault, Types, RestOK, rows, given
  <1>8. \A u \in Users : ~Rotating(u)'
    BY <1>2, IdleJob DEF Rotating, Dropping, Moderating, Fields, Tasks
  <1>9. Counted'
    BY <1>1, <1>2, <1>8, IdleJob DEF Types, Counted, Fields
  <1> QED
    BY <1>2, <1>3, <1>4, <1>7, <1>9, IdleJob DEF Types

LEMMA JoinTypes ==
  ASSUME Types, NEW u \in Users, NEW ts \in 0..(MaxTime + Skew), NEW key_ok \in BOOLEAN,
         Join(u, ts, key_ok)
  PROVE  /\ Types'
         /\ \E a \in {"prune", "member"} : Went("proc", "join", a, u, 0, {})
         /\ task'["proc"].at = "prune" <=> susp[u] \in 1..ts
         /\ task'["proc"].clear <=> key_ok /\ u \notin bans /\ susp[u] <= ts
  <1> DEFINE a == IF susp[u] \in 1..ts THEN "prune" ELSE "member"
  <1> DEFINE c == key_ok /\ u \notin bans /\ susp[u] <= ts
  <1> DEFINE k == [Idle EXCEPT !.op = "join", !.who = u, !.mode = mode, !.at = a, !.clear = c]
  <1>1. /\ minted' = minted /\ orders' = orders /\ mode' = mode /\ mode # "none"
        /\ task' = [task EXCEPT !["proc"] = k] /\ "proc" \in Tasks
    BY DEF Join, Deliver, rows, Tasks
  <1>2. a \in {"prune", "member"} /\ c \in BOOLEAN
    OBVIOUS
  <1>3. a = "prune" <=> susp[u] \in 1..ts
    OBVIOUS
  <1>4. c <=> key_ok /\ u \notin bans /\ susp[u] <= ts
    OBVIOUS
  <1> HIDE DEF a, c
  <1>5. minted \in Nat /\ mode \in Modes \cup {"none"} /\ JobsOK
    BY DEF Types, RestOK
  <1>6. k \in Jobs(minted)
    BY <1>2, <1>5, IdleJob DEF Jobs, Ops, Steps
  <1>7. Fields(k, "join", a, u, 0, {}) /\ k.clear = c
    BY DEF Idle, Fields
  <1> HIDE DEF k
  <1>8. Turned("proc", k) /\ JobsOK'
    BY <1>1, <1>5, <1>6, Turn DEF JobsOK
  <1>9. Went("proc", "join", a, u, 0, {})
    BY <1>7, <1>8 DEF Turned, Went
  <1>10. RestOK'
    BY Constants DEF Join, Deliver, Types, RestOK, rows, given, told
  <1>11. ProcShape([op |-> "join", at |-> a, who |-> u])
    BY <1>2 DEF ProcShape, JoinSteps
  <1>12. Types'
    BY <1>1, <1>2, <1>8, <1>9, <1>10, <1>11, WentTypes
  <1> QED
    BY <1>2, <1>3, <1>4, <1>7, <1>8, <1>9, <1>12 DEF Turned, Fields

LEMMA JoinGotoTypes ==
  ASSUME Types, NEW a \in JoinSteps, Goto("proc", a),
         Doing("proc", "prune") \/ Doing("proc", "member"),
         minted' = minted, orders' = orders, mode' = mode, RestOK'
  PROVE  /\ Types'
         /\ Went("proc", "join", a, Who("proc"), task["proc"].key, task["proc"].rcp)
         /\ task'["proc"].clear = task["proc"].clear
  <1>1. "proc" \in Tasks /\ a \in Steps
    BY DEF Tasks, Steps, JoinSteps
  <1>2. task["proc"].op = "join" /\ Who("proc") \in Users
    BY <1>1, WhatDoing
  <1>3. mode # "none"
    BY <1>1, Running
  <1>4. /\ Went("proc", "join", a, Who("proc"), task["proc"].key, task["proc"].rcp)
        /\ task'["proc"].clear = task["proc"].clear /\ JobsOK'
    BY <1>1, <1>2, InTypes, GotoTurn
  <1>5. ProcShape([op |-> "join", at |-> a, who |-> Who("proc")])
    BY <1>2 DEF ProcShape
  <1>6. a \notin {"save", "share", "members"}
    BY DEF JoinSteps
  <1>7. Types'
    BY <1>1, <1>3, <1>4, <1>5, <1>6, WentTypes
  <1> QED
    BY <1>4, <1>7

LEMMA JoinPruneTypes ==
  ASSUME Types, JoinPrune
  PROVE  /\ Types'
         /\ Went("proc", "join", "member", Who("proc"), task["proc"].key, task["proc"].rcp)
         /\ task'["proc"].clear = task["proc"].clear
  <1>1. RestOK'
    BY DEF JoinPrune, Types, RestOK, given, count, told
  <1> QED
    BY <1>1, JoinGotoTypes DEF JoinPrune, JoinSteps, count

LEMMA JoinQueuedTypes ==
  ASSUME Types, JoinQueued
  PROVE  /\ Types'
         /\ Went("proc", "join", "queue", Who("proc"), task["proc"].key, task["proc"].rcp)
         /\ task'["proc"].clear = task["proc"].clear
  <1>1. RestOK'
    BY DEF JoinQueued, Types, RestOK, rows, given, count, told
  <1> QED
    BY <1>1, JoinGotoTypes DEF JoinQueued, JoinSteps, count, rows

LEMMA JoinAdmittedTypes ==
  ASSUME Types, JoinAdmitted
  PROVE  Types' /\ Went("proc", "admit", "add", Who("proc"), 0, {})
  <1>1. /\ Doing("proc", "member") /\ minted' = minted /\ orders' = orders
        /\ mode' = mode /\ Begin("proc", "admit", "add", Who("proc")) /\ "proc" \in Tasks
    BY DEF JoinAdmitted, rows, count, Tasks
  <1>2. mode # "none" /\ Who("proc") \in Users
    BY <1>1, Running, WhatDoing
  <1>3. RestOK'
    BY <1>2 DEF JoinAdmitted, Types, RestOK, rows, given, count
  <1>4. Went("proc", "admit", "add", Who("proc"), 0, {}) /\ JobsOK'
    BY <1>1, <1>2, InTypes, BeginTurn DEF Ops, Steps
  <1>5. ProcShape([op |-> "admit", at |-> "add", who |-> Who("proc")])
    BY <1>2 DEF ProcShape, AdmitSteps
  <1> QED
    BY <1>1, <1>2, <1>3, <1>4, <1>5, WentTypes

LEMMA JoinOverTypes ==
  ASSUME Types, AddJoinRequest \/ JoinDenied
  PROVE  Types' /\ Ended("proc")
  <1>1. /\ Doing("proc", "queue") \/ Doing("proc", "member")
        /\ minted' = minted /\ orders' = orders
        /\ mode' = mode /\ End("proc") /\ "proc" \in Tasks
    BY DEF AddJoinRequest, JoinDenied, rows, count, Tasks
  <1>2. mode # "none" /\ Who("proc") \in Users
    BY <1>1, Running, WhatDoing
  <1>3. RestOK'
    BY <1>2 DEF AddJoinRequest, JoinDenied, Types, RestOK, rows, given, count, told
  <1> QED
    BY <1>1, <1>2, <1>3, EndTypes

----------------------------------------------------------------------------
(* Type correctness.                                                       *)

\* Before there is a group there is nothing.
Fresh == mode = "none" =>
    /\ roster = {} /\ bans = {} /\ expelled = {} /\ minted = 0
    /\ sentence = [u \in Users |-> 0] /\ susp = [u \in Users |-> 0]

LEMMA InitTypes == Init => Types /\ Fresh
  <1> SUFFICES ASSUME Init PROVE Types /\ Fresh
    OBVIOUS
  <1>1. Fresh
    BY DEF Init, Fresh
  <1>2. \A t \in Tasks : task[t] = Idle
    BY DEF Init
  <1>3. JobsOK
    BY IdleJob DEF Init, JobsOK
  <1>4. RestOK
    <2>1. held \in [Users -> SUBSET (1..minted)] /\ latest \in [Users -> 0..minted]
      BY DEF Init
    <2>2. susp \in [Users -> Nat] /\ sentence \in [Users -> Nat]
      BY DEF Init
    <2>3. /\ out \in 0..minted /\ minted \in Nat
          /\ now \in 0..MaxTime /\ orders \in 0..MaxOrders
          /\ frames \in 0..MaxFrames /\ faults \in 0..MaxFaults
      BY Constants DEF Init
    <2> QED
      BY <2>1, <2>2, <2>3 DEF Init, RestOK
  <1>5. Shape
    BY <1>2, IdleJob DEF Shape, ShapeOf, CmdShape, ProcShape, Fields
  <1>6. Counted
    <2>1. \A u \in Users : ~Rotating(u)
      BY <1>2, IdleJob DEF Rotating, Dropping, Moderating, Fields, Tasks
    <2>2. \A t \in Tasks : task[t].op = "idle"
      BY <1>2, IdleJob DEF Fields
    <2>3. minted <= orders + 1
      BY DEF Init
    <2> QED
      BY <2>1, <2>2, <2>3 DEF Counted
  <1> QED
    BY <1>1, <1>3, <1>4, <1>5, <1>6 DEF Types

\* A step of a handler or of the owner's, in a group.
LEMMA TaskTypes ==
  ASSUME Types, NEW t \in Tasks, TaskStep(t)
  PROVE  Types' /\ mode' # "none"
  <1>1. ASSUME NEW u \in Users, Share(t, u)  PROVE Types' /\ mode' # "none"
    BY <1>1, ShareTypes, Running DEF Share, rows
  <1>2. ASSUME NEW u \in Users, Skip(t, u)  PROVE Types' /\ mode' # "none"
    BY <1>2, SkipTypes, Running DEF Skip, rows
  <1>3. CASE Encrypt(t)
    BY <1>3, EncryptTypes, Running DEF Encrypt, rows
  <1>4. CASE Save(t)
    BY <1>4, SaveTypes, Running DEF Save, Stored, rows
  <1>5. CASE SaveUnsent(t)
    BY <1>5, SaveUnsentTypes, Running DEF SaveUnsent, Stored, rows
  <1>6. CASE ShareFails(t)
    BY <1>6, ShareFailsTypes, Running DEF ShareFails, rows
  <1>7. CASE Add(t)
    BY <1>7, AddTypes, Running DEF Add
  <1>8. CASE Load(t)
    BY <1>8, LoadTypes, Running DEF Load, rows
  <1> QED
    BY <1>1, <1>2, <1>3, <1>4, <1>5, <1>6, <1>7, <1>8 DEF TaskStep

LEMMA CommandTypes ==
  ASSUME Types, Fresh, Command
  PROVE  Types' /\ mode' # "none"
  <1>0. "cmd" \in Tasks
    BY DEF Tasks
  <1>1. ASSUME NEW m \in Modes, NEW members \in SUBSET Users, CreateGroup(m, members)
        PROVE  Types' /\ mode' # "none"
    <2>1. minted = 0 /\ mode' = m
      BY <1>1 DEF CreateGroup, Fresh
    <2> QED
      BY <1>1, <2>1, CreateTypes, Constants
  <1>2. ASSUME NEW u \in Users, Admissible(u)  PROVE Types' /\ mode' # "none"
    BY <1>2, AdmissibleTypes DEF Admissible, Owner
  <1>3. ASSUME NEW u \in Users,
               RemoveMember(u) \/ BanMember(u) \/ (\E d \in Durations : SuspendMember(u, d))
        PROVE  Types' /\ mode' # "none"
    BY <1>3, OrderTypes DEF Moderate, Owner
  <1>4. ASSUME NEW u \in Users, UnbanMember(u) \/ UnsuspendMember(u)
        PROVE  Types' /\ mode' # "none"
    BY <1>4, StaySteps DEF UnbanMember, UnsuspendMember, Owner
  <1>5. ASSUME SendText \/ (\E m \in Modes : SetAccess(m))
        PROVE  Types' /\ mode' # "none"
    BY <1>5, SayTypes, Constants DEF SendText, SetAccess, Owner, rows
  <1>6. CASE Drop
    BY <1>0, <1>6, DropTypes, Running DEF Drop
  <1>7. CASE Mint
    BY <1>0, <1>7, MintTypes, Running DEF Mint, rows
  <1>8. CASE Members
    BY <1>0, <1>8, MembersTypes, Running DEF Members, rows
  <1> QED
    BY <1>1, <1>2, <1>3, <1>4, <1>5, <1>6, <1>7, <1>8
       DEF Command, InviteMember, AcceptMember

LEMMA ProcessorTypes ==
  ASSUME Types, Processor
  PROVE  Types' /\ mode' # "none"
  <1>0. "proc" \in Tasks
    BY DEF Tasks
  <1>1. ASSUME NEW u \in Users, NEW ts \in 0..(MaxTime + Skew), NEW key_ok \in BOOLEAN,
               Join(u, ts, key_ok)
        PROVE  Types' /\ mode' # "none"
    BY <1>1, JoinTypes DEF Join, Deliver, rows
  <1>2. CASE JoinPrune
    BY <1>0, <1>2, JoinPruneTypes, Running DEF JoinPrune
  <1>3. CASE JoinAdmitted
    BY <1>0, <1>3, JoinAdmittedTypes, Running DEF JoinAdmitted, rows
  <1>4. CASE JoinQueued
    BY <1>0, <1>4, JoinQueuedTypes, Running DEF JoinQueued, rows
  <1>5. CASE AddJoinRequest
    BY <1>0, <1>5, JoinOverTypes, Running DEF AddJoinRequest
  <1>6. CASE JoinDenied
    BY <1>0, <1>6, JoinOverTypes, Running DEF JoinDenied, rows
  <1>7. ASSUME NEW u \in Users, Left(u)  PROVE Types' /\ mode' # "none"
    BY <1>7, StaySteps DEF Left, Deliver
  <1> QED
    BY <1>1, <1>2, <1>3, <1>4, <1>5, <1>6, <1>7 DEF Processor

LEMMA NextTypes == Types /\ Fresh /\ [Next]_vars => Types' /\ Fresh'
  <1> SUFFICES ASSUME Types, Fresh, [Next]_vars  PROVE Types' /\ Fresh'
    OBVIOUS
  <1>1. ASSUME Types', mode' # "none"  PROVE Types' /\ Fresh'
    BY <1>1 DEF Fresh
  <1>2. ASSUME NEW t \in Tasks, TaskStep(t)  PROVE Types' /\ Fresh'
    BY <1>1, <1>2, TaskTypes
  <1>3. CASE Command
    BY <1>1, <1>3, CommandTypes
  <1>4. CASE Processor
    BY <1>1, <1>4, ProcessorTypes
  <1>5. CASE Restart
    BY <1>5, RestartTypes DEF Fresh, Restart, rows
  <1>6. CASE Tick
    BY <1>6, StaySteps DEF Fresh, Tick, rows, told
  <1>7. CASE UNCHANGED vars
    BY <1>7, StaySteps DEF Fresh, vars, rows, told
  <1> QED
    BY <1>2, <1>3, <1>4, <1>5, <1>6, <1>7 DEF Next

\* The owner's variables keep their types: above all, no handler remembers, no
\* member holds and the vault does not store a session that was never made, and
\* the sessions made are bounded by the owner's orders.
THEOREM TypeCorrect == Spec => []TypeOK
  <1>1. Init => Types /\ Fresh
    BY InitTypes
  <1>2. Types /\ Fresh /\ [Next]_vars => Types' /\ Fresh'
    BY NextTypes
  <1>3. Types => TypeOK
    BY TypeParts
  <1> QED
    BY <1>1, <1>2, <1>3, PTL DEF Spec

----------------------------------------------------------------------------
(* What a step of one task changes in what the tasks are about to do.      *)

\* Task t is about to give u a session.
Reaches(t, u) == \/ Doing(t, "share") /\ u \in task[t].rcp
                 \/ Doing(t, "load") /\ Who(t) = u

\* The processor admits u while u's moderation goes on.
Meets(u) == task["proc"].op = "admit" /\ Who("proc") = u /\ Moderating(u)

LEMMA WentSee ==
  ASSUME NEW t \in Tasks, NEW op, NEW a, NEW u, NEW n, NEW R, Went(t, op, a, u, n, R)
  PROVE  /\ \A v : Reaches(t, v)' <=> /\ op # "idle"
                                      /\ (a = "share" /\ v \in R) \/ (a = "load" /\ u = v)
         /\ \A s \in Tasks : \A v : s # t => (Reaches(s, v)' <=> Reaches(s, v))
         /\ \A s \in Tasks : \A b : s # t => (Doing(s, b)' <=> Doing(s, b)) /\ Who(s)' = Who(s)
         /\ Who(t)' = u
  BY DEF Went, Fields, Reaches, Doing, Who

LEMMA WentCmd ==
  ASSUME NEW op, NEW a, NEW u, NEW n, NEW R, Went("cmd", op, a, u, n, R)
  PROVE  /\ \A v : Moderating(v)' <=> op = "moderate" /\ v = u
         /\ \A v : Dropping(v)' <=> /\ op = "moderate" /\ v = u
                                    /\ a \in {"event", "save", "drop"}
         /\ \A v : Rotating(v)' <=> /\ op = "moderate" /\ v = u
                                    /\ a \in {"event", "save", "drop", "mint"}
         /\ \A v : Meets(v)' <=> /\ task["proc"].op = "admit" /\ Who("proc") = v
                                 /\ op = "moderate" /\ v = u
         /\ task'["proc"] = task["proc"]
  BY DEF Went, Fields, Tasks, Moderating, Dropping, Rotating, Meets, Who

LEMMA WentProc ==
  ASSUME NEW op, NEW a, NEW u, NEW n, NEW R, Went("proc", op, a, u, n, R)
  PROVE  /\ \A v : Moderating(v)' <=> Moderating(v)
         /\ \A v : Dropping(v)' <=> Dropping(v)
         /\ \A v : Rotating(v)' <=> Rotating(v)
         /\ \A v : Meets(v)' <=> op = "admit" /\ u = v /\ Moderating(v)
         /\ task'["cmd"] = task["cmd"]
  BY DEF Went, Fields, Tasks, Moderating, Dropping, Rotating, Meets, Who

\* A step within a handler moderates nobody new, and ends no rotation but its own.
LEMMA WentOn ==
  ASSUME NEW t \in Tasks, NEW op, NEW a, NEW u, NEW n, NEW R, Went(t, op, a, u, n, R),
         op \in {"admit", "moderate"} => task[t].op = op /\ Who(t) = u
  PROVE  /\ \A v : Moderating(v)' => Moderating(v)
         /\ \A v : Meets(v)' => Meets(v)
         /\ \A v : (Rotating(v) /\ ~Rotating(v)') \/ (Dropping(v) /\ ~Dropping(v)')
                     => t = "cmd" /\ Moderating(v)
  <1>1. CASE t = "cmd"
    <2>1. Went("cmd", op, a, u, n, R)
      BY <1>1
    <2> QED
      BY <1>1, <2>1, WentCmd DEF Moderating, Meets, Rotating, Dropping
  <1>2. CASE t = "proc"
    <2>1. Went("proc", op, a, u, n, R)
      BY <1>2
    <2> QED
      BY <1>2, <2>1, WentProc DEF Meets
  <1> QED
    BY <1>1, <1>2 DEF Tasks

LEMMA ServedSee ==
  ASSUME Types, NEW t \in Tasks, NEW n, NEW R, Served(t, n, R),
         Doing(t, "share") \/ Doing(t, "load") \/ Doing(t, "members")
  PROVE  /\ \A v : Reaches(t, v)' <=> v \in R
         /\ \A s \in Tasks : \A v : s # t => (Reaches(s, v)' <=> Reaches(s, v))
         /\ \A s \in Tasks : \A b : s # t => (Doing(s, b)' <=> Doing(s, b)) /\ Who(s)' = Who(s)
         /\ \A v : Moderating(v)' => Moderating(v)
         /\ \A v : Meets(v)' => Meets(v)
         /\ \A v : Rotating(v) => Rotating(v)'
         /\ \A v : Dropping(v) => Dropping(v)'
         /\ task'[t].op \in {"idle", task[t].op}
         /\ ~Doing(t, "members")' /\ ~Doing(t, "load")'
  <1>0. task[t].op \in {"admit", "moderate", "create"} /\ Doing(t, task[t].at)
    BY WhatDoing DEF Doing
  <1>1. \A v : Rotating(v) \/ Dropping(v) => t # "cmd"
    BY DEF Doing, Rotating, Dropping, Moderating
  <1>2. CASE R # {}
    <2>1. Went(t, task[t].op, "share", Who(t), n, R)
      BY <1>2 DEF Served
    <2>2. \A v : Reaches(t, v)' <=> v \in R
      BY <1>0, <2>1, WentSee
    <2>3. task'[t].op = task[t].op /\ ~Doing(t, "members")' /\ ~Doing(t, "load")'
      BY <2>1 DEF Went, Fields, Doing
    <2> QED
      BY <1>1, <2>1, <2>2, <2>3, WentSee, WentOn
  <1>3. CASE R = {} /\ task[t].op = "admit"
    <2>1. Went(t, "admit", "event", Who(t), 0, {})
      BY <1>3 DEF Served
    <2>2. \A v : Reaches(t, v)' <=> v \in R
      BY <1>3, <2>1, WentSee
    <2>3. task'[t].op = task[t].op /\ ~Doing(t, "members")' /\ ~Doing(t, "load")'
      BY <1>3, <2>1 DEF Went, Fields, Doing
    <2> QED
      BY <1>1, <1>3, <2>1, <2>2, <2>3, WentSee, WentOn
  <1>4. CASE R = {} /\ task[t].op # "admit"
    <2>1. Went(t, "idle", "", NoUser, 0, {})
      BY <1>4 DEF Served, Ended
    <2>2. \A v : Reaches(t, v)' <=> v \in R
      BY <1>4, <2>1, WentSee
    <2>3. task'[t].op = "idle" /\ ~Doing(t, "members")' /\ ~Doing(t, "load")'
      BY <2>1 DEF Went, Fields, Doing
    <2> QED
      BY <1>1, <2>1, <2>2, <2>3, WentSee, WentOn
  <1> QED
    BY <1>2, <1>3, <1>4

LEMMA EndedSee ==
  ASSUME NEW t \in Tasks, Ended(t)
  PROVE  /\ \A v : ~Reaches(t, v)'
         /\ \A s \in Tasks : \A v : s # t => (Reaches(s, v)' <=> Reaches(s, v))
         /\ \A s \in Tasks : \A b : s # t => (Doing(s, b)' <=> Doing(s, b)) /\ Who(s)' = Who(s)
         /\ \A v : Moderating(v)' => Moderating(v)
         /\ \A v : Meets(v)' => Meets(v)
         /\ \A v : (Rotating(v) /\ ~Rotating(v)') \/ (Dropping(v) /\ ~Dropping(v)')
                     => t = "cmd" /\ Moderating(v)
         /\ task'[t].op = "idle"
         /\ \A b : ~Doing(t, b)'
  <1>1. Went(t, "idle", "", NoUser, 0, {})
    BY DEF Ended
  <1>2. task'[t].op = "idle" /\ \A b : ~Doing(t, b)'
    BY <1>1 DEF Went, Fields, Doing
  <1> QED
    BY <1>1, <1>2, WentSee, WentOn

----------------------------------------------------------------------------
(* Dropped users are locked out.                                           *)

\* The inductive invariant.  Nobody dropped is a member; nobody dropped, unless
\* excused, is about to be given a session; and an admission that meets its
\* user's moderation excuses it.
Gone == expelled \cap roster = {}
Apart == \A u \in expelled \ excused :
    /\ \A t \in Tasks : ~Reaches(t, u)
    /\ ~Rotating(u) => reverted \/ out \notin held[u]
Met == \A u \in Users : Meets(u) => u \in excused
EInv == Gone /\ Apart /\ Met

LEMMA LockedOut == Types /\ EInv => ExpelledLockedOut
  BY DEF EInv, Apart, ExpelledLockedOut

\* What keeps the invariant.
LEMMA ApartKept ==
  ASSUME Types, EInv, expelled' \subseteq expelled, excused \subseteq excused', Gone',
         \A u \in expelled', t \in Tasks : Reaches(t, u)' => Reaches(t, u),
         \A u \in expelled' \ excused' : Rotating(u) => Rotating(u)',
         \A u \in expelled' \ excused' :
             reverted \/ out \notin held[u] => reverted' \/ out' \notin held'[u],
         \A u \in Users : Meets(u)' => Meets(u) \/ u \in excused'
  PROVE  EInv'
  <1>1. Apart'
    BY DEF EInv, Apart
  <1>2. Met'
    BY DEF EInv, Met
  <1> QED
    BY <1>1, <1>2 DEF EInv

LEMMA ServedApart ==
  ASSUME Types, EInv, NEW t \in Tasks, NEW n, NEW R, Served(t, n, R),
         Doing(t, "share") \/ Doing(t, "load") \/ Doing(t, "members"),
         \A u \in expelled : u \in R => Reaches(t, u),
         \A u \in expelled \ excused : held'[u] = held[u],
         UNCHANGED <<roster, out, reverted, expelled, excused>>
  PROVE  EInv'
  <1>1. Gone'
    BY DEF EInv, Gone
  <1> QED
    BY <1>1, ServedSee, ApartKept

LEMMA TaskApart ==
  ASSUME Types, EInv, NEW t \in Tasks, TaskStep(t)
  PROVE  EInv'
  <1>1. ASSUME NEW u \in Users, Share(t, u)  PROVE EInv'
    <2>1. /\ Doing(t, "share") /\ u \in task[t].rcp
          /\ held' = [held EXCEPT ![u] = @ \cup {task[t].key}]
          /\ UNCHANGED <<roster, out, reverted, expelled, excused>>
      BY <1>1 DEF Share, rows
    <2>2. Served(t, task[t].key, task[t].rcp \ {u})
      BY <1>1, ShareTypes
    <2>3. Reaches(t, u)
      BY <2>1 DEF Reaches
    <2>4. \A v \in expelled \ excused : held'[v] = held[v]
      BY <2>1, <2>3 DEF EInv, Apart, Types, RestOK
    <2>5. \A v \in task[t].rcp : Reaches(t, v)
      BY <2>1 DEF Reaches
    <2> QED
      BY <2>1, <2>2, <2>4, <2>5, ServedApart
  <1>2. ASSUME NEW u \in Users, Skip(t, u)  PROVE EInv'
    <2>1. /\ Doing(t, "share") /\ held' = held
          /\ UNCHANGED <<roster, out, reverted, expelled, excused>>
      BY <1>2 DEF Skip, rows, given
    <2>2. Served(t, task[t].key, task[t].rcp \ {u})
      BY <1>2, SkipTypes
    <2>5. \A v \in task[t].rcp : Reaches(t, v)
      BY <2>1 DEF Reaches
    <2> QED
      BY <2>1, <2>2, <2>5, ServedApart
  <1>3. CASE Encrypt(t)
    <2>1. /\ Doing(t, "event")
          /\ UNCHANGED <<roster, out, reverted, expelled, excused, held>>
      BY <1>3 DEF Encrypt, rows, given, told
    <2>2. Went(t, task[t].op, "save", Who(t), out, task[t].rcp)
      BY <1>3, EncryptTypes
    <2>3. \A v : Rotating(v) => Rotating(v)'
      <3>1. CASE t = "cmd"
        BY <2>2, <3>1, WentCmd DEF Rotating, Dropping, Moderating
      <3>2. CASE t = "proc"
        BY <2>2, <3>2, WentProc
      <3> QED
        BY <3>1, <3>2 DEF Tasks
    <2>4. Gone'
      BY <2>1 DEF EInv, Gone
    <2> QED
      BY <2>1, <2>2, <2>3, <2>4, WentSee, WentOn, ApartKept
  <1>4. CASE Save(t)
    <2>1. /\ Doing(t, "save") /\ out' = task[t].key /\ held' = held
          /\ reverted' = (reverted \/ out # task[t].key)
          /\ UNCHANGED <<roster, expelled, excused>>
      BY <1>4 DEF Save, Stored, rows, given
    <2>2. Gone'
      BY <2>1 DEF EInv, Gone
    <2>3. \A u : reverted \/ out \notin held[u] => reverted' \/ out' \notin held'[u]
      BY <2>1
    <2>4. CASE task[t].op = "moderate"
      <3>1. t = "cmd"
        BY <2>1, <2>4, WhatDoing
      <3>2. Went("cmd", "moderate", "drop", Who("cmd"), 0, {})
        BY <1>4, <2>4, <3>1, SaveTypes
      <3>3. \A v : Rotating(v) => Rotating(v)'
        BY <3>2, WentCmd DEF Rotating, Dropping, Moderating
      <3> QED
        BY <2>1, <2>2, <2>3, <2>4, <3>1, <3>2, <3>3, WentSee, WentOn, ApartKept
    <2>5. CASE task[t].op # "moderate"
      <3>1. Ended(t)
        BY <1>4, <2>5, SaveTypes
      <3>2. \A v : Moderating(v) => t # "cmd"
        BY <2>5 DEF Moderating
      <3> QED
        BY <2>1, <2>2, <2>3, <3>1, <3>2, EndedSee, ApartKept
    <2> QED
      BY <2>4, <2>5
  <1>5. CASE SaveUnsent(t)
    <2>1. /\ Doing(t, "save") /\ out' = task[t].key /\ held' = held
          /\ reverted' = (reverted \/ out # task[t].key)
          /\ excused' = excused \cup (IF task[t].op = "moderate" THEN {Who(t)} ELSE {})
          /\ UNCHANGED <<roster, expelled>>
      BY <1>5 DEF SaveUnsent, Stored, rows, given
    <2>2. Gone'
      BY <2>1 DEF EInv, Gone
    <2>3. \A u : reverted \/ out \notin held[u] => reverted' \/ out' \notin held'[u]
      BY <2>1
    <2>4. Ended(t)
      BY <1>5, SaveUnsentTypes
    <2>5. \A v : t = "cmd" /\ Moderating(v) => v \in excused'
      BY <2>1 DEF Moderating
    <2>6. excused \subseteq excused'
      BY <2>1
    <2> QED
      BY <2>1, <2>2, <2>3, <2>4, <2>5, <2>6, EndedSee, ApartKept
  <1>6. CASE ShareFails(t)
    <2>1. /\ Doing(t, "share")
          /\ UNCHANGED <<roster, out, reverted, expelled, excused, held>>
      BY <1>6 DEF ShareFails, rows, given
    <2>2. Gone'
      BY <2>1 DEF EInv, Gone
    <2>3. Ended(t)
      BY <1>6, ShareFailsTypes
    <2>4. \A v : Rotating(v) => t # "cmd"
      BY <2>1 DEF Doing, Rotating, Dropping, Moderating
    <2> QED
      BY <2>1, <2>2, <2>3, <2>4, EndedSee, ApartKept
  <1>7. CASE Add(t)
    <2>1. /\ Doing(t, "add") /\ roster' = roster \cup {Who(t)}
          /\ expelled' = expelled \ {Who(t)}
          /\ UNCHANGED <<out, reverted, excused, held>>
      BY <1>7 DEF Add, given
    <2>2. Gone'
      BY <2>1 DEF EInv, Gone
    <2>3. Went(t, "admit", "load", Who(t), task[t].key, task[t].rcp)
      BY <1>7, AddTypes
    <2>4. task[t].op = "admit"
      BY <2>1, WhatDoing
    <2>5. \A v : Moderating(v) => t # "cmd"
      BY <2>4 DEF Moderating
    <2>6. \A v \in expelled', s \in Tasks : Reaches(s, v)' => Reaches(s, v)
      BY <2>1, <2>3, WentSee
    <2> QED
      BY <2>1, <2>2, <2>3, <2>4, <2>5, <2>6, WentOn, ApartKept
  <1>8. CASE Load(t)
    <2>1. /\ Doing(t, "load") /\ held' = held
          /\ UNCHANGED <<roster, out, reverted, expelled, excused>>
      BY <1>8 DEF Load, rows, given, told
    <2>2. Served(t, out, {Who(t)})
      BY <1>8, LoadTypes
    <2>3. Reaches(t, Who(t))
      BY <2>1 DEF Reaches
    <2> QED
      BY <2>1, <2>2, <2>3, ServedApart
  <1> QED
    BY <1>1, <1>2, <1>3, <1>4, <1>5, <1>6, <1>7, <1>8 DEF TaskStep

\* The command loop is idle.
LEMMA CmdIdle ==
  ASSUME Types, task["cmd"] = Idle
  PROVE  /\ \A v : ~Moderating(v) /\ ~Rotating(v) /\ ~Dropping(v) /\ ~Meets(v)
         /\ \A v : ~Reaches("cmd", v)
         /\ \A a : ~Doing("cmd", a)
  BY IdleJob DEF Fields, Moderating, Rotating, Dropping, Meets, Reaches, Doing

LEMMA CommandApart ==
  ASSUME Types, Fresh, EInv, Command
  PROVE  EInv'
  <1>0. "cmd" \in Tasks /\ "proc" \in Tasks /\ "cmd" # "proc" /\ \A t \in Tasks : t # "cmd" => t = "proc"
    BY DEF Tasks
  <1>1. ASSUME NEW m \in Modes, NEW members \in SUBSET Users, CreateGroup(m, members)
        PROVE  EInv'
    <2>1. /\ expelled = {} /\ expelled' = {} /\ minted = 0 /\ task["cmd"] = Idle
      BY <1>1 DEF CreateGroup, Fresh, told
    <2>2. \/ Went("cmd", "create", "share", NoUser, 1, members)
          \/ Went("cmd", "idle", "", NoUser, 0, {})
      BY <1>1, <2>1, CreateTypes DEF Ended
    <2>3. \A v : ~Meets(v)'
      <3>1. CASE Went("cmd", "create", "share", NoUser, 1, members)
        BY <3>1, WentCmd
      <3>2. CASE Went("cmd", "idle", "", NoUser, 0, {})
        BY <3>2 DEF Went, Fields, Meets, Moderating
      <3> QED
        BY <2>2, <3>1, <3>2
    <2> QED
      BY <2>1, <2>3 DEF EInv, Gone, Apart, Met
  <1>2. ASSUME NEW op \in {"admit", "say"}, NEW a \in {"add", "event"}, NEW u,
               task["cmd"] = Idle, Went("cmd", op, a, u, 0, {}),
               UNCHANGED <<roster, out, reverted, expelled, excused, held>>
        PROVE  EInv'
    <2>1. Gone'
      BY <1>2 DEF EInv, Gone
    <2>2. \A v : ~Meets(v)'
      BY <1>2, WentCmd
    <2>3. \A v : \A t \in Tasks : Reaches(t, v)' => Reaches(t, v)
      BY <1>0, <1>2, WentSee
    <2>4. \A v : ~Rotating(v)
      BY <1>2, CmdIdle
    <2> QED
      BY <1>2, <2>1, <2>2, <2>3, <2>4, ApartKept
  <1>3. ASSUME NEW u \in Users, Admissible(u)  PROVE EInv'
    <2>1. Went("cmd", "admit", "add", u, 0, {})
      BY <1>3, AdmissibleTypes
    <2>2. /\ task["cmd"] = Idle
          /\ UNCHANGED <<roster, out, reverted, expelled, excused, held>>
      BY <1>3 DEF Admissible, Owner, given, told
    <2> QED
      BY <1>2, <2>1, <2>2
  <1>4. ASSUME SendText \/ (\E m \in Modes : SetAccess(m))  PROVE EInv'
    <2>1. Went("cmd", "say", "event", NoUser, 0, {})
      BY <1>4, SayTypes
    <2>2. /\ task["cmd"] = Idle
          /\ UNCHANGED <<roster, out, reverted, expelled, excused, held>>
      BY <1>4 DEF SendText, SetAccess, Owner, given, told, rows
    <2> QED
      BY <1>2, <2>1, <2>2
  <1>5. ASSUME NEW u \in Users,
               RemoveMember(u) \/ BanMember(u) \/ (\E d \in Durations : SuspendMember(u, d))
        PROVE  EInv'
    <2>1. Went("cmd", "moderate", "event", u, 0, {}) /\ Moderate(u)
      BY <1>5, OrderTypes
    <2>2. /\ task["cmd"] = Idle
          /\ UNCHANGED <<roster, out, reverted, expelled, held>>
          /\ excused \ {u} \subseteq excused'
          /\ Who("proc") = u => u \in excused'
      BY <2>1 DEF Moderate, Owner, given
    <2>3. Gone'
      BY <2>2 DEF EInv, Gone
    <2>4. Met'
      <3>1. \A v : Meets(v)' => v = u /\ Who("proc") = u
        BY <2>1, WentCmd
      <3> QED
        BY <2>2, <3>1 DEF Met
    <2>5. Rotating(u)' /\ \A v : ~Rotating(v)
      BY <2>1, <2>2, WentCmd, CmdIdle
    <2>6. ASSUME NEW v \in expelled' \ excused', NEW t \in Tasks, Reaches(t, v)'  PROVE FALSE
      <3>1. t = "proc" /\ Reaches("proc", v)
        BY <1>0, <2>1, <2>6, WentSee
      <3>2. CASE v = u
        <4>1. Who("proc") = u
          BY <1>0, <3>1, <3>2, WhatDoing DEF Reaches
        <4> QED
          BY <2>2, <2>6, <3>2, <4>1
      <3>3. CASE v # u
        BY <1>0, <2>2, <2>6, <3>1, <3>3 DEF EInv, Apart
      <3> QED
        BY <3>2, <3>3
    <2>7. ASSUME NEW v \in expelled' \ excused', ~Rotating(v)'
          PROVE  reverted' \/ out' \notin held'[v]
      BY <2>2, <2>5, <2>7 DEF EInv, Apart
    <2>8. Apart'
      BY <2>6, <2>7 DEF Apart
    <2> QED
      BY <2>3, <2>4, <2>8 DEF EInv
  <1>6. ASSUME NEW u \in Users, UnbanMember(u) \/ UnsuspendMember(u)  PROVE EInv'
    <2>1. /\ task' = task
          /\ UNCHANGED <<roster, out, reverted, expelled, excused, held>>
      BY <1>6 DEF UnbanMember, UnsuspendMember, given, told
    <2> QED
      BY <2>1 DEF EInv, Gone, Apart, Met, Reaches, Meets, Rotating, Dropping, Moderating,
         Doing, Who
  <1>7. CASE Drop
    <2>0. /\ Doing("cmd", "drop") /\ roster' = roster \ {Who("cmd")}
          /\ expelled' = expelled \cup {Who("cmd")}
          /\ UNCHANGED <<out, reverted, excused, held>>
      BY <1>7 DEF Drop, given
    <2>3. Who("cmd") \in Users /\ task["cmd"].op = "moderate"
      BY <1>0, <2>0, WhatDoing
    <2>10. PICK u \in Users : u = Who("cmd")
      BY <2>3
    <2>1. /\ roster' = roster \ {u} /\ expelled' = expelled \cup {u}
          /\ UNCHANGED <<out, reverted, excused, held>>
      BY <2>0, <2>10
    <2>2. Went("cmd", "moderate", "mint", u, task["cmd"].key, task["cmd"].rcp)
      BY <1>7, <2>10, DropTypes
    <2>4. Moderating(u)
      BY <2>3, <2>10 DEF Moderating
    <2>5. Gone'
      BY <2>1 DEF EInv, Gone
    <2>6. Met'
      BY <2>1, <2>2, <2>4, WentCmd DEF EInv, Met, Meets
    <2>7. ASSUME NEW v \in expelled' \ excused', NEW t \in Tasks, Reaches(t, v)'  PROVE FALSE
      <3>1. t = "proc" /\ Reaches("proc", v)
        BY <1>0, <2>2, <2>7, WentSee
      <3>2. CASE v = u
        <4>1. Who("proc") = u /\ task["proc"].op = "admit"
          BY <1>0, <3>1, <3>2, WhatDoing DEF Reaches
        <4>2. u \in excused
          BY <2>3, <2>4, <4>1 DEF EInv, Met, Meets
        <4> QED
          BY <2>1, <2>7, <3>2, <4>2
      <3>3. CASE v # u
        BY <1>0, <2>1, <2>7, <3>1, <3>3 DEF EInv, Apart
      <3> QED
        BY <3>2, <3>3
    <2>8. ASSUME NEW v \in expelled' \ excused', ~Rotating(v)'
          PROVE  reverted' \/ out' \notin held'[v]
      <3>1. Rotating(u)'
        BY <2>2, WentCmd
      <3>2. v # u /\ v \in expelled \ excused
        BY <2>1, <2>8, <3>1
      <3>3. ~Rotating(v)
        BY <2>10, <3>2 DEF Rotating, Dropping, Moderating
      <3> QED
        BY <2>1, <3>2, <3>3 DEF EInv, Apart
    <2>9. Apart'
      BY <2>7, <2>8 DEF Apart
    <2> QED
      BY <2>5, <2>6, <2>9 DEF EInv
  <1>8. CASE Mint
    <2>1. /\ Doing("cmd", "mint") /\ out' = minted + 1 /\ minted \in Nat
          /\ UNCHANGED <<roster, expelled, excused, held>>
      BY <1>8 DEF Mint, given, rows, Types, RestOK
    <2>2. Went("cmd", "moderate", "members", Who("cmd"), minted + 1, task["cmd"].rcp)
      BY <1>8, MintTypes
    <2>3. task["cmd"].op = "moderate"
      BY <1>0, <2>1, WhatDoing
    <2>4. \A v \in Users : out' \notin held'[v]
      BY <2>1 DEF Types, RestOK
    <2>5. Gone' /\ expelled' \subseteq Users
      BY <2>1 DEF EInv, Gone, Types, RestOK
    <2>6. Met'
      BY <2>1, <2>2, <2>3, WentCmd DEF EInv, Met, Meets, Moderating
    <2>7. \A v : \A t \in Tasks : Reaches(t, v)' => Reaches(t, v)
      BY <1>0, <2>2, WentSee
    <2>8. Apart'
      BY <2>1, <2>4, <2>5, <2>7 DEF EInv, Apart
    <2> QED
      BY <2>5, <2>6, <2>8 DEF EInv
  <1>9. CASE Members
    <2>1. /\ Doing("cmd", "members") /\ held' = held
          /\ UNCHANGED <<roster, out, reverted, expelled, excused>>
      BY <1>9 DEF Members, rows, given, told
    <2>2. Served("cmd", task["cmd"].key, roster)
      BY <1>9, MembersTypes
    <2>3. \A v \in expelled : v \notin roster
      BY DEF EInv, Gone
    <2> QED
      BY <1>0, <2>1, <2>2, <2>3, ServedApart
  <1> QED
    BY <1>1, <1>3, <1>4, <1>5, <1>6, <1>7, <1>8, <1>9
       DEF Command, InviteMember, AcceptMember

LEMMA ProcessorApart ==
  ASSUME Types, EInv, Processor
  PROVE  EInv'
  <1>0. "cmd" \in Tasks /\ "proc" \in Tasks /\ "cmd" # "proc" /\ \A t \in Tasks : t # "proc" => t = "cmd"
    BY DEF Tasks
  <1>1. ASSUME NEW op, NEW a, NEW u, NEW n, NEW R,
               Went("proc", op, a, u, n, R),
               op = "idle" \/ a \notin {"share", "load"},
               op = "admit" /\ Moderating(u) => u \in excused',
               excused \subseteq excused',
               UNCHANGED <<roster, out, reverted, expelled, held>>
        PROVE  EInv'
    <2>1. Gone'
      BY <1>1 DEF EInv, Gone
    <2>2. \A v : Meets(v)' => v \in excused'
      BY <1>1, WentProc
    <2>3. \A v : \A t \in Tasks : Reaches(t, v)' => Reaches(t, v)
      BY <1>0, <1>1, WentSee
    <2>4. \A v : Rotating(v) <=> Rotating(v)'
      BY <1>1, WentProc
    <2> QED
      BY <1>1, <2>1, <2>2, <2>3, <2>4, ApartKept
  <1>2. ASSUME NEW u \in Users, NEW ts \in 0..(MaxTime + Skew), NEW key_ok \in BOOLEAN,
               Join(u, ts, key_ok)
        PROVE  EInv'
    <2>1. PICK a \in {"prune", "member"} : Went("proc", "join", a, u, 0, {})
      BY <1>2, JoinTypes
    <2>2. UNCHANGED <<roster, out, reverted, expelled, held, excused>>
      BY <1>2 DEF Join, rows, given, told
    <2> QED
      BY <1>1, <2>1, <2>2
  <1>3. CASE JoinPrune
    <2>1. Went("proc", "join", "member", Who("proc"), task["proc"].key, task["proc"].rcp)
      BY <1>3, JoinPruneTypes
    <2>2. UNCHANGED <<roster, out, reverted, expelled, held, excused>>
      BY <1>3 DEF JoinPrune, given, told
    <2> QED
      BY <1>1, <2>1, <2>2
  <1>4. CASE JoinAdmitted
    <2>1. Went("proc", "admit", "add", Who("proc"), 0, {})
      BY <1>4, JoinAdmittedTypes
    <2>2. UNCHANGED <<roster, out, reverted, expelled, held>>
      BY <1>4 DEF JoinAdmitted, rows, given
    <2>3. /\ excused \subseteq excused'
          /\ Moderating(Who("proc")) => Who("proc") \in excused'
      BY <1>4 DEF JoinAdmitted
    <2> QED
      BY <1>1, <2>1, <2>2, <2>3
  <1>5. CASE JoinQueued
    <2>1. Went("proc", "join", "queue", Who("proc"), task["proc"].key, task["proc"].rcp)
      BY <1>5, JoinQueuedTypes
    <2>2. UNCHANGED <<roster, out, reverted, expelled, held, excused>>
      BY <1>5 DEF JoinQueued, given, told, rows
    <2> QED
      BY <1>1, <2>1, <2>2
  <1>6. CASE AddJoinRequest \/ JoinDenied
    <2>1. Went("proc", "idle", "", NoUser, 0, {})
      BY <1>6, JoinOverTypes DEF Ended
    <2>2. UNCHANGED <<roster, out, reverted, expelled, held, excused>>
      BY <1>6 DEF AddJoinRequest, JoinDenied, given, told, rows
    <2> QED
      BY <1>1, <2>1, <2>2
  <1>7. ASSUME NEW u \in Users, Left(u)  PROVE EInv'
    <2>1. /\ task' = task /\ roster' = roster \ {u}
          /\ UNCHANGED <<out, reverted, expelled, excused, held>>
      BY <1>7 DEF Left, given, told
    <2> QED
      BY <2>1 DEF EInv, Gone, Apart, Met, Reaches, Meets, Rotating, Dropping, Moderating,
         Doing, Who
  <1> QED
    BY <1>2, <1>3, <1>4, <1>5, <1>6, <1>7 DEF Processor

LEMMA RestartIdle ==
  ASSUME Types, Restart
  PROVE  /\ \A v : ~Moderating(v)' /\ ~Rotating(v)' /\ ~Dropping(v)' /\ ~Meets(v)'
         /\ \A t \in Tasks : \A v : ~Reaches(t, v)'
         /\ \A t \in Tasks : \A a : ~Doing(t, a)'
         /\ \A t \in Tasks : task'[t].op = "idle"
  <1>1. \A t \in Tasks : task'[t].op = "idle"
    BY RestartTypes DEF Fields
  <1> QED
    BY <1>1 DEF Tasks, Moderating, Rotating, Dropping, Meets, Reaches, Doing

LEMMA NextApart == Types /\ Fresh /\ EInv /\ [Next]_vars => EInv'
  <1> SUFFICES ASSUME Types, Fresh, EInv, [Next]_vars  PROVE EInv'
    OBVIOUS
  <1>1. CASE Restart
    <2>1. /\ excused' = excused \cup Unfinished("cmd")
          /\ UNCHANGED <<roster, out, reverted, expelled, held>>
      BY <1>1 DEF Restart, rows, given
    <2>2. Gone'
      BY <2>1 DEF EInv, Gone
    <2>3. \A v : Rotating(v) => v \in excused'
      BY <2>1 DEF Unfinished, Rotating, Dropping, Moderating
    <2> QED
      BY <1>1, <2>1, <2>2, <2>3, RestartIdle, ApartKept
  <1>2. CASE Tick \/ UNCHANGED vars
    <2>1. /\ task' = task
          /\ UNCHANGED <<roster, out, reverted, expelled, excused, held>>
      BY <1>2 DEF Tick, vars, rows, given, told
    <2> QED
      BY <2>1 DEF EInv, Gone, Apart, Met, Reaches, Meets, Rotating, Dropping, Moderating,
         Doing, Who
  <1> QED
    BY <1>1, <1>2, TaskApart, CommandApart, ProcessorApart DEF Next

LEMMA InitApart == Init => EInv
  BY IdleJob DEF Init, EInv, Gone, Apart, Met, Meets, Fields, Tasks

\* A user whose moderation dropped them and rotated the session was never given
\* the session the owner encrypts with, except through the three ways the model
\* records: a moderation that ended early, one that met an admission of that
\* user, or an older copy of the session saved over the new one.
THEOREM DroppedLockedOut == Spec => []ExpelledLockedOut
  <1>1. Init => Types /\ Fresh /\ EInv
    BY InitTypes, InitApart
  <1>2. Types /\ Fresh /\ EInv /\ [Next]_vars => Types' /\ Fresh' /\ EInv'
    BY NextTypes, NextApart
  <1>3. Types /\ EInv => ExpelledLockedOut
    BY LockedOut
  <1> QED
    BY <1>1, <1>2, <1>3, PTL DEF Spec

----------------------------------------------------------------------------
(* Members are keyed.                                                      *)

\* The inductive invariant.  A member whose client does not hold the owner's
\* session is about to be given it by a handler that is under way, or is one of
\* the cases the history records.
Due(u) == (\E t \in Tasks : Reaches(t, u)) \/ Doing("cmd", "members")
Settled(u) == latest[u] = out \/ u \in behind \/ reverted \/ Due(u)
KInv == \A u \in roster : Settled(u)

LEMMA Keyed == Types /\ KInv => MembersKeyed
  <1> SUFFICES ASSUME Types, KInv, task = [t \in Tasks |-> Idle],
                      NEW u \in roster
               PROVE  latest[u] = out \/ u \in behind \/ reverted
    BY DEF MembersKeyed
  <1>1. \A t \in Tasks : task[t].op = "idle"
    BY IdleJob DEF Fields
  <1>2. ~Due(u)
    BY <1>1 DEF Due, Reaches, Doing, Tasks
  <1> QED
    BY <1>2 DEF KInv, Settled

LEMMA KeptKeyed ==
  ASSUME KInv, out' = out \/ reverted', latest' = latest,
         behind \subseteq behind', reverted => reverted', roster' \subseteq roster,
         \A u \in roster' : Due(u) => Due(u)' \/ u \in behind'
  PROVE  KInv'
  BY DEF KInv, Settled

\* A task that owes nobody a session moves on.
LEMMA WentKeyed ==
  ASSUME Types, KInv, NEW t \in Tasks, NEW op, NEW a, NEW u, NEW n, NEW R,
         Went(t, op, a, u, n, R),
         ~Doing(t, "share"), ~Doing(t, "load"), ~Doing(t, "members"),
         out' = out \/ reverted', latest' = latest,
         behind \subseteq behind', reverted => reverted', roster' \subseteq roster
  PROVE  KInv'
  <1>1. \A v : ~Reaches(t, v)
    BY DEF Reaches
  <1>2. \A v : Due(v) => Due(v)'
    BY <1>1, WentSee DEF Due, Tasks
  <1> QED
    BY <1>2, KeptKeyed

LEMMA TaskKeyed ==
  ASSUME Types, KInv, NEW t \in Tasks, TaskStep(t)
  PROVE  KInv'
  <1>0. ASSUME NEW a, Doing(t, a), NEW b, b # a  PROVE ~Doing(t, b)
    BY <1>0 DEF Doing
  <1>1. ASSUME NEW u \in Users, Share(t, u)  PROVE KInv'
    <2>1. /\ Doing(t, "share") /\ u \in task[t].rcp
          /\ latest' = [latest EXCEPT ![u] = task[t].key]
          /\ behind' = IF task[t].key = out THEN behind \ {u} ELSE behind \cup {u}
          /\ UNCHANGED <<roster, out, reverted>>
      BY <1>1 DEF Share, rows
    <2>2. Served(t, task[t].key, task[t].rcp \ {u})
      BY <1>1, ShareTypes
    <2>3. ASSUME NEW v \in roster, v # u, Due(v)  PROVE Due(v)'
      <3>1. Reaches(t, v) => Reaches(t, v)'
        BY <2>1, <2>2, <2>3, ServedSee DEF Reaches, Doing
      <3>2. ~Doing(t, "members")
        BY <2>1 DEF Doing
      <3> QED
        BY <2>1, <2>2, <2>3, <3>1, <3>2, ServedSee DEF Due, Tasks
    <2>4. ASSUME NEW v \in roster'  PROVE Settled(v)'
      <3>1. v \in roster /\ v \in Users /\ Settled(v)
        BY <2>1, <2>4 DEF KInv, Types, RestOK
      <3>2. CASE v = u
        <4>1. latest'[u] = task[t].key
          BY <2>1 DEF Types, RestOK
        <4> QED
          BY <2>1, <3>2, <4>1 DEF Settled
      <3>3. CASE v # u
        <4>1. latest'[v] = latest[v]
          BY <2>1, <3>1, <3>3 DEF Types, RestOK
        <4> QED
          BY <2>1, <2>3, <3>1, <3>3, <4>1 DEF Settled
      <3> QED
        BY <3>2, <3>3
    <2> QED
      BY <2>4 DEF KInv
  <1>2. ASSUME NEW u \in Users, Skip(t, u)  PROVE KInv'
    <2>1. /\ Doing(t, "share") /\ u \in task[t].rcp /\ behind' = behind \cup {u}
          /\ UNCHANGED <<roster, out, reverted, latest>>
      BY <1>2 DEF Skip, rows, given
    <2>2. Served(t, task[t].key, task[t].rcp \ {u})
      BY <1>2, SkipTypes
    <2>3. ASSUME NEW v \in roster, v # u, Due(v)  PROVE Due(v)'
      <3>1. Reaches(t, v) => Reaches(t, v)'
        BY <2>1, <2>2, <2>3, ServedSee DEF Reaches, Doing
      <3>2. ~Doing(t, "members")
        BY <2>1 DEF Doing
      <3> QED
        BY <2>1, <2>2, <2>3, <3>1, <3>2, ServedSee DEF Due, Tasks
    <2> QED
      BY <2>1, <2>3, KeptKeyed
  <1>3. CASE Encrypt(t)
    <2>1. /\ Doing(t, "event")
          /\ UNCHANGED <<roster, out, reverted, behind, latest>>
      BY <1>3 DEF Encrypt, rows, given, told
    <2>2. Went(t, task[t].op, "save", Who(t), out, task[t].rcp)
      BY <1>3, EncryptTypes
    <2> QED
      BY <1>0, <2>1, <2>2, WentKeyed
  <1>4. CASE Save(t)
    <2>1. /\ Doing(t, "save") /\ out' = task[t].key
          /\ reverted' = (reverted \/ out # task[t].key)
          /\ UNCHANGED <<roster, latest, behind>>
      BY <1>4 DEF Save, Stored, rows, given
    <2>2. out' = out \/ reverted'
      BY <2>1
    <2>3. CASE task[t].op = "moderate"
      <3>1. Went(t, "moderate", "drop", Who(t), 0, {})
        BY <1>4, <2>3, SaveTypes
      <3> QED
        BY <1>0, <2>1, <2>2, <3>1, WentKeyed
    <2>4. CASE task[t].op # "moderate"
      <3>1. Went(t, "idle", "", NoUser, 0, {})
        BY <1>4, <2>4, SaveTypes DEF Ended
      <3> QED
        BY <1>0, <2>1, <2>2, <3>1, WentKeyed
    <2> QED
      BY <2>3, <2>4
  <1>5. CASE SaveUnsent(t)
    <2>1. /\ Doing(t, "save") /\ out' = task[t].key
          /\ reverted' = (reverted \/ out # task[t].key)
          /\ UNCHANGED <<roster, latest, behind>>
      BY <1>5 DEF SaveUnsent, Stored, rows, given
    <2>2. Went(t, "idle", "", NoUser, 0, {})
      BY <1>5, SaveUnsentTypes DEF Ended
    <2>3. out' = out \/ reverted'
      BY <2>1
    <2> QED
      BY <1>0, <2>1, <2>2, <2>3, WentKeyed
  <1>6. CASE ShareFails(t)
    <2>1. /\ Doing(t, "share") /\ behind' = behind \cup Owed(t)
          /\ UNCHANGED <<roster, out, reverted, latest>>
      BY <1>6 DEF ShareFails, rows, given
    <2>2. Ended(t)
      BY <1>6, ShareFailsTypes
    <2>3. Owed(t) = task[t].rcp
      BY <2>1 DEF Owed, Doing
    <2>4. \A v : Reaches(t, v) => v \in behind'
      BY <2>1, <2>3 DEF Reaches, Doing
    <2>5. ~Doing(t, "members")
      BY <2>1 DEF Doing
    <2>6. \A v : Due(v) => Due(v)' \/ v \in behind'
      BY <2>2, <2>4, <2>5, EndedSee DEF Due, Tasks
    <2> QED
      BY <2>1, <2>6, KeptKeyed
  <1>7. CASE Add(t)
    <2>1. /\ Doing(t, "add") /\ roster' = roster \cup {Who(t)}
          /\ UNCHANGED <<out, reverted, behind, latest>>
      BY <1>7 DEF Add, given
    <2>2. Went(t, "admit", "load", Who(t), task[t].key, task[t].rcp)
      BY <1>7, AddTypes
    <2>3. Reaches(t, Who(t))' /\ Who(t)' = Who(t)
      BY <2>2, WentSee
    <2>4. ASSUME NEW v, v = Who(t)  PROVE Due(v)'
      BY <2>2, <2>4, WentSee DEF Due
    <2>5. \A v : Due(v) => Due(v)'
      <3>1. \A v : ~Reaches(t, v)
        BY <2>1 DEF Reaches, Doing
      <3>2. ~Doing(t, "members")
        BY <2>1 DEF Doing
      <3> QED
        BY <2>2, <3>1, <3>2, WentSee DEF Due, Tasks
    <2> QED
      BY <2>1, <2>4, <2>5 DEF KInv, Settled
  <1>8. CASE Load(t)
    <2>1. /\ Doing(t, "load")
          /\ UNCHANGED <<roster, out, reverted, behind, latest>>
      BY <1>8 DEF Load, rows, given, told
    <2>2. Served(t, out, {Who(t)})
      BY <1>8, LoadTypes
    <2>3. \A v : Reaches(t, v) => v = Who(t)
      BY <2>1 DEF Reaches, Doing
    <2>4. ~Doing(t, "members")
      BY <2>1 DEF Doing
    <2>5. \A v : Reaches(t, v) => Reaches(t, v)'
      BY <2>1, <2>2, <2>3, ServedSee
    <2>6. \A v : Due(v) => Due(v)'
      BY <2>1, <2>2, <2>4, <2>5, ServedSee DEF Due, Tasks
    <2> QED
      BY <2>1, <2>6, KeptKeyed
  <1> QED
    BY <1>1, <1>2, <1>3, <1>4, <1>5, <1>6, <1>7, <1>8 DEF TaskStep

LEMMA CommandKeyed ==
  ASSUME Types, Fresh, KInv, Command
  PROVE  KInv'
  <1>0. "cmd" \in Tasks
    BY DEF Tasks
  <1>1. ASSUME NEW m \in Modes, NEW members \in SUBSET Users, CreateGroup(m, members)
        PROVE  KInv'
    <2>1. roster' = members /\ minted = 0
      BY <1>1 DEF CreateGroup, Fresh
    <2>2. CASE members # {}
      <3>1. Went("cmd", "create", "share", NoUser, 1, members)
        BY <1>1, <2>1, <2>2, CreateTypes
      <3>2. \A v \in members : Reaches("cmd", v)'
        BY <1>0, <3>1, WentSee
      <3> QED
        BY <1>0, <2>1, <3>2 DEF KInv, Settled, Due
    <2>3. CASE members = {}
      BY <2>1, <2>3 DEF KInv
    <2> QED
      BY <2>2, <2>3
  <1>2. ASSUME NEW op, NEW a, NEW u, Went("cmd", op, a, u, 0, {}), task["cmd"] = Idle,
               UNCHANGED <<roster, out, reverted, behind, latest>>
        PROVE  KInv'
    <2>1. \A b : ~Doing("cmd", b)
      BY <1>2, CmdIdle
    <2> QED
      BY <1>0, <1>2, <2>1, WentKeyed
  <1>3. ASSUME NEW u \in Users, Admissible(u)  PROVE KInv'
    <2>1. Went("cmd", "admit", "add", u, 0, {})
      BY <1>3, AdmissibleTypes
    <2>2. task["cmd"] = Idle /\ UNCHANGED <<roster, out, reverted, behind, latest>>
      BY <1>3 DEF Admissible, Owner, given, told
    <2> QED
      BY <1>2, <2>1, <2>2
  <1>4. ASSUME SendText \/ (\E m \in Modes : SetAccess(m))  PROVE KInv'
    <2>1. Went("cmd", "say", "event", NoUser, 0, {})
      BY <1>4, SayTypes
    <2>2. task["cmd"] = Idle /\ UNCHANGED <<roster, out, reverted, behind, latest>>
      BY <1>4 DEF SendText, SetAccess, Owner, given, told, rows
    <2> QED
      BY <1>2, <2>1, <2>2
  <1>5. ASSUME NEW u \in Users,
               RemoveMember(u) \/ BanMember(u) \/ (\E d \in Durations : SuspendMember(u, d))
        PROVE  KInv'
    <2>1. Went("cmd", "moderate", "event", u, 0, {}) /\ Moderate(u)
      BY <1>5, OrderTypes
    <2>2. task["cmd"] = Idle /\ UNCHANGED <<roster, out, reverted, behind, latest>>
      BY <2>1 DEF Moderate, Owner, given
    <2> QED
      BY <1>2, <2>1, <2>2
  <1>6. ASSUME NEW u \in Users, UnbanMember(u) \/ UnsuspendMember(u)  PROVE KInv'
    <2>1. task' = task /\ UNCHANGED <<roster, out, reverted, behind, latest>>
      BY <1>6 DEF UnbanMember, UnsuspendMember, given, told
    <2> QED
      BY <2>1 DEF KInv, Settled, Due, Reaches, Doing, Who
  <1>7. CASE Drop
    <2>1. /\ Doing("cmd", "drop") /\ roster' = roster \ {Who("cmd")}
          /\ UNCHANGED <<out, reverted, behind, latest>>
      BY <1>7 DEF Drop, given
    <2>2. Went("cmd", "moderate", "mint", Who("cmd"), task["cmd"].key, task["cmd"].rcp)
      BY <1>7, DropTypes
    <2>3. ~Doing("cmd", "share") /\ ~Doing("cmd", "load") /\ ~Doing("cmd", "members")
      BY <2>1 DEF Doing
    <2> QED
      BY <1>0, <2>1, <2>2, <2>3, WentKeyed
  <1>8. CASE Mint
    <2>1. Went("cmd", "moderate", "members", Who("cmd"), minted + 1, task["cmd"].rcp)
      BY <1>8, MintTypes
    <2>2. Doing("cmd", "members")'
      BY <2>1 DEF Went, Fields, Doing
    <2> QED
      BY <2>2 DEF KInv, Settled, Due
  <1>9. CASE Members
    <2>1. /\ Doing("cmd", "members") /\ roster' = roster
      BY <1>9 DEF Members, rows
    <2>2. Served("cmd", task["cmd"].key, roster)
      BY <1>9, MembersTypes
    <2>3. \A v \in roster' : Reaches("cmd", v)'
      BY <1>0, <2>1, <2>2, ServedSee
    <2> QED
      BY <1>0, <2>3 DEF KInv, Settled, Due
  <1> QED
    BY <1>1, <1>3, <1>4, <1>5, <1>6, <1>7, <1>8, <1>9
       DEF Command, InviteMember, AcceptMember

\* The processor is idle or handles a request.
LEMMA ProcJoins ==
  ASSUME Types, task["proc"] = Idle \/ Doing("proc", "prune") \/ Doing("proc", "member")
                                    \/ Doing("proc", "queue")
  PROVE  ~Doing("proc", "share") /\ ~Doing("proc", "load") /\ ~Doing("proc", "members")
  BY IdleJob DEF Fields, Doing

LEMMA ProcessorKeyed ==
  ASSUME Types, KInv, Processor
  PROVE  KInv'
  <1>0. "proc" \in Tasks
    BY DEF Tasks
  <1>1. ASSUME NEW u \in Users, NEW ts \in 0..(MaxTime + Skew), NEW key_ok \in BOOLEAN,
               Join(u, ts, key_ok)
        PROVE  KInv'
    <2>1. PICK a \in {"prune", "member"} : Went("proc", "join", a, u, 0, {})
      BY <1>1, JoinTypes
    <2>2. task["proc"] = Idle /\ UNCHANGED <<roster, out, reverted, behind, latest>>
      BY <1>1 DEF Join, Deliver, rows, given, told
    <2> QED
      BY <1>0, <2>1, <2>2, ProcJoins, WentKeyed
  <1>2. CASE JoinPrune
    <2>1. Went("proc", "join", "member", Who("proc"), task["proc"].key, task["proc"].rcp)
      BY <1>2, JoinPruneTypes
    <2>2. Doing("proc", "prune") /\ UNCHANGED <<roster, out, reverted, behind, latest>>
      BY <1>2 DEF JoinPrune, given, told
    <2> QED
      BY <1>0, <2>1, <2>2, ProcJoins, WentKeyed
  <1>3. CASE JoinAdmitted
    <2>1. Went("proc", "admit", "add", Who("proc"), 0, {})
      BY <1>3, JoinAdmittedTypes
    <2>2. Doing("proc", "member") /\ UNCHANGED <<roster, out, reverted, behind, latest>>
      BY <1>3 DEF JoinAdmitted, rows, given
    <2> QED
      BY <1>0, <2>1, <2>2, ProcJoins, WentKeyed
  <1>4. CASE JoinQueued
    <2>1. Went("proc", "join", "queue", Who("proc"), task["proc"].key, task["proc"].rcp)
      BY <1>4, JoinQueuedTypes
    <2>2. Doing("proc", "member") /\ UNCHANGED <<roster, out, reverted, behind, latest>>
      BY <1>4 DEF JoinQueued, given, told, rows
    <2> QED
      BY <1>0, <2>1, <2>2, ProcJoins, WentKeyed
  <1>5. CASE AddJoinRequest \/ JoinDenied
    <2>1. Went("proc", "idle", "", NoUser, 0, {})
      BY <1>5, JoinOverTypes DEF Ended
    <2>2. /\ Doing("proc", "queue") \/ Doing("proc", "member")
          /\ UNCHANGED <<roster, out, reverted, behind, latest>>
      BY <1>5 DEF AddJoinRequest, JoinDenied, given, told, rows
    <2> QED
      BY <1>0, <2>1, <2>2, ProcJoins, WentKeyed
  <1>6. ASSUME NEW u \in Users, Left(u)  PROVE KInv'
    <2>1. /\ task' = task /\ roster' \subseteq roster
          /\ UNCHANGED <<out, reverted, behind, latest>>
      BY <1>6 DEF Left, given, told
    <2> QED
      BY <2>1 DEF KInv, Settled, Due, Reaches, Doing, Who
  <1> QED
    BY <1>1, <1>2, <1>3, <1>4, <1>5, <1>6 DEF Processor

LEMMA NextKeyed == Types /\ Fresh /\ KInv /\ [Next]_vars => KInv'
  <1> SUFFICES ASSUME Types, Fresh, KInv, [Next]_vars  PROVE KInv'
    OBVIOUS
  <1>1. CASE Restart
    <2>1. /\ behind' = behind \cup Owed("cmd") \cup Owed("proc")
          /\ UNCHANGED <<roster, out, reverted, latest>>
      BY <1>1 DEF Restart, rows, given
    <2>2. ASSUME NEW u \in roster', Due(u)  PROVE u \in behind'
      <3>1. CASE Doing("cmd", "members")
        <4>1. Owed("cmd") = roster
          BY <3>1 DEF Owed, Doing
        <4> QED
          BY <2>1, <4>1
      <3>2. ASSUME NEW t \in Tasks, Reaches(t, u)  PROVE u \in Owed(t)
        <4>1. CASE Doing(t, "share") /\ u \in task[t].rcp
          <5>1. Owed(t) = task[t].rcp
            BY <4>1 DEF Owed, Doing
          <5> QED
            BY <4>1, <5>1
        <4>2. CASE Doing(t, "load") /\ Who(t) = u
          <5>1. Owed(t) = {Who(t)}
            BY <4>2 DEF Owed, Doing
          <5> QED
            BY <4>2, <5>1
        <4> QED
          BY <3>2, <4>1, <4>2 DEF Reaches
      <3> QED
        BY <2>1, <2>2, <3>1, <3>2 DEF Due, Tasks
    <2> QED
      BY <2>1, <2>2, KeptKeyed
  <1>2. CASE Tick \/ UNCHANGED vars
    <2>1. task' = task /\ UNCHANGED <<roster, out, reverted, behind, latest>>
      BY <1>2 DEF Tick, vars, rows, given, told
    <2> QED
      BY <2>1 DEF KInv, Settled, Due, Reaches, Doing, Who
  <1> QED
    BY <1>1, <1>2, TaskKeyed, CommandKeyed, ProcessorKeyed DEF Next

\* Whenever both tasks are idle, every member's client holds the session the
\* owner encrypts with, unless the share was skipped or its handler ended early,
\* the client was given an older one, or the rotation was undone.
THEOREM MembersHoldKey == Spec => []MembersKeyed
  <1>1. Init => Types /\ Fresh /\ KInv
    BY InitTypes DEF Init, KInv
  <1>2. Types /\ Fresh /\ KInv /\ [Next]_vars => Types' /\ Fresh' /\ KInv'
    BY NextTypes, NextKeyed
  <1>3. Types /\ KInv => MembersKeyed
    BY Keyed
  <1> QED
    BY <1>1, <1>2, <1>3, PTL DEF Spec

----------------------------------------------------------------------------
(* The barred are off the roster.                                          *)

\* Task t has found nothing against u, and will or may admit u.
Passed(t, u) ==
    /\ Who(t) = u
    /\ \/ task[t].op = "admit" /\ task[t].at = "add"
       \/ task[t].op = "join" /\ task[t].clear
Prunes(u) == Doing("proc", "prune") /\ Who("proc") = u

\* The inductive invariant.  A suspension whose row is gone before its time, an
\* admission of somebody barred, and a row about to be cleared too early all
\* belong to excused users.
LostExcused == Skew = 0 => \A u \in Users : Lost(u) => u \in excused
PassedExcused ==
    \A t \in Tasks : \A u \in Users : Passed(t, u) /\ Barred(u) => u \in excused
PruneExcused ==
    Skew = 0 => \A u \in Users : Prunes(u) /\ sentence[u] > now => u \in excused
BInv == BarredOffRoster /\ LostExcused /\ PassedExcused /\ PruneExcused

\* What keeps the invariant when no bar is touched.
LEMMA BarredKept ==
  ASSUME Types, BInv, UNCHANGED <<bans, sentence, now, susp>>,
         excused \subseteq excused', roster' \subseteq roster,
         \A u \in roster' : Dropping(u) => Dropping(u)' \/ u \in excused',
         \A t \in Tasks : \A u \in Users : Passed(t, u)' => Passed(t, u),
         \A u \in Users : Prunes(u)' => Prunes(u)
  PROVE  BInv'
  <1>1. \A u : (Barred(u)' <=> Barred(u)) /\ (Lost(u)' <=> Lost(u))
    BY DEF Barred, Lost
  <1>2. BarredOffRoster'
    BY <1>1 DEF BInv, BarredOffRoster
  <1>3. LostExcused'
    BY <1>1 DEF BInv, LostExcused
  <1>4. PassedExcused'
    BY <1>1 DEF BInv, PassedExcused
  <1>5. PruneExcused'
    BY DEF BInv, PruneExcused
  <1> QED
    BY <1>2, <1>3, <1>4, <1>5 DEF BInv

LEMMA WentPassed ==
  ASSUME NEW t \in Tasks, NEW op, NEW a, NEW u, NEW n, NEW R, Went(t, op, a, u, n, R)
  PROVE  /\ op # "join" /\ a # "add" => \A v : ~Passed(t, v)'
         /\ op = "admit" /\ a = "add" => \A v : Passed(t, v)' => v = u
         /\ \A s \in Tasks : \A v : s # t => (Passed(s, v)' <=> Passed(s, v))
         /\ t = "cmd" => \A v : Prunes(v)' <=> Prunes(v)
         /\ t = "proc" /\ a # "prune" => \A v : ~Prunes(v)'
         /\ t = "proc" => \A v : Prunes(v)' => v = u
  BY DEF Went, Fields, Passed, Prunes, Doing, Who, Tasks

\* A handler that admits nobody new goes on.
LEMMA WentBarred ==
  ASSUME Types, BInv, NEW t \in Tasks, NEW op, NEW a, NEW u, NEW n, NEW R,
         Went(t, op, a, u, n, R), op # "join", a # "add", a # "prune",
         UNCHANGED <<bans, sentence, now, susp>>,
         excused \subseteq excused', roster' \subseteq roster,
         \A v \in roster' : Dropping(v) => Dropping(v)' \/ v \in excused'
  PROVE  BInv'
  <1>1. \A s \in Tasks : \A v \in Users : Passed(s, v)' => Passed(s, v)
    BY WentPassed
  <1>2. \A v \in Users : Prunes(v)' => Prunes(v)
    BY WentPassed DEF Tasks
  <1> QED
    BY <1>1, <1>2, BarredKept

LEMMA ServedBarred ==
  ASSUME Types, BInv, NEW t \in Tasks, NEW n, NEW R, Served(t, n, R),
         Doing(t, "share") \/ Doing(t, "load") \/ Doing(t, "members"),
         UNCHANGED <<bans, sentence, now, susp, excused, roster>>
  PROVE  BInv'
  <1>1. \A v : Dropping(v) => Dropping(v)'
    BY ServedSee
  <1>0. task[t].op \in {"admit", "moderate", "create"}
    BY WhatDoing
  <1>2. CASE R # {}
    <2>1. Went(t, task[t].op, "share", Who(t), n, R)
      BY <1>2 DEF Served
    <2> QED
      BY <1>0, <1>1, <2>1, WentBarred
  <1>3. CASE R = {} /\ task[t].op = "admit"
    <2>1. Went(t, "admit", "event", Who(t), 0, {})
      BY <1>3 DEF Served
    <2> QED
      BY <1>1, <2>1, WentBarred
  <1>4. CASE R = {} /\ task[t].op # "admit"
    <2>1. Went(t, "idle", "", NoUser, 0, {})
      BY <1>4 DEF Served, Ended
    <2> QED
      BY <1>1, <2>1, WentBarred
  <1> QED
    BY <1>2, <1>3, <1>4

LEMMA TaskBarred ==
  ASSUME Types, BInv, NEW t \in Tasks, TaskStep(t)
  PROVE  BInv'
  <1>1. ASSUME NEW u \in Users, Share(t, u) \/ Skip(t, u)  PROVE BInv'
    <2>1. Doing(t, "share") /\ UNCHANGED <<bans, sentence, now, susp, excused, roster>>
      BY <1>1 DEF Share, Skip, rows
    <2>2. Served(t, task[t].key, task[t].rcp \ {u})
      BY <1>1, ShareTypes, SkipTypes
    <2> QED
      BY <2>1, <2>2, ServedBarred
  <1>2. CASE Encrypt(t)
    <2>1. Doing(t, "event") /\ UNCHANGED <<bans, sentence, now, susp, excused, roster>>
      BY <1>2 DEF Encrypt, rows, told
    <2>2. Went(t, task[t].op, "save", Who(t), out, task[t].rcp)
      BY <1>2, EncryptTypes
    <2>3. \A v : Dropping(v) => Dropping(v)'
      <3>1. CASE t = "cmd"
        BY <2>2, <3>1, WentCmd DEF Dropping, Moderating
      <3>2. CASE t = "proc"
        BY <2>2, <3>2, WentProc
      <3> QED
        BY <3>1, <3>2 DEF Tasks
    <2>4. task[t].op # "join"
      BY <2>1, WhatDoing
    <2> QED
      BY <2>1, <2>2, <2>3, <2>4, WentBarred
  <1>3. CASE Save(t)
    <2>1. Doing(t, "save") /\ UNCHANGED <<bans, sentence, now, susp, excused, roster>>
      BY <1>3 DEF Save, Stored, rows
    <2>2. CASE task[t].op = "moderate"
      <3>1. t = "cmd"
        BY <2>1, <2>2, WhatDoing
      <3>2. Went("cmd", "moderate", "drop", Who("cmd"), 0, {})
        BY <1>3, <2>2, <3>1, SaveTypes
      <3>3. \A v : Dropping(v) => Dropping(v)'
        BY <3>2, WentCmd DEF Dropping, Moderating
      <3> QED
        BY <2>1, <3>1, <3>2, <3>3, WentBarred
    <2>3. CASE task[t].op # "moderate"
      <3>1. Ended(t)
        BY <1>3, <2>3, SaveTypes
      <3>2. \A v : Moderating(v) => t # "cmd"
        BY <2>3 DEF Moderating
      <3>3. \A v : Dropping(v) => Dropping(v)'
        BY <3>1, <3>2, EndedSee
      <3>4. Went(t, "idle", "", NoUser, 0, {})
        BY <3>1 DEF Ended
      <3> QED
        BY <2>1, <3>3, <3>4, WentBarred
    <2> QED
      BY <2>2, <2>3
  <1>4. CASE SaveUnsent(t)
    <2>1. /\ Doing(t, "save") /\ UNCHANGED <<bans, sentence, now, susp, roster>>
          /\ excused' = excused \cup (IF task[t].op = "moderate" THEN {Who(t)} ELSE {})
      BY <1>4 DEF SaveUnsent, Stored, rows
    <2>2. Ended(t)
      BY <1>4, SaveUnsentTypes
    <2>3. \A v : t = "cmd" /\ Moderating(v) => v \in excused'
      BY <2>1 DEF Moderating
    <2>4. \A v : Dropping(v) => Dropping(v)' \/ v \in excused'
      BY <2>2, <2>3, EndedSee
    <2>5. Went(t, "idle", "", NoUser, 0, {}) /\ excused \subseteq excused'
      BY <2>1, <2>2 DEF Ended
    <2> QED
      BY <2>1, <2>4, <2>5, WentBarred
  <1>5. CASE ShareFails(t)
    <2>1. Doing(t, "share") /\ UNCHANGED <<bans, sentence, now, susp, excused, roster>>
      BY <1>5 DEF ShareFails, rows
    <2>2. Ended(t)
      BY <1>5, ShareFailsTypes
    <2>3. \A v : Dropping(v) => t # "cmd"
      BY <2>1 DEF Doing, Dropping, Moderating
    <2>4. \A v : Dropping(v) => Dropping(v)'
      BY <2>2, <2>3, EndedSee
    <2>5. Went(t, "idle", "", NoUser, 0, {})
      BY <2>2 DEF Ended
    <2> QED
      BY <2>1, <2>4, <2>5, WentBarred
  <1>6. CASE Add(t)
    <2>0. /\ Doing(t, "add") /\ roster' = roster \cup {Who(t)}
          /\ UNCHANGED <<bans, sentence, now, susp, excused>>
      BY <1>6 DEF Add
    <2>1. Who(t) \in Users /\ task[t].op = "admit"
      BY <2>0, WhatDoing
    <2>2. PICK u \in Users : u = Who(t)
      BY <2>1
    <2>3. Went(t, "admit", "load", u, task[t].key, task[t].rcp)
      BY <1>6, <2>2, AddTypes
    <2>4. Passed(t, u)
      BY <2>0, <2>1, <2>2 DEF Passed, Doing
    <2>5. Barred(u) => u \in excused
      BY <2>4 DEF BInv, PassedExcused
    <2>6. \A v : (Barred(v)' <=> Barred(v)) /\ (Lost(v)' <=> Lost(v))
      BY <2>0 DEF Barred, Lost
    <2>7. \A v : Dropping(v) => Dropping(v)'
      <3>1. \A v : Moderating(v) => t # "cmd"
        BY <2>1 DEF Moderating
      <3> QED
        BY <2>1, <2>2, <2>3, <3>1, WentOn
    <2>8. BarredOffRoster'
      BY <2>0, <2>2, <2>5, <2>6, <2>7 DEF BInv, BarredOffRoster
    <2>9. \A s \in Tasks : \A v \in Users : Passed(s, v)' => Passed(s, v)
      BY <2>3, WentPassed
    <2>10. \A v \in Users : Prunes(v)' => Prunes(v)
      BY <2>3, WentPassed DEF Tasks
    <2>11. LostExcused' /\ PassedExcused'
      BY <2>0, <2>6, <2>9 DEF BInv, LostExcused, PassedExcused
    <2>12. PruneExcused'
      BY <2>0, <2>10 DEF BInv, PruneExcused
    <2> QED
      BY <2>8, <2>11, <2>12 DEF BInv
  <1>7. CASE Load(t)
    <2>1. Doing(t, "load") /\ UNCHANGED <<bans, sentence, now, susp, excused, roster>>
      BY <1>7 DEF Load, rows, told
    <2>2. Served(t, out, {Who(t)})
      BY <1>7, LoadTypes
    <2> QED
      BY <2>1, <2>2, ServedBarred
  <1> QED
    BY <1>1, <1>2, <1>3, <1>4, <1>5, <1>6, <1>7 DEF TaskStep

\* Where no clock runs ahead, a row that has run out while the sentence has not
\* is one that was lost.
LEMMA ShortRow ==
  ASSUME Types, BInv, NEW u \in Users, u \notin bans, susp[u] <= now, Barred(u)
  PROVE  u \in excused
  <1>1. Skew = 0 /\ sentence[u] > now
    BY DEF Barred
  <1>2. susp[u] # sentence[u]
    <2>1. susp[u] \in Nat /\ sentence[u] \in Nat /\ now \in Nat
      BY Constants DEF Types, RestOK
    <2> QED
      BY <1>1, <2>1
  <1> QED
    BY <1>1, <1>2 DEF BInv, LostExcused, Lost

\* A command, or a tick, that only takes bars away.
LEMMA Lighter ==
  ASSUME Types, BInv, task' = task, excused' = excused, roster' \subseteq roster,
         \A u \in Users : Barred(u)' => Barred(u),
         \A u \in Users : Lost(u)' => Lost(u),
         \A u \in Users : sentence'[u] > now' => sentence[u] > now
  PROVE  BInv'
  <1>1. /\ \A u : Dropping(u)' <=> Dropping(u)
        /\ \A u : Prunes(u)' <=> Prunes(u)
        /\ \A t \in Tasks : \A u : Passed(t, u)' <=> Passed(t, u)
    BY DEF Dropping, Moderating, Prunes, Passed, Doing, Who
  <1>2. roster' \subseteq Users
    BY DEF Types, RestOK
  <1>3. BarredOffRoster'
    BY <1>1, <1>2 DEF BInv, BarredOffRoster
  <1>4. LostExcused'
    BY DEF BInv, LostExcused
  <1>5. PassedExcused'
    BY <1>1 DEF BInv, PassedExcused
  <1>6. PruneExcused'
    BY <1>1 DEF BInv, PruneExcused
  <1> QED
    BY <1>3, <1>4, <1>5, <1>6 DEF BInv

LEMMA ModerateBarred ==
  ASSUME Types, BInv, NEW u \in Users, Moderate(u), Went("cmd", "moderate", "event", u, 0, {}),
         \A v \in Users : v # u => (Barred(v)' <=> Barred(v)) /\ (Lost(v)' <=> Lost(v)),
         \A v \in Users : v # u => sentence'[v] = sentence[v],
         Skew = 0 => (Lost(u)' => Lost(u))
  PROVE  BInv'
  <1>1. /\ task["cmd"] = Idle /\ roster' = roster /\ now' = now
        /\ excused' = IF Who("proc") = u \/ Lost(u) THEN excused \cup {u} ELSE excused \ {u}
    BY DEF Moderate, Owner
  <1>2. /\ \A v : v # u => (v \in excused' <=> v \in excused)
        /\ Who("proc") = u \/ Lost(u) => u \in excused'
    BY <1>1
  <1>3. "cmd" \in Tasks /\ "proc" \in Tasks /\ \A t \in Tasks : t # "cmd" => t = "proc"
    BY DEF Tasks
  <1>4. /\ \A v : ~Passed("cmd", v)'
        /\ \A v : Passed("proc", v)' <=> Passed("proc", v)
        /\ \A v : Prunes(v)' <=> Prunes(v)
    BY <1>3, WentPassed
  <1>5. Dropping(u)' /\ \A v : ~Dropping(v)
    BY <1>1, WentCmd, CmdIdle
  <1>6. BarredOffRoster'
    BY <1>1, <1>2, <1>5 DEF BInv, BarredOffRoster, Types, RestOK
  <1>7. LostExcused'
    BY <1>2 DEF BInv, LostExcused
  <1>8. PassedExcused'
    <2>1. ASSUME NEW v \in Users, NEW t \in Tasks, Passed(t, v)', Barred(v)'
          PROVE  v \in excused'
      <3>1. Passed("proc", v)
        BY <1>3, <1>4, <2>1
      <3>2. CASE v = u
        BY <1>2, <3>1, <3>2 DEF Passed
      <3>3. CASE v # u
        BY <1>2, <1>3, <2>1, <3>1, <3>3 DEF BInv, PassedExcused
      <3> QED
        BY <3>2, <3>3
    <2> QED
      BY <2>1 DEF PassedExcused
  <1>9. PruneExcused'
    <2>1. ASSUME Skew = 0, NEW v \in Users, Prunes(v)', sentence'[v] > now'
          PROVE  v \in excused'
      <3>1. Prunes(v)
        BY <1>4, <2>1
      <3>2. CASE v = u
        BY <1>2, <3>1, <3>2 DEF Prunes
      <3>3. CASE v # u
        BY <1>1, <1>2, <2>1, <3>1, <3>3 DEF BInv, PruneExcused
      <3> QED
        BY <3>2, <3>3
    <2> QED
      BY <2>1 DEF PruneExcused
  <1> QED
    BY <1>6, <1>7, <1>8, <1>9 DEF BInv

LEMMA CommandBarred ==
  ASSUME Types, Fresh, BInv, Command
  PROVE  BInv'
  <1>0. "cmd" \in Tasks /\ "proc" \in Tasks /\ \A t \in Tasks : t # "cmd" => t = "proc"
    BY DEF Tasks
  <1>1. ASSUME NEW m \in Modes, NEW members \in SUBSET Users, CreateGroup(m, members)
        PROVE  BInv'
    <2>1. /\ roster' = members /\ minted = 0 /\ task["cmd"] = Idle
          /\ bans = {} /\ sentence = [u \in Users |-> 0]
          /\ UNCHANGED <<bans, sentence, now, susp, excused>>
      BY <1>1 DEF CreateGroup, Fresh, told
    <2>2. \A u \in Users : ~Barred(u)' /\ ~Lost(u)' /\ ~(sentence'[u] > now')
      <3>1. now \in Nat
        BY Constants DEF Types, RestOK
      <3>2. \A u \in Users : ~(sentence'[u] > now')
        BY <2>1, <3>1
      <3> QED
        BY <2>1, <3>2 DEF Barred, Lost
    <2> QED
      BY <2>1, <2>2 DEF BInv, BarredOffRoster, LostExcused, PassedExcused, PruneExcused
  <1>2. ASSUME NEW u \in Users, Admissible(u)  PROVE BInv'
    <2>1. /\ Went("cmd", "admit", "add", u, 0, {})
      BY <1>2, AdmissibleTypes
    <2>2. /\ task["cmd"] = Idle /\ u \notin bans /\ susp[u] <= now
          /\ susp' = Pruned(u, now)
          /\ UNCHANGED <<bans, sentence, now, excused, roster>>
      BY <1>2 DEF Admissible, Owner, told
    <2>3. \A v : Barred(v)' <=> Barred(v)
      BY <2>2 DEF Barred
    <2>4. \A v \in Users : v # u => susp'[v] = susp[v]
      BY <2>2 DEF Pruned, Types, RestOK
    <2>5. BarredOffRoster'
      BY <2>2, <2>3, CmdIdle DEF BInv, BarredOffRoster
    <2>6. LostExcused'
      <3>1. ASSUME Skew = 0, NEW v \in Users, Lost(v)'  PROVE v \in excused'
        <4>1. CASE v = u
          BY <2>2, <3>1, <4>1, ShortRow DEF Lost, Barred
        <4>2. CASE v # u
          BY <2>2, <2>4, <3>1, <4>2 DEF BInv, LostExcused, Lost
        <4> QED
          BY <4>1, <4>2
      <3> QED
        BY <3>1 DEF LostExcused
    <2>7. PassedExcused'
      <3>1. ASSUME NEW t \in Tasks, NEW v \in Users, Passed(t, v)', Barred(v)'
            PROVE  v \in excused'
        <4>1. CASE t = "cmd"
          <5>1. v = u
            BY <1>0, <2>1, <3>1, <4>1, WentPassed
          <5> QED
            BY <2>2, <2>3, <3>1, <5>1, ShortRow
        <4>2. CASE t # "cmd"
          <5>1. Passed(t, v)
            BY <1>0, <2>1, <3>1, <4>2, WentPassed
          <5> QED
            BY <2>2, <2>3, <3>1, <5>1 DEF BInv, PassedExcused
        <4> QED
          BY <4>1, <4>2
      <3> QED
        BY <3>1 DEF PassedExcused
    <2>8. PruneExcused'
      <3>1. \A v : Prunes(v)' <=> Prunes(v)
        BY <1>0, <2>1, WentPassed
      <3> QED
        BY <2>2, <3>1 DEF BInv, PruneExcused
    <2> QED
      BY <2>5, <2>6, <2>7, <2>8 DEF BInv
  <1>3. ASSUME SendText \/ (\E m \in Modes : SetAccess(m))  PROVE BInv'
    <2>1. Went("cmd", "say", "event", NoUser, 0, {})
      BY <1>3, SayTypes
    <2>2. /\ task["cmd"] = Idle
          /\ UNCHANGED <<bans, sentence, now, susp, excused, roster>>
      BY <1>3 DEF SendText, SetAccess, Owner, told, rows
    <2>3. \A v : ~Dropping(v)
      BY <2>2, CmdIdle
    <2> QED
      BY <1>0, <2>1, <2>2, <2>3, WentBarred
  <1>4. ASSUME NEW u \in Users, RemoveMember(u)  PROVE BInv'
    <2>1. Went("cmd", "moderate", "event", u, 0, {}) /\ Moderate(u)
      BY <1>4, OrderTypes
    <2>2. UNCHANGED <<bans, susp, sentence, now>>
      BY <1>4 DEF RemoveMember, Moderate
    <2>3. \A v : (Barred(v)' <=> Barred(v)) /\ (Lost(v)' <=> Lost(v))
      BY <2>2 DEF Barred, Lost
    <2> QED
      BY <2>1, <2>2, <2>3, ModerateBarred
  <1>5. ASSUME NEW u \in Users, BanMember(u)  PROVE BInv'
    <2>1. Went("cmd", "moderate", "event", u, 0, {}) /\ Moderate(u)
      BY <1>5, OrderTypes
    <2>2. bans' = bans \cup {u} /\ UNCHANGED <<susp, sentence, now>>
      BY <1>5 DEF BanMember, Moderate
    <2>3. \A v : v # u => (Barred(v)' <=> Barred(v))
      BY <2>2 DEF Barred
    <2>4. \A v : Lost(v)' <=> Lost(v)
      BY <2>2 DEF Lost
    <2> QED
      BY <2>1, <2>2, <2>3, <2>4, ModerateBarred
  <1>6. ASSUME NEW u \in Users, NEW d \in Durations, SuspendMember(u, d)  PROVE BInv'
    <2>1. Went("cmd", "moderate", "event", u, 0, {}) /\ Moderate(u)
      BY <1>6, OrderTypes
    <2>2. /\ susp' = [susp EXCEPT ![u] = now + d]
          /\ sentence' = [sentence EXCEPT ![u] = now + d]
          /\ UNCHANGED <<bans, now>>
      BY <1>6 DEF SuspendMember, Moderate
    <2>3. /\ susp'[u] = sentence'[u]
          /\ \A v \in Users : v # u => susp'[v] = susp[v] /\ sentence'[v] = sentence[v]
      BY <2>2 DEF Types, RestOK
    <2>4. \A v \in Users : v # u => (Barred(v)' <=> Barred(v)) /\ (Lost(v)' <=> Lost(v))
      BY <2>2, <2>3 DEF Barred, Lost
    <2>5. ~Lost(u)'
      BY <2>3 DEF Lost
    <2> QED
      BY <2>1, <2>3, <2>4, <2>5, ModerateBarred
  <1>7. ASSUME NEW u \in Users, UnbanMember(u)  PROVE BInv'
    <2>1. /\ task' = task /\ bans' = bans \ {u}
          /\ UNCHANGED <<sentence, now, susp, excused, roster>>
      BY <1>7 DEF UnbanMember, told
    <2>2. \A v : (Barred(v)' => Barred(v)) /\ (Lost(v)' => Lost(v))
      BY <2>1 DEF Barred, Lost
    <2> QED
      BY <2>1, <2>2, Lighter
  <1>8. ASSUME NEW u \in Users, UnsuspendMember(u)  PROVE BInv'
    <2>1. /\ task' = task /\ susp' = [susp EXCEPT ![u] = 0]
          /\ sentence' = [sentence EXCEPT ![u] = 0]
          /\ UNCHANGED <<bans, now, excused, roster>>
      BY <1>8 DEF UnsuspendMember, told
    <2>2. /\ \A v \in Users : v # u => susp'[v] = susp[v] /\ sentence'[v] = sentence[v]
          /\ susp'[u] = 0 /\ sentence'[u] = 0
      BY <2>1 DEF Types, RestOK
    <2>3. now \in Nat
      BY Constants DEF Types, RestOK
    <2>4. ~(sentence'[u] > now')
      BY <2>1, <2>2, <2>3
    <2>5. \A v \in Users : sentence'[v] > now' => v # u
      BY <2>4
    <2>6. \A v \in Users : /\ Barred(v)' => Barred(v)
                           /\ Lost(v)' => Lost(v)
                           /\ sentence'[v] > now' => sentence[v] > now
      BY <2>1, <2>2, <2>5 DEF Barred, Lost
    <2> QED
      BY <2>1, <2>6, Lighter
  <1>9. CASE Drop
    <2>0. /\ Doing("cmd", "drop") /\ roster' = roster \ {Who("cmd")}
          /\ UNCHANGED <<bans, sentence, now, susp, excused>>
      BY <1>9 DEF Drop
    <2>1. Went("cmd", "moderate", "mint", Who("cmd"), task["cmd"].key, task["cmd"].rcp)
      BY <1>9, DropTypes
    <2>2. \A v \in roster' : ~Dropping(v)
      BY <2>0 DEF Dropping, Moderating
    <2> QED
      BY <1>0, <2>0, <2>1, <2>2, WentBarred
  <1>10. CASE Mint
    <2>1. Doing("cmd", "mint") /\ UNCHANGED <<bans, sentence, now, susp, excused, roster>>
      BY <1>10 DEF Mint, rows
    <2>2. Went("cmd", "moderate", "members", Who("cmd"), minted + 1, task["cmd"].rcp)
      BY <1>10, MintTypes
    <2>3. \A v : ~Dropping(v)
      BY <2>1 DEF Dropping, Doing
    <2> QED
      BY <1>0, <2>1, <2>2, <2>3, WentBarred
  <1>11. CASE Members
    <2>1. Doing("cmd", "members") /\ UNCHANGED <<bans, sentence, now, susp, excused, roster>>
      BY <1>11 DEF Members, rows, told
    <2>2. Served("cmd", task["cmd"].key, roster)
      BY <1>11, MembersTypes
    <2> QED
      BY <1>0, <2>1, <2>2, ServedBarred
  <1> QED
    BY <1>1, <1>2, <1>3, <1>4, <1>5, <1>6, <1>7, <1>8, <1>9, <1>10, <1>11
       DEF Command, InviteMember, AcceptMember

LEMMA ProcessorBarred ==
  ASSUME Types, BInv, Processor
  PROVE  BInv'
  <1>0. "cmd" \in Tasks /\ "proc" \in Tasks /\ \A t \in Tasks : t # "proc" => t = "cmd"
    BY DEF Tasks
  <1>1. ASSUME NEW u \in Users, NEW ts \in 0..(MaxTime + Skew), NEW key_ok \in BOOLEAN,
               Join(u, ts, key_ok)
        PROVE  BInv'
    <2>1. PICK a \in {"prune", "member"} : Went("proc", "join", a, u, 0, {})
      BY <1>1, JoinTypes
    <2>2. /\ task'["proc"].at = "prune" <=> susp[u] \in 1..ts
          /\ task'["proc"].clear <=> key_ok /\ u \notin bans /\ susp[u] <= ts
      BY <1>1, JoinTypes
    <2>3. ts <= now + Skew /\ UNCHANGED <<bans, sentence, now, susp, excused, roster>>
      BY <1>1 DEF Join, rows, told
    <2>4. \A v : (Barred(v)' <=> Barred(v)) /\ (Lost(v)' <=> Lost(v)) /\ (Dropping(v)' <=> Dropping(v))
      BY <2>1, <2>3, WentProc DEF Barred, Lost
    <2>5. Skew = 0 /\ susp[u] <= ts => susp[u] <= now
      <3>1. susp[u] \in Nat /\ now \in Nat /\ ts \in Int
        BY Constants DEF Types, RestOK
      <3> QED
        BY <2>3, <3>1
    <2>6. ASSUME Barred(u), susp[u] <= ts, u \notin bans  PROVE u \in excused
      <3>1. Skew = 0
        BY <2>6 DEF Barred
      <3> QED
        BY <2>5, <2>6, <3>1, ShortRow
    <2>7. BarredOffRoster' /\ LostExcused'
      BY <2>3, <2>4 DEF BInv, BarredOffRoster, LostExcused
    <2>8. PassedExcused'
      <3>1. ASSUME NEW t \in Tasks, NEW v \in Users, Passed(t, v)', Barred(v)'
            PROVE  v \in excused'
        <4>1. CASE t = "proc"
          <5>1. v = u /\ task'["proc"].clear
            BY <2>1, <3>1, <4>1 DEF Passed, Went, Fields, Who
          <5> QED
            BY <2>2, <2>3, <2>4, <2>6, <3>1, <5>1
        <4>2. CASE t # "proc"
          <5>1. Passed(t, v)
            BY <1>0, <2>1, <3>1, <4>2, WentPassed
          <5> QED
            BY <2>3, <2>4, <3>1, <5>1 DEF BInv, PassedExcused
        <4> QED
          BY <4>1, <4>2
      <3> QED
        BY <3>1 DEF PassedExcused
    <2>9. PruneExcused'
      <3>1. ASSUME Skew = 0, NEW v \in Users, Prunes(v)', sentence'[v] > now'
            PROVE  v \in excused'
        <4>1. v = u /\ task'["proc"].at = "prune"
          BY <2>1, <3>1 DEF Prunes, Doing, Went, Fields, Who
        <4>2. susp[u] <= ts
          BY <2>2, <4>1
        <4>3. susp[u] <= now
          BY <2>5, <3>1, <4>2
        <4>4. susp[u] # sentence[u]
          <5>1. susp[u] \in Nat /\ sentence[u] \in Nat /\ now \in Nat
            BY Constants DEF Types, RestOK
          <5> QED
            BY <2>3, <3>1, <4>1, <4>3, <5>1
        <4> QED
          BY <2>3, <3>1, <4>1, <4>4 DEF BInv, LostExcused, Lost
      <3> QED
        BY <3>1 DEF PruneExcused
    <2> QED
      BY <2>7, <2>8, <2>9 DEF BInv
  <1>2. CASE JoinPrune
    <2>0. /\ Doing("proc", "prune") /\ susp' = [susp EXCEPT ![Who("proc")] = 0]
          /\ UNCHANGED <<bans, sentence, now, excused, roster>>
      BY <1>2 DEF JoinPrune, told
    <2>1. Who("proc") \in Users /\ task["proc"].op = "join"
      BY <1>0, <2>0, WhatDoing
    <2>2. PICK u \in Users : u = Who("proc")
      BY <2>1
    <2>3. /\ Went("proc", "join", "member", u, task["proc"].key, task["proc"].rcp)
          /\ task'["proc"].clear = task["proc"].clear
      BY <1>2, <2>2, JoinPruneTypes
    <2>4. \A v : (Barred(v)' <=> Barred(v)) /\ (Dropping(v)' <=> Dropping(v))
      BY <2>0, <2>3, WentProc DEF Barred
    <2>5. BarredOffRoster'
      BY <2>0, <2>4 DEF BInv, BarredOffRoster
    <2>6. LostExcused'
      <3>1. ASSUME Skew = 0, NEW v \in Users, Lost(v)'  PROVE v \in excused'
        <4>1. sentence[v] > now
          BY <2>0, <3>1 DEF Lost
        <4>2. CASE v = u
          BY <2>0, <2>2, <3>1, <4>1, <4>2 DEF BInv, PruneExcused, Prunes
        <4>3. CASE v # u
          <5>1. susp'[v] = susp[v]
            BY <2>0, <2>2, <4>3 DEF Types, RestOK
          <5> QED
            BY <2>0, <3>1, <5>1 DEF BInv, LostExcused, Lost
        <4> QED
          BY <4>2, <4>3
      <3> QED
        BY <3>1 DEF LostExcused
    <2>7. \A t \in Tasks : \A v : Passed(t, v)' => Passed(t, v)
      BY <1>0, <2>1, <2>2, <2>3 DEF Passed, Went, Fields, Who
    <2>8. PassedExcused'
      BY <2>0, <2>4, <2>7 DEF BInv, PassedExcused
    <2>9. PruneExcused'
      <3>1. \A v : ~Prunes(v)'
        BY <1>0, <2>3, WentPassed
      <3> QED
        BY <3>1 DEF PruneExcused
    <2> QED
      BY <2>5, <2>6, <2>8, <2>9 DEF BInv
  <1>3. CASE JoinAdmitted
    <2>0. /\ Doing("proc", "member") /\ Verdict = "admit" /\ excused \subseteq excused'
          /\ UNCHANGED <<bans, sentence, now, susp, roster>>
      BY <1>3 DEF JoinAdmitted, rows
    <2>1. Who("proc") \in Users /\ task["proc"].op = "join"
      BY <1>0, <2>0, WhatDoing
    <2>2. PICK u \in Users : u = Who("proc")
      BY <2>1
    <2>3. Went("proc", "admit", "add", u, 0, {})
      BY <1>3, <2>2, JoinAdmittedTypes
    <2>4. task["proc"].clear
      BY <2>0 DEF Verdict, DecideJoin
    <2>5. Passed("proc", u)
      BY <2>1, <2>2, <2>4 DEF Passed
    <2>6. \A t \in Tasks : \A v : Passed(t, v)' => Passed(t, v)
      BY <1>0, <2>3, <2>5, WentPassed
    <2>7. \A v : Prunes(v)' => Prunes(v)
      BY <1>0, <2>3, WentPassed
    <2>8. \A v : Dropping(v)' <=> Dropping(v)
      BY <2>3, WentProc
    <2> QED
      BY <2>0, <2>6, <2>7, <2>8, BarredKept
  <1>4. CASE JoinQueued
    <2>0. /\ Doing("proc", "member")
          /\ UNCHANGED <<bans, sentence, now, susp, roster, excused>>
      BY <1>4 DEF JoinQueued, rows, told
    <2>1. Who("proc") \in Users /\ task["proc"].op = "join"
      BY <1>0, <2>0, WhatDoing
    <2>2. PICK u \in Users : u = Who("proc")
      BY <2>1
    <2>3. /\ Went("proc", "join", "queue", u, task["proc"].key, task["proc"].rcp)
          /\ task'["proc"].clear = task["proc"].clear
      BY <1>4, <2>2, JoinQueuedTypes
    <2>6. \A t \in Tasks : \A v : Passed(t, v)' => Passed(t, v)
      BY <1>0, <2>1, <2>2, <2>3 DEF Passed, Went, Fields, Who
    <2>7. \A v : Prunes(v)' => Prunes(v)
      BY <1>0, <2>3, WentPassed
    <2>8. \A v : Dropping(v)' <=> Dropping(v)
      BY <2>3, WentProc
    <2> QED
      BY <2>0, <2>6, <2>7, <2>8, BarredKept
  <1>5. CASE AddJoinRequest \/ JoinDenied
    <2>1. Went("proc", "idle", "", NoUser, 0, {})
      BY <1>5, JoinOverTypes DEF Ended
    <2>2. UNCHANGED <<bans, sentence, now, susp, roster, excused>>
      BY <1>5 DEF AddJoinRequest, JoinDenied, told, rows
    <2>3. \A v : Dropping(v)' <=> Dropping(v)
      BY <2>1, WentProc
    <2> QED
      BY <1>0, <2>1, <2>2, <2>3, WentBarred
  <1>6. ASSUME NEW u \in Users, Left(u)  PROVE BInv'
    <2>1. /\ task' = task /\ roster' \subseteq roster
          /\ UNCHANGED <<bans, sentence, now, susp, excused>>
      BY <1>6 DEF Left, told
    <2>2. \A v : (Barred(v)' => Barred(v)) /\ (Lost(v)' => Lost(v))
      BY <2>1 DEF Barred, Lost
    <2> QED
      BY <2>1, <2>2, Lighter
  <1> QED
    BY <1>1, <1>2, <1>3, <1>4, <1>5, <1>6 DEF Processor

LEMMA NextBarred == Types /\ Fresh /\ BInv /\ [Next]_vars => BInv'
  <1> SUFFICES ASSUME Types, Fresh, BInv, [Next]_vars  PROVE BInv'
    OBVIOUS
  <1>1. CASE Restart
    <2>1. /\ excused' = excused \cup Unfinished("cmd")
          /\ UNCHANGED <<bans, sentence, now, susp, roster>>
      BY <1>1 DEF Restart, rows
    <2>2. \A v : Dropping(v) => v \in excused'
      BY <2>1 DEF Unfinished, Rotating, Dropping, Moderating
    <2>3. /\ \A t \in Tasks : \A v : ~Passed(t, v)'
          /\ \A v : ~Prunes(v)'
      BY <1>1, RestartIdle DEF Passed, Prunes, Tasks
    <2>4. excused \subseteq excused'
      BY <2>1
    <2> QED
      BY <2>1, <2>2, <2>3, <2>4, BarredKept
  <1>2. CASE Tick
    <2>1. /\ task' = task /\ now' = now + 1
          /\ UNCHANGED <<bans, sentence, susp, excused, roster>>
      BY <1>2 DEF Tick, rows, told
    <2>2. now \in Nat /\ sentence \in [Users -> Nat]
      BY Constants DEF Types, RestOK
    <2>3. \A v \in Users : sentence'[v] > now' => sentence[v] > now
      BY <2>1, <2>2
    <2>4. \A v \in Users : (Barred(v)' => Barred(v)) /\ (Lost(v)' => Lost(v))
      BY <2>1, <2>3 DEF Barred, Lost
    <2> QED
      BY <2>1, <2>3, <2>4, Lighter
  <1>3. CASE UNCHANGED vars
    <2>1. task' = task /\ UNCHANGED <<bans, sentence, now, susp, excused, roster>>
      BY <1>3 DEF vars, rows, told
    <2>2. \A v : (Barred(v)' => Barred(v)) /\ (Lost(v)' => Lost(v))
      BY <2>1 DEF Barred, Lost
    <2> QED
      BY <2>1, <2>2, Lighter
  <1> QED
    BY <1>1, <1>2, <1>3, TaskBarred, CommandBarred, ProcessorBarred DEF Next

LEMMA InitBarred == Init => BInv
  <1> SUFFICES ASSUME Init  PROVE BInv
    OBVIOUS
  <1>1. \A u \in Users : ~Barred(u) /\ ~Lost(u) /\ ~(sentence[u] > now)
    BY DEF Init, Barred, Lost
  <1> QED
    BY <1>1 DEF Init, BInv, BarredOffRoster, LostExcused, PassedExcused, PruneExcused

\* Somebody banned, or suspended for a time that has not passed, is a member only
\* while the moderation is still to drop them, or when it ended early or met a
\* request of theirs.
THEOREM BarredStayOff == Spec => []BarredOffRoster
  <1>1. Init => Types /\ Fresh /\ BInv
    BY InitTypes, InitBarred
  <1>2. Types /\ Fresh /\ BInv /\ [Next]_vars => Types' /\ Fresh' /\ BInv'
    BY NextTypes, NextBarred
  <1>3. BInv => BarredOffRoster
    BY DEF BInv
  <1> QED
    BY <1>1, <1>2, <1>3, PTL DEF Spec
============================================================================
