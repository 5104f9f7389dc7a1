------------------------- MODULE ControlLinkProofs -------------------------
(***************************************************************************)
(* Replies holds for every number of requests, Sends and pushed frames and *)
(* every length of the processor's queue.                                  *)
(*                                                                         *)
(* The argument: the control lock makes the calls of the two tasks follow  *)
(* one another in the order of their numbers (Lock), so that everything on *)
(* the wire belongs to a call no later than the holder's (Past) and the    *)
(* oneshot in the slot belongs to a call no earlier than anything on the   *)
(* wire (SlotTop).  Without a Send and without a timeout the only answer   *)
(* on the wire is the one the holder still waits for (Expected), and there *)
(* is one of it (Once).                                                    *)
(***************************************************************************)
EXTENDS ControlLink, TLAPS

\* A task inside send_and_wait that has the lock; and one that is not inside.
Holds(r) == st[r] \in {"ask", "armed", "wait", "late"} /\ cur[r] \in 1..nreq
Outside(r) == st[r] \in {"off", "busy"} /\ cur[r] = None

\* The lock's queue and the tasks' states tell the same story.
Lock ==
    \/ lockq = <<>> /\ \A r \in Tasks : Outside(r)
    \/ \E r \in Tasks :
          /\ lockq = <<r>> /\ Holds(r)
          /\ \A q \in Tasks \ {r} : Outside(q)
    \/ \E r, q \in Tasks :
          /\ r # q /\ lockq = <<r, q>>
          /\ Holds(r) /\ st[q] = "ask" /\ Holds(q)
          /\ cur[r] < cur[q]

\* m is on its way to the relay, or on its way back.
Going(m) == \E i \in 1..Len(out) : out[i] = m
Coming(m) == \E i \in 1..Len(inn) : inn[i] = m
Wire(m) == m \in 0..MaxReqs /\ (Going(m) \/ Coming(m))

\* Nothing on the wire is ahead of the calls.
Past ==
    \A m \in 0..MaxReqs : Wire(m) =>
        /\ m <= nreq
        /\ \A r \in Tasks : st[r] \in {"ask", "armed"} => m < cur[r]
        /\ \A r \in Tasks : st[r] \in {"wait", "late"} => m <= cur[r]

\* The relay is asked once per request and answers it at most once.
Once ==
    /\ \A i, j \in 1..Len(out) : i # j /\ out[i] = out[j] => out[i] = 0
    /\ \A i, j \in 1..Len(inn) : i # j /\ inn[i] = inn[j] => inn[i] \notin Reqs
    /\ \A i \in 1..Len(out), j \in 1..Len(inn) : out[i] = inn[j] => out[i] = 0

\* The slot holds the oneshot of a call that is not behind the wire and not
\* ahead of a call that has yet to arm; the lock's holder, once armed, has it
\* to itself.
SlotTop ==
    slot # None =>
        /\ slot <= nreq /\ answer[slot] = None
        /\ \A m \in 0..MaxReqs : Wire(m) => m <= slot
        /\ \A r \in Tasks : st[r] = "ask" => slot < cur[r]
        /\ \A r \in Tasks : st[r] \in {"armed", "wait", "late"} => slot = cur[r]

\* A oneshot is resolved only once its call has armed it, and before the call
\* has sent its message never with its own answer.
Unresolved ==
    /\ \A n \in Reqs : n > nreq => answer[n] = None
    /\ \A r \in Tasks : st[r] = "ask" => answer[cur[r]] = None
    /\ \A r \in Tasks : st[r] = "armed" => answer[cur[r]] # cur[r]

\* A dropped oneshot means that the reader has ended.
ClosedEnds == \A n \in Reqs : answer[n] = Closed => ~reader

\* The reason for an answer that nobody waits for.
Cause(m) == nsend > 0 \/ (\E k \in overdue : k <= m) \/ ~reader
Awaited(m) ==
    m \in Reqs /\ answer[m] = None /\ \E r \in Tasks : st[r] = "wait" /\ cur[r] = m
Expected == \A m \in 0..MaxReqs : Wire(m) => Cause(m) \/ Awaited(m)

----------------------------------------------------------------------------
(* The tasks and the lock.                                                 *)

\* What the lock says of two tasks inside send_and_wait: one that has armed is
\* alone, its call is older than that of one that waits for the lock, and
\* both know their requests.
LEMMA LockFacts ==
    ASSUME TypeOK, Lock
    PROVE  /\ \A r \in Tasks : st[r] \notin {"off", "busy"} => cur[r] \in 1..nreq
           /\ \A r, q \in Tasks :
                 st[r] \in {"armed", "wait", "late"} /\ st[q] \in {"armed", "wait", "late"}
                    => r = q
           /\ \A r, q \in Tasks :
                 st[r] \in {"armed", "wait", "late"} /\ st[q] = "ask" => cur[r] < cur[q]
           /\ \A r \in Tasks : st[r] \in {"armed", "wait", "late"} => Holder(r)
           /\ 1..nreq \subseteq Reqs
<1>1. ASSUME NEW h \in Tasks, lockq = <<h>>, Holds(h),
             \A q \in Tasks \ {h} : Outside(q)
      PROVE  /\ \A r \in Tasks : st[r] \notin {"off", "busy"} => cur[r] \in 1..nreq /\ r = h
             /\ Holder(h)
  BY <1>1 DEF TypeOK, Outside, Holds, Holder, States
<1>2. ASSUME NEW h \in Tasks, NEW w \in Tasks, h # w, lockq = <<h, w>>,
             Holds(h), st[w] = "ask", Holds(w), cur[h] < cur[w]
      PROVE  /\ \A r \in Tasks : cur[r] \in 1..nreq /\ (r = h \/ r = w)
             /\ Holder(h)
  BY <1>2 DEF TypeOK, Outside, Holds, Holder, States, Tasks
<1>3. 1..nreq \subseteq Reqs
  BY LinkConstants DEF TypeOK, Reqs
<1>4. CASE lockq = <<>> /\ \A r \in Tasks : Outside(r)
  BY <1>4, <1>3 DEF Outside
<1>5. CASE \E r \in Tasks :
              lockq = <<r>> /\ Holds(r) /\ \A q \in Tasks \ {r} : Outside(q)
  BY <1>1, <1>3, <1>5
<1>6. CASE \E r, q \in Tasks :
              /\ r # q /\ lockq = <<r, q>>
              /\ Holds(r) /\ st[q] = "ask" /\ Holds(q)
              /\ cur[r] < cur[q]
  BY <1>2, <1>3, <1>6
<1> QED
  BY <1>4, <1>5, <1>6 DEF Lock

\* A call that returns leaves the lock to the next in the queue.
LEMMA Returns ==
    ASSUME TypeOK, Lock, NEW r \in Tasks, st[r] \in {"armed", "wait", "late"},
           Return(r), nreq' = nreq
    PROVE  Lock' /\ lockq' \in Seq(Tasks)
<1>0. st' = [st EXCEPT ![r] = "busy"] /\ cur' = [cur EXCEPT ![r] = None] /\ lockq' = Tail(lockq)
  BY DEF Return
<1>1. st'[r] = "busy" /\ cur'[r] = None
      /\ \A q \in Tasks \ {r} : st'[q] = st[q] /\ cur'[q] = cur[q]
  BY <1>0 DEF TypeOK
<1>2. Holder(r)
  BY LockFacts
<1>3. CASE lockq = <<r>>
  <2>1. \A q \in Tasks \ {r} : Outside(q)
    BY <1>3, <1>2 DEF Lock
  <2>2. lockq' = <<>>
    BY <1>0, <1>3
  <2> QED
    BY <2>1, <2>2, <1>1 DEF Lock, Outside
<1>4. ASSUME NEW w \in Tasks, r # w, lockq = <<r, w>>, st[w] = "ask", Holds(w)
      PROVE  Lock' /\ lockq' \in Seq(Tasks)
  <2>1. lockq' = <<w>>
    BY <1>0, <1>4
  <2>2. Holds(w)' /\ \A q \in Tasks \ {w} : Outside(q)'
    BY <1>1, <1>4 DEF Holds, Outside, Tasks
  <2> QED
    BY <2>1, <2>2 DEF Lock
<1>5. lockq = <<r>> \/ \E w \in Tasks : r # w /\ lockq = <<r, w>> /\ st[w] = "ask" /\ Holds(w)
  BY <1>2 DEF Lock, Holder
<1> QED
  BY <1>3, <1>4, <1>5

LEMMA AskLocks ==
    ASSUME TypeOK, Lock, NEW r \in Tasks, Ask(r)
    PROVE  Lock' /\ lockq' \in Seq(Tasks)
<1>0. /\ st[r] = "busy" /\ nreq' = nreq + 1 /\ cur' = [cur EXCEPT ![r] = nreq + 1]
      /\ lockq' = Append(lockq, r) /\ st' = [st EXCEPT ![r] = "ask"]
  BY DEF Ask
<1>1. st'[r] = "ask" /\ cur'[r] = nreq + 1
      /\ \A q \in Tasks \ {r} : st'[q] = st[q] /\ cur'[q] = cur[q]
  BY <1>0, LinkConstants DEF TypeOK, Reqs
<1>2. nreq \in Nat
  BY LinkConstants DEF TypeOK
<1>3. Holds(r)'
  BY <1>0, <1>1, <1>2 DEF Holds
<1>4. CASE lockq = <<>> /\ \A q \in Tasks : Outside(q)
  <2>1. lockq' = <<r>>
    BY <1>0, <1>4
  <2> QED
    BY <2>1, <1>1, <1>3, <1>4 DEF Lock, Outside
<1>5. ASSUME NEW h \in Tasks, lockq = <<h>>, Holds(h), h # r
      PROVE  Lock' /\ lockq' \in Seq(Tasks)
  <2>1. lockq' = <<h, r>>
    <3>1. /\ lockq' \in Seq(Tasks) /\ Len(lockq') = 2
          /\ lockq'[1] = h /\ lockq'[2] = r
      BY <1>0, <1>5
    <3> QED
      BY <3>1
  <2>2. Holds(h)' /\ cur'[h] < cur'[r]
    BY <1>0, <1>1, <1>2, <1>5 DEF Holds
  <2> QED
    BY <2>1, <2>2, <1>1, <1>3, <1>5 DEF Lock
<1>6. CASE \E h \in Tasks : lockq = <<h>> /\ Holds(h)
  BY <1>0, <1>5, <1>6 DEF Holds
<1>7. ~ \E h, q \in Tasks : h # q /\ Holds(h) /\ Holds(q)
  BY <1>0 DEF Holds, Tasks
<1> QED
  BY <1>4, <1>6, <1>7 DEF Lock

\* Steps inside a call, and steps of a task outside one, leave the lock alone.
LEMMA LockFrame ==
    ASSUME TypeOK, Lock, UNCHANGED <<cur, lockq, nreq>>,
           \A q \in Tasks :
              \/ st'[q] = st[q]
              \/ st[q] \in {"off", "busy"} /\ st'[q] \in {"off", "busy"}
              \/ /\ Holder(q) /\ st[q] \in {"ask", "armed", "wait", "late"}
                 /\ st'[q] \in {"armed", "wait", "late"}
    PROVE  Lock'
<1>1. CASE lockq = <<>> /\ \A q \in Tasks : Outside(q)
  BY <1>1 DEF Lock, Outside, Holder
<1>2. ASSUME NEW h \in Tasks, lockq = <<h>>, Holds(h),
             \A q \in Tasks \ {h} : Outside(q)
      PROVE  Lock'
  <2>1. Holds(h)'
    BY <1>2 DEF Holds
  <2>2. \A q \in Tasks \ {h} : Outside(q)'
    BY <1>2 DEF Outside
  <2> QED
    BY <1>2, <2>1, <2>2 DEF Lock
<1>3. ASSUME NEW h \in Tasks, NEW w \in Tasks, h # w, lockq = <<h, w>>,
             Holds(h), st[w] = "ask", Holds(w), cur[h] < cur[w]
      PROVE  Lock'
  <2>1. Holds(h)' /\ cur'[h] < cur'[w]
    BY <1>3 DEF Holds
  <2>2. st'[w] = "ask" /\ Holds(w)'
    <3>1. ~Holder(w)
      BY <1>3 DEF Holder
    <3> QED
      BY <1>3, <3>1 DEF Holds
  <2> QED
    BY <1>3, <2>1, <2>2 DEF Lock
<1> QED
  BY <1>1, <1>2, <1>3 DEF Lock

----------------------------------------------------------------------------
(* The wire.                                                               *)

LEMMA WirePost ==
    ASSUME TypeOK, NEW x \in 0..MaxReqs, out' = Append(out, x), inn' = inn, Once,
           Wire(x) => x = 0
    PROVE  /\ \A m \in 0..MaxReqs : Wire(m)' => Wire(m) \/ m = x
           /\ Once'
           /\ out' \in Seq(0..MaxReqs)
<1>0. /\ out \in Seq(0..MaxReqs) /\ out' \in Seq(0..MaxReqs)
      /\ Len(out') = Len(out) + 1 /\ Len(out) \in Nat
      /\ \A i \in 1..Len(out) : out'[i] = out[i]
      /\ out'[Len(out) + 1] = x
  BY DEF TypeOK
<1>1. \A i \in 1..Len(out') : (i \in 1..Len(out) /\ out'[i] = out[i]) \/ (i = Len(out) + 1 /\ out'[i] = x)
  BY <1>0
<1>2. ASSUME NEW m \in 0..MaxReqs, Wire(m)' PROVE Wire(m) \/ m = x
  BY <1>1, <1>2 DEF Wire, Going, Coming
<1>3. /\ x # 0 => \A i \in 1..Len(out) : out[i] # x
      /\ x # 0 => \A i \in 1..Len(inn) : inn[i] # x
  BY DEF Wire, Going, Coming
<1>4. \A i, j \in 1..Len(out') : i # j /\ out'[i] = out'[j] => out'[i] = 0
  BY <1>1, <1>3 DEF Once
<1>5. \A i \in 1..Len(out'), j \in 1..Len(inn) : out'[i] = inn[j] => out'[i] = 0
  BY <1>1, <1>3 DEF Once
<1>6. Once'
  BY <1>4, <1>5 DEF Once
<1> QED
  BY <1>0, <1>2, <1>6

LEMMA ElementsOf ==
    ASSUME NEW S, NEW s \in Seq(S)
    PROVE  \A i \in 1..Len(s) : s[i] \in S
  OBVIOUS

LEMMA TailFacts ==
    ASSUME NEW S, NEW s \in Seq(S), s # <<>>
    PROVE  /\ Tail(s) \in Seq(S) /\ Head(s) \in S /\ Head(s) = s[1]
           /\ Len(s) \in Nat /\ Len(s) >= 1 /\ Len(Tail(s)) = Len(s) - 1
           /\ \A i \in 1..Len(Tail(s)) : i + 1 \in 2..Len(s) /\ Tail(s)[i] = s[i + 1]
  OBVIOUS

LEMMA WireRead ==
    ASSUME TypeOK, Once, inn # <<>>, inn' = Tail(inn), out' = out
    PROVE  /\ \A m \in 0..MaxReqs : Wire(m)' => Wire(m)
           /\ Control(Head(inn)) => Wire(Head(inn))
           /\ \A m \in Reqs : Wire(m)' => m # Head(inn)
           /\ Once'
           /\ inn' \in Seq(0..MaxReqs \cup {Deliver, Notice})
<1>0. /\ inn' \in Seq(0..MaxReqs \cup {Deliver, Notice})
      /\ Head(inn) = inn[1] /\ 1 \in 1..Len(inn)
      /\ \A i \in 1..Len(inn') : i + 1 \in 2..Len(inn) /\ inn'[i] = inn[i + 1]
  BY TailFacts DEF TypeOK
<1>1. Len(inn) \in Nat /\ Len(inn') \in Nat
  BY <1>0 DEF TypeOK
<1>2. \A i \in 1..Len(inn') : i + 1 \in 1..Len(inn) /\ i + 1 # 1
  BY <1>0, <1>1
<1>3. \A m \in 0..MaxReqs : Wire(m)' => Wire(m)
  BY <1>0, <1>2 DEF Wire, Going, Coming
<1>4. ASSUME NEW m \in Reqs, m = Head(inn) PROVE ~Wire(m)'
  <2>1. \A i \in 1..Len(inn') : inn'[i] # m
    BY <1>0, <1>2, <1>4 DEF Once
  <2>2. m # 0
    BY LinkConstants DEF Reqs
  <2>3. \A i \in 1..Len(out) : out[i] # m
    BY <1>0, <1>4, <2>2 DEF Once
  <2> QED
    BY <2>1, <2>3 DEF Wire, Going, Coming
<1>5. Control(Head(inn)) => Wire(Head(inn))
  BY <1>0 DEF Control, Wire, Coming
<1>6. Once'
  <2>1. \A i, j \in 1..Len(inn') : i # j /\ inn'[i] = inn'[j] => inn'[i] \notin Reqs
    <3> SUFFICES ASSUME NEW i \in 1..Len(inn'), NEW j \in 1..Len(inn'), i # j, inn'[i] = inn'[j]
                 PROVE  inn'[i] \notin Reqs
      OBVIOUS
    <3>1. i + 1 \in 1..Len(inn) /\ j + 1 \in 1..Len(inn) /\ i + 1 # j + 1
      BY <1>1, <1>2
    <3> QED
      BY <3>1, <1>0 DEF Once
  <2>2. \A i \in 1..Len(out), j \in 1..Len(inn') : out[i] = inn'[j] => out[i] = 0
    BY <1>0, <1>2 DEF Once
  <2> QED
    BY <2>1, <2>2 DEF Once
<1> QED
  BY <1>0, <1>3, <1>4, <1>5, <1>6

\* The relay's reply is the message it took; a pushed frame is no reply.
LEMMA WireServe ==
    ASSUME TypeOK, Once, Serve
    PROVE  /\ \A m \in 0..MaxReqs : Wire(m)' => Wire(m)
           /\ Once'
           /\ out' \in Seq(0..MaxReqs)
           /\ inn' \in Seq(0..MaxReqs \cup {Deliver, Notice})
<1>0. /\ out # <<>> /\ out' = Tail(out) /\ (inn' = inn \/ inn' = Append(inn, Head(out)))
  BY DEF Serve
<1>1. /\ out' \in Seq(0..MaxReqs)
      /\ Head(out) = out[1] /\ 1 \in 1..Len(out) /\ Head(out) \in 0..MaxReqs
      /\ \A i \in 1..Len(out') : i + 1 \in 2..Len(out) /\ out'[i] = out[i + 1]
  <2>1. out \in Seq(0..MaxReqs)
    BY DEF TypeOK
  <2>2. /\ Tail(out) \in Seq(0..MaxReqs) /\ Head(out) \in 0..MaxReqs /\ Head(out) = out[1]
        /\ Len(out) \in Nat /\ Len(out) >= 1
        /\ \A i \in 1..Len(Tail(out)) : i + 1 \in 2..Len(out) /\ Tail(out)[i] = out[i + 1]
    BY <1>0, <2>1, TailFacts
  <2> QED
    BY <1>0, <2>2
<1>2. Len(out) \in Nat /\ Len(out') \in Nat /\ Len(inn) \in Nat
  BY <1>1 DEF TypeOK
<1>3. \A i \in 1..Len(out') : i + 1 \in 1..Len(out) /\ i + 1 # 1
  BY <1>1, <1>2
<1>4. \A i, j \in 1..Len(out') : i # j /\ out'[i] = out'[j] => out'[i] = 0
  <2> SUFFICES ASSUME NEW i \in 1..Len(out'), NEW j \in 1..Len(out'), i # j, out'[i] = out'[j]
               PROVE  out'[i] = 0
    OBVIOUS
  <2>1. i + 1 \in 1..Len(out) /\ j + 1 \in 1..Len(out) /\ i + 1 # j + 1
    BY <1>2, <1>3
  <2> QED
    BY <2>1, <1>1 DEF Once
<1>5. CASE inn' = inn
  <2>1. \A m \in 0..MaxReqs : Wire(m)' => Wire(m)
    BY <1>1, <1>3, <1>5 DEF Wire, Going, Coming
  <2>2. \A i \in 1..Len(out'), j \in 1..Len(inn) : out'[i] = inn[j] => out'[i] = 0
    BY <1>1, <1>3 DEF Once
  <2>3. Once'
    BY <1>4, <1>5, <2>2 DEF Once
  <2> QED
    BY <1>1, <1>5, <2>1, <2>3 DEF TypeOK
<1>6. CASE inn' = Append(inn, Head(out))
  <2>1. /\ inn' \in Seq(0..MaxReqs \cup {Deliver, Notice})
        /\ \A j \in 1..Len(inn') :
              (j \in 1..Len(inn) /\ inn'[j] = inn[j]) \/ (j = Len(inn) + 1 /\ inn'[j] = out[1])
    <3>1. inn \in Seq(0..MaxReqs \cup {Deliver, Notice})
      BY DEF TypeOK
    <3>2. Head(out) \in 0..MaxReqs \cup {Deliver, Notice}
      BY <1>1
    <3> QED
      BY <1>1, <1>2, <1>6, <3>1, <3>2
  <2>2. \A m \in 0..MaxReqs : Wire(m)' => Wire(m)
    BY <1>1, <1>3, <2>1 DEF Wire, Going, Coming
  <2>3. out[1] \in Reqs => \A j \in 1..Len(inn) : inn[j] # out[1]
    BY <1>1, LinkConstants DEF Once, Reqs
  <2>4. \A i, j \in 1..Len(inn') : i # j /\ inn'[i] = inn'[j] => inn'[i] \notin Reqs
    BY <2>1, <2>3 DEF Once
  <2>5. \A i \in 1..Len(out'), j \in 1..Len(inn') : out'[i] = inn'[j] => out'[i] = 0
    <3> SUFFICES ASSUME NEW i \in 1..Len(out'), NEW j \in 1..Len(inn'), out'[i] = inn'[j]
                 PROVE  out'[i] = 0
      OBVIOUS
    <3>1. i + 1 \in 1..Len(out) /\ i + 1 # 1 /\ out'[i] = out[i + 1]
      BY <1>1, <1>3
    <3> QED
      BY <3>1, <2>1, <1>1 DEF Once
  <2>6. Once'
    BY <1>4, <2>4, <2>5 DEF Once
  <2> QED
    BY <1>1, <2>1, <2>2, <2>6
<1> QED
  BY <1>0, <1>5, <1>6

LEMMA WirePush ==
    ASSUME TypeOK, Once, NEW x \in {Deliver, Notice}, inn' = Append(inn, x), out' = out
    PROVE  /\ \A m \in 0..MaxReqs : Wire(m)' => Wire(m)
           /\ Once'
           /\ inn' \in Seq(0..MaxReqs \cup {Deliver, Notice})
<1>0. x \notin 0..MaxReqs
  BY LinkConstants
<1>1. /\ inn' \in Seq(0..MaxReqs \cup {Deliver, Notice}) /\ Len(inn) \in Nat
      /\ \A j \in 1..Len(inn') :
            (j \in 1..Len(inn) /\ inn'[j] = inn[j]) \/ (j = Len(inn) + 1 /\ inn'[j] = x)
  <2>1. inn \in Seq(0..MaxReqs \cup {Deliver, Notice}) /\ x \in 0..MaxReqs \cup {Deliver, Notice}
    BY DEF TypeOK
  <2> QED
    BY <2>1
<1>2. \A m \in 0..MaxReqs : Wire(m)' => Wire(m)
  BY <1>0, <1>1 DEF Wire, Going, Coming
<1>3. x \notin Reqs
  BY <1>0, LinkConstants DEF Reqs
<1>4. \A i, j \in 1..Len(inn') : i # j /\ inn'[i] = inn'[j] => inn'[i] \notin Reqs
  BY <1>1, <1>3 DEF Once
<1>5. \A i \in 1..Len(out) : out[i] \in 0..MaxReqs
  <2>1. out \in Seq(0..MaxReqs)
    BY DEF TypeOK
  <2> QED
    BY <2>1, ElementsOf
<1>6. \A i \in 1..Len(out), j \in 1..Len(inn') : out[i] = inn'[j] => out[i] = 0
  BY <1>0, <1>1, <1>5 DEF Once
<1> QED
  BY <1>1, <1>2, <1>4, <1>6 DEF Once

----------------------------------------------------------------------------
(* The calls, the slot and the answers.                                    *)

Core ==
    /\ Past /\ SlotTop /\ Unresolved /\ ClosedEnds /\ Expected
    /\ WaiterInSlot /\ WrongReplyHasCause

\* The constants that stand for no request are no numbers.
LEMMA Apart ==
    /\ None \notin 0..MaxReqs /\ Closed \notin 0..MaxReqs
    /\ Deliver \notin 0..MaxReqs /\ Notice \notin 0..MaxReqs
    /\ Reqs \subseteq 0..MaxReqs /\ 0 \notin Reqs
    /\ \A n \in Reqs : n \in Nat /\ n >= 1
    /\ \A m \in 0..MaxReqs : m \in Nat /\ (m # 0 => m \in Reqs)
    /\ None # Closed
  BY LinkConstants DEF Reqs

\* Steps that touch neither a call, nor the slot, nor an answer.
LEMMA QuietStep ==
    ASSUME TypeOK, Lock, Core,
           UNCHANGED <<cur, slot, answer, nreq, nsend, overdue>>,
           reader' => reader,
           \A q \in Tasks : st'[q] = st[q] \/ (st[q] \in {"off", "busy"} /\ st'[q] \in {"off", "busy"}),
           \A m \in 0..MaxReqs : Wire(m)' => Wire(m)
    PROVE  Core'
<1>0. \A q \in Tasks : st'[q] \in {"ask", "armed", "wait", "late"} => st'[q] = st[q]
  OBVIOUS
<1>0a. \A q \in Tasks : st[q] \in {"ask", "armed", "wait", "late"} => st'[q] = st[q]
  OBVIOUS
<1>1. Past'
  BY <1>0 DEF Core, Past
<1>2. SlotTop'
  BY <1>0 DEF Core, SlotTop
<1>3. Unresolved'
  BY <1>0 DEF Core, Unresolved
<1>4. ClosedEnds'
  BY DEF Core, ClosedEnds
<1>5. Expected'
  BY <1>0a DEF Core, Expected, Cause, Awaited
<1>6. WaiterInSlot'
  BY <1>0 DEF Core, WaiterInSlot
<1>7. WrongReplyHasCause'
  BY DEF Core, WrongReplyHasCause
<1> QED
  BY <1>1, <1>2, <1>3, <1>4, <1>5, <1>6, <1>7 DEF Core

LEMMA WireSame ==
    ASSUME UNCHANGED <<out, inn>>
    PROVE  (\A m \in 0..MaxReqs : Wire(m)' <=> Wire(m)) /\ (Once => Once')
  BY DEF Wire, Going, Coming, Once

LEMMA AskCore ==
    ASSUME TypeOK, Lock, Core, NEW r \in Tasks, Ask(r)
    PROVE  Core'
<1>0. /\ st[r] = "busy" /\ nreq' = nreq + 1 /\ nreq < MaxReqs /\ cur' = [cur EXCEPT ![r] = nreq + 1]
      /\ st' = [st EXCEPT ![r] = "ask"]
      /\ UNCHANGED <<slot, answer, out, inn, reader, nsend, overdue>>
  BY DEF Ask, link, wire
<1>1. st'[r] = "ask" /\ cur'[r] = nreq + 1
      /\ \A q \in Tasks \ {r} : st'[q] = st[q] /\ cur'[q] = cur[q]
  BY <1>0 DEF TypeOK
<1>2. nreq \in Nat /\ nreq + 1 \in Reqs
  BY <1>0, LinkConstants DEF TypeOK, Reqs
<1>3. \A m \in 0..MaxReqs : Wire(m)' <=> Wire(m)
  BY <1>0, WireSame
<1>4. Past'
  BY <1>0, <1>1, <1>2, <1>3, Apart DEF Core, Past
<1>5. SlotTop'
  <2> SUFFICES ASSUME slot # None PROVE SlotTop'
    BY <1>0 DEF SlotTop
  <2>1. slot \in Nat /\ slot <= nreq /\ slot \in Reqs
    BY Apart DEF TypeOK, Core, SlotTop
  <2> QED
    BY <1>0, <1>1, <1>2, <1>3, <2>1 DEF Core, SlotTop
<1>6. Unresolved'
  BY <1>0, <1>1, <1>2, Apart DEF Core, Unresolved
<1>7. ClosedEnds'
  BY <1>0 DEF Core, ClosedEnds
<1>8. Expected'
  BY <1>0, <1>1, <1>3 DEF Core, Expected, Cause, Awaited
<1>9. WaiterInSlot'
  BY <1>0, <1>1 DEF Core, WaiterInSlot
<1>10. WrongReplyHasCause'
  BY <1>0 DEF Core, WrongReplyHasCause
<1> QED
  BY <1>4, <1>5, <1>6, <1>7, <1>8, <1>9, <1>10 DEF Core

LEMMA ArmCore ==
    ASSUME TypeOK, Lock, Core, NEW r \in Tasks, Arm(r)
    PROVE  Core'
<1>0. /\ st[r] = "ask" /\ slot' = cur[r] /\ st' = [st EXCEPT ![r] = "armed"]
      /\ Holder(r)
      /\ UNCHANGED <<cur, answer, out, inn, reader, nreq, nsend, overdue>>
  BY DEF Arm, wire, bounds
<1>1. st'[r] = "armed" /\ \A q \in Tasks \ {r} : st'[q] = st[q]
  BY <1>0 DEF TypeOK
<1>2. cur[r] \in 1..nreq /\ cur[r] \in Reqs /\ answer[cur[r]] = None
  BY <1>0, LockFacts DEF Core, Unresolved
<1>3. \A m \in 0..MaxReqs : Wire(m)' <=> Wire(m)
  BY <1>0, WireSame
<1>4. \A q \in Tasks \ {r} : st[q] \notin {"armed", "wait", "late"}
  BY <1>0, LockFacts DEF Holder
<1>5. \A q \in Tasks \ {r} : st[q] = "ask" => cur[r] < cur[q]
  BY <1>0 DEF Lock, Holder, Outside, Tasks
<1>6. Past'
  BY <1>0, <1>1, <1>3 DEF Core, Past
<1>7. SlotTop'
  <2>1. \A m \in 0..MaxReqs : Wire(m) => m < cur[r]
    BY <1>0 DEF Core, Past
  <2>2. \A m \in 0..MaxReqs : Wire(m)' => m <= slot'
    BY <1>0, <1>2, <1>3, <2>1, Apart
  <2> QED
    BY <1>0, <1>1, <1>2, <1>4, <1>5, <2>2 DEF SlotTop
<1>8. Unresolved'
  <2>1. answer[cur[r]] # cur[r]
    BY <1>2, Apart
  <2> QED
    BY <1>0, <1>1, <2>1 DEF Core, Unresolved
<1>9. ClosedEnds'
  BY <1>0 DEF Core, ClosedEnds
<1>10. Expected'
  BY <1>0, <1>1, <1>3 DEF Core, Expected, Cause, Awaited
<1>11. WaiterInSlot'
  BY <1>0, <1>1, <1>4 DEF WaiterInSlot
<1>12. WrongReplyHasCause'
  BY <1>0 DEF Core, WrongReplyHasCause
<1> QED
  BY <1>6, <1>7, <1>8, <1>9, <1>10, <1>11, <1>12 DEF Core

\* The message of the call goes out, behind everything on the wire.  An armed
\* call whose oneshot is resolved already has a wrong answer or none to come.
LEMMA PostSends ==
    ASSUME TypeOK, Lock, Core, Once, NEW r \in Tasks, Post(r), writer
    PROVE  Core' /\ Once' /\ out' \in Seq(0..MaxReqs)
<1>0. /\ st[r] = "armed" /\ out' = Append(out, cur[r]) /\ st' = [st EXCEPT ![r] = "wait"]
      /\ UNCHANGED <<cur, lockq, slot, answer, inn, reader, nreq, nsend, overdue>>
  BY DEF Post, link, bounds
<1>1. st'[r] = "wait" /\ \A q \in Tasks \ {r} : st'[q] = st[q]
  BY <1>0 DEF TypeOK
<1>2. cur[r] \in 1..nreq /\ cur[r] \in Reqs /\ cur[r] \in 0..MaxReqs
  BY <1>0, LockFacts, Apart
<1>3. \A q \in Tasks \ {r} : st[q] \notin {"armed", "wait", "late"}
  BY <1>0, LockFacts
<1>4. \A q \in Tasks \ {r} : st[q] = "ask" => cur[r] < cur[q]
  BY <1>0, LockFacts
<1>5. \A m \in 0..MaxReqs : Wire(m) => m < cur[r]
  BY <1>0 DEF Core, Past
<1>6. ~Wire(cur[r])
  BY <1>2, <1>5, Apart
<1>7. /\ \A m \in 0..MaxReqs : Wire(m)' => Wire(m) \/ m = cur[r]
      /\ Once' /\ out' \in Seq(0..MaxReqs)
  BY <1>0, <1>2, <1>6, WirePost
<1>8. nreq \in Nat
  BY LinkConstants DEF TypeOK
<1>9. Past'
  <2> SUFFICES ASSUME NEW m \in 0..MaxReqs, Wire(m)'
               PROVE  /\ m <= nreq
                      /\ \A q \in Tasks : st'[q] \in {"ask", "armed"} => m < cur[q]
                      /\ \A q \in Tasks : st'[q] \in {"wait", "late"} => m <= cur[q]
    BY <1>0 DEF Past
  <2>1. CASE Wire(m)
    <3>1. m < cur[r] /\ m <= nreq
      BY <2>1, <1>5 DEF Core, Past
    <3>2. m <= cur[r]
      BY <3>1, <1>2, Apart
    <3> QED
      BY <2>1, <3>1, <3>2, <1>0, <1>1 DEF Core, Past
  <2>2. CASE m = cur[r]
    BY <2>2, <1>1, <1>2, <1>3, <1>4, <1>8
  <2> QED
    BY <2>1, <2>2, <1>7
<1>10. SlotTop'
  <2> SUFFICES ASSUME slot # None PROVE SlotTop'
    BY <1>0 DEF SlotTop
  <2>1. slot = cur[r]
    BY <1>0 DEF Core, SlotTop
  <2>2. \A m \in 0..MaxReqs : Wire(m)' => m <= slot'
    BY <2>1, <1>0, <1>2, <1>5, <1>7, Apart
  <2> QED
    BY <2>1, <2>2, <1>0, <1>1, <1>3 DEF Core, SlotTop
<1>11. Unresolved'
  BY <1>0, <1>1 DEF Core, Unresolved
<1>12. ClosedEnds'
  BY <1>0 DEF Core, ClosedEnds
<1>13. Expected'
  <2>1. \A m \in 0..MaxReqs : Cause(m)' <=> Cause(m)
    BY <1>0 DEF Cause
  <2>2. Cause(cur[r]) \/ answer[cur[r]] = None
    <3> SUFFICES ASSUME answer[cur[r]] # None PROVE Cause(cur[r])
      OBVIOUS
    <3>1. answer[cur[r]] # cur[r]
      BY <1>0 DEF Core, Unresolved
    <3>2. CASE answer[cur[r]] = Closed
      BY <1>2, <3>2 DEF Core, ClosedEnds, Cause
    <3>3. CASE answer[cur[r]] \in 0..MaxReqs
      <4>1. nsend > 0 \/ \E m \in overdue : m < cur[r]
        BY <1>2, <3>1, <3>3 DEF Core, WrongReplyHasCause, Control
      <4>2. \A m \in overdue : m < cur[r] => m <= cur[r]
        BY <1>2, Apart DEF TypeOK
      <4> QED
        BY <4>1, <4>2 DEF Cause
    <3> QED
      BY <1>2, <3>2, <3>3 DEF TypeOK
  <2>3. Cause(cur[r])' \/ Awaited(cur[r])'
    <3>1. PICK n \in 0..MaxReqs : n = cur[r]
      BY <1>2
    <3>2. Cause(n)' \/ Awaited(n)'
      BY <3>1, <2>1, <2>2, <1>0, <1>1, <1>2 DEF Awaited
    <3> QED
      BY <3>1, <3>2, <1>0 DEF Cause, Awaited
  <2>4. \A m \in 0..MaxReqs : Wire(m) => Cause(m)' \/ Awaited(m)'
    BY <2>1, <1>0, <1>1 DEF Core, Expected, Awaited
  <2> SUFFICES ASSUME NEW m \in 0..MaxReqs, Wire(m)' PROVE Cause(m)' \/ Awaited(m)'
    BY DEF Expected
  <2>5. CASE Wire(m)
    BY <2>4, <2>5
  <2>6. CASE m = cur[r]
    BY <2>3, <2>6, <1>0 DEF Cause, Awaited
  <2> QED
    BY <2>5, <2>6, <1>7
<1>14. WaiterInSlot'
  BY <1>0, <1>1 DEF Core, WaiterInSlot
<1>15. WrongReplyHasCause'
  BY <1>0 DEF Core, WrongReplyHasCause
<1> QED
  BY <1>7, <1>9, <1>10, <1>11, <1>12, <1>13, <1>14, <1>15 DEF Core

\* A call that returns with an answer, or with an error where the writer is gone.
LEMMA ReturnCore ==
    ASSUME TypeOK, Lock, Core, NEW r \in Tasks,
           (st[r] = "wait" /\ answer[cur[r]] # None) \/ st[r] \in {"armed", "late"},
           st[r] = "late" => slot' = None,
           st[r] # "late" => slot' = slot,
           Return(r), UNCHANGED <<answer, out, inn, reader, nreq, nsend, overdue>>
    PROVE  Core'
<1>1. /\ st'[r] = "busy" /\ cur'[r] = None
      /\ \A q \in Tasks \ {r} : st'[q] = st[q] /\ cur'[q] = cur[q]
  BY DEF TypeOK, Return
<1>2. slot' = slot \/ slot' = None
  BY DEF States
<1>3. \A m \in 0..MaxReqs : Wire(m)' <=> Wire(m)
  BY WireSame
<1>4. Past'
  BY <1>1, <1>3 DEF Core, Past
<1>5. SlotTop'
  BY <1>1, <1>2, <1>3 DEF Core, SlotTop
<1>6. Unresolved'
  BY <1>1 DEF Core, Unresolved
<1>7. ClosedEnds'
  BY DEF Core, ClosedEnds
<1>8. Expected'
  <2>1. \A q \in Tasks : st[q] = "wait" /\ answer[cur[q]] = None => q # r
    OBVIOUS
  <2> QED
    BY <1>1, <1>3, <2>1 DEF Core, Expected, Cause, Awaited
<1>9. WaiterInSlot'
  <2>1. \A q \in Tasks \ {r} : st[q] \notin {"armed", "wait"}
    BY LockFacts
  <2> QED
    BY <1>1, <2>1 DEF WaiterInSlot
<1>10. WrongReplyHasCause'
  BY DEF Core, WrongReplyHasCause
<1> QED
  BY <1>4, <1>5, <1>6, <1>7, <1>8, <1>9, <1>10 DEF Core

LEMMA TimeoutCore ==
    ASSUME TypeOK, Lock, Core, NEW r \in Tasks, Timeout(r)
    PROVE  Core' /\ overdue' \subseteq Reqs
<1>0. /\ st[r] = "wait" /\ st' = [st EXCEPT ![r] = "late"] /\ overdue' = overdue \cup {cur[r]}
      /\ UNCHANGED <<cur, slot, answer, out, inn, reader, nreq, nsend>>
  BY DEF Timeout, link, wire, bounds
<1>1. st'[r] = "late" /\ \A q \in Tasks \ {r} : st'[q] = st[q]
  BY <1>0 DEF TypeOK
<1>2. cur[r] \in Reqs
  BY <1>0, LockFacts
<1>3. \A m \in 0..MaxReqs : Wire(m)' <=> Wire(m)
  BY <1>0, WireSame
<1>4. Past'
  BY <1>0, <1>1, <1>3 DEF Core, Past
<1>5. SlotTop'
  BY <1>0, <1>1, <1>3 DEF Core, SlotTop
<1>6. Unresolved'
  BY <1>0, <1>1 DEF Core, Unresolved
<1>7. ClosedEnds'
  BY <1>0 DEF Core, ClosedEnds
<1>8. Expected'
  <2> SUFFICES ASSUME NEW m \in 0..MaxReqs, Wire(m) PROVE Cause(m)' \/ Awaited(m)'
    BY <1>3 DEF Expected
  <2>1. CASE Cause(m)
    BY <2>1, <1>0 DEF Cause
  <2>2. CASE m = cur[r]
    <3>1. m \in overdue' /\ m <= m
      BY <2>2, <1>0, Apart
    <3> QED
      BY <3>1 DEF Cause
  <2>3. CASE Awaited(m) /\ m # cur[r]
    BY <2>3, <1>0, <1>1 DEF Awaited
  <2> QED
    BY <2>1, <2>2, <2>3 DEF Core, Expected
<1>9. WaiterInSlot'
  BY <1>0, <1>1 DEF Core, WaiterInSlot
<1>10. WrongReplyHasCause'
  BY <1>0 DEF Core, WrongReplyHasCause
<1> QED
  BY <1>0, <1>2, <1>4, <1>5, <1>6, <1>7, <1>8, <1>9, <1>10 DEF Core, TypeOK

LEMMA SendCore ==
    ASSUME TypeOK, Lock, Core, Once, NEW r \in Tasks, Send(r)
    PROVE  Core' /\ Once' /\ out' \in Seq(0..MaxReqs)
<1>0. /\ nsend' = nsend + 1 /\ out' = Append(out, 0)
      /\ UNCHANGED <<st, cur, slot, answer, inn, reader, nreq, overdue>>
  BY DEF Send, tasks, link
<1>1. nsend' > 0 /\ nreq \in Nat /\ 0 \in 0..MaxReqs
  BY <1>0, LinkConstants DEF TypeOK
<1>2. /\ \A m \in 0..MaxReqs : Wire(m)' => Wire(m) \/ m = 0
      /\ Once' /\ out' \in Seq(0..MaxReqs)
  BY <1>0, <1>1, WirePost
<1>3. \A q \in Tasks : st[q] \notin {"off", "busy"} => 0 < cur[q] /\ 0 <= cur[q]
  BY LockFacts, Apart
<1>4. Past'
  <2>1. \A q \in Tasks : st[q] \in {"ask", "armed", "wait", "late"} => 0 < cur[q] /\ 0 <= cur[q]
    BY <1>3
  <2>2. 0 <= nreq
    BY <1>1
  <2> QED
    BY <1>0, <1>2, <2>1, <2>2 DEF Core, Past
<1>5. SlotTop'
  <2> SUFFICES ASSUME slot # None PROVE SlotTop'
    BY <1>0 DEF SlotTop
  <2>1. 0 <= slot
    BY Apart DEF TypeOK
  <2> QED
    BY <1>0, <1>2, <2>1 DEF Core, SlotTop
<1>6. Unresolved'
  BY <1>0 DEF Core, Unresolved
<1>7. ClosedEnds'
  BY <1>0 DEF Core, ClosedEnds
<1>8. Expected'
  BY <1>1 DEF Expected, Cause
<1>9. WaiterInSlot'
  BY <1>0 DEF Core, WaiterInSlot
<1>10. WrongReplyHasCause'
  BY <1>0, <1>1 DEF Core, WrongReplyHasCause
<1> QED
  BY <1>2, <1>4, <1>5, <1>6, <1>7, <1>8, <1>9, <1>10 DEF Core

\* The reader ends and drops the oneshot in the slot.
LEMMA StopCore ==
    ASSUME TypeOK, Lock, Core, Stop, UNCHANGED <<st, cur, nreq, nsend, overdue>>,
           \A m \in 0..MaxReqs : Wire(m)' => Wire(m)
    PROVE  Core' /\ answer' \in [Reqs -> 0..MaxReqs \cup {None, Closed}]
<1>0. slot' = None /\ ~reader'
  BY DEF Stop
<1>1. \A n \in Reqs : answer'[n] = IF n = slot THEN Closed ELSE answer[n]
  BY Apart DEF Stop, TypeOK
<1>2. answer' \in [Reqs -> 0..MaxReqs \cup {None, Closed}]
  BY DEF Stop, TypeOK
<1>3. \A q \in Tasks : st[q] \in {"ask", "armed", "wait", "late"} => cur[q] \in Reqs
  BY LockFacts
<1>4. Past'
  BY DEF Core, Past
<1>5. SlotTop'
  BY <1>0 DEF SlotTop
<1>6. Unresolved'
  <2>1. \A n \in Reqs : n > nreq => n # slot
    <3>1. slot \in Reqs => slot <= nreq
      BY Apart DEF Core, SlotTop
    <3> QED
      BY <3>1, Apart, LinkConstants DEF TypeOK
  <2>2. \A q \in Tasks : st[q] = "ask" => cur[q] # slot
    <3>1. ASSUME NEW q \in Tasks, st[q] = "ask", slot # None PROVE slot < cur[q]
      BY <3>1 DEF Core, SlotTop
    <3>2. slot \in Reqs \/ slot = None
      BY DEF TypeOK
    <3>3. ASSUME NEW q \in Tasks, st[q] = "ask" PROVE cur[q] # slot
      <4>1. cur[q] \in Reqs
        BY <3>3, <1>3
      <4>2. CASE slot = None
        BY <4>1, <4>2, Apart
      <4>3. CASE slot \in Reqs
        BY <3>1, <3>3, <4>1, <4>3, Apart
      <4> QED
        BY <3>2, <4>2, <4>3
    <3> QED
      BY <3>3
  <2> QED
    BY <2>1, <2>2, <1>1, <1>3, Apart DEF Core, Unresolved
<1>7. ClosedEnds'
  BY <1>0 DEF ClosedEnds
<1>8. Expected'
  BY <1>0 DEF Expected, Cause
<1>9. WaiterInSlot'
  <2> SUFFICES ASSUME NEW q \in Tasks, st[q] \in {"armed", "wait"}, answer'[cur[q]] = None
               PROVE  FALSE
    BY DEF WaiterInSlot
  <2>1. cur[q] \in Reqs /\ cur[q] # slot /\ answer[cur[q]] = None
    BY <1>1, <1>3, Apart
  <2> QED
    BY <2>1 DEF Core, WaiterInSlot
<1>10. WrongReplyHasCause'
  BY <1>1, Apart DEF Core, WrongReplyHasCause, Control
<1> QED
  BY <1>2, <1>4, <1>5, <1>6, <1>7, <1>8, <1>9, <1>10 DEF Core

\* A control frame goes to whoever is in the slot.
LEMMA ReadControlCore ==
    ASSUME TypeOK, Lock, Core, Once, ReadControl
    PROVE  /\ Core' /\ Once'
           /\ answer' \in [Reqs -> 0..MaxReqs \cup {None, Closed}]
           /\ inn' \in Seq(0..MaxReqs \cup {Deliver, Notice})
<1>0. PICK h \in 0..MaxReqs : h = Head(inn)
  BY DEF ReadControl, Control
<1>1. /\ reader /\ inn # <<>> /\ inn' = Tail(inn) /\ slot' = None /\ out' = out
      /\ answer' = IF slot = None THEN answer ELSE [answer EXCEPT ![slot] = h]
      /\ UNCHANGED <<st, cur, reader, nreq, nsend, overdue>>
  BY <1>0 DEF ReadControl, tasks, bounds
<1>2. /\ \A m \in 0..MaxReqs : Wire(m)' => Wire(m)
      /\ Wire(h)
      /\ \A m \in Reqs : Wire(m)' => m # h
      /\ Once' /\ inn' \in Seq(0..MaxReqs \cup {Deliver, Notice})
  BY <1>0, <1>1, WireRead DEF Control
<1>3. \A n \in Reqs : answer'[n] = IF n = slot THEN h ELSE answer[n]
  BY <1>1, Apart DEF TypeOK
<1>4. answer' \in [Reqs -> 0..MaxReqs \cup {None, Closed}]
  BY <1>1 DEF TypeOK
<1>5. \A q \in Tasks : st[q] \in {"ask", "armed", "wait", "late"} => cur[q] \in Reqs
  BY LockFacts
\* What comes for nobody who waits has a cause, and goes to an older slot never.
<1>6. slot \in Reqs => h <= slot
  BY <1>2, Apart DEF Core, SlotTop
<1>7. ASSUME slot \in Reqs, h # slot
      PROVE  h < slot /\ (nsend > 0 \/ \E k \in overdue : k <= h)
  <2>1. ~Awaited(h)
    BY <1>7, Apart DEF Awaited, Core, WaiterInSlot
  <2>2. Cause(h)
    BY <2>1, <1>2 DEF Core, Expected
  <2> QED
    BY <2>2, <1>1, <1>6, <1>7, Apart DEF Cause
<1>8. Past'
  BY <1>1, <1>2 DEF Core, Past
<1>9. SlotTop'
  BY <1>1 DEF SlotTop
<1>10. Unresolved'
  <2>1. \A n \in Reqs : n > nreq => n # slot
    <3>1. slot \in Reqs => slot <= nreq
      BY Apart DEF Core, SlotTop
    <3> QED
      BY <3>1, Apart, LinkConstants DEF TypeOK
  <2>2. \A q \in Tasks : st[q] = "ask" => cur[q] # slot
    <3>1. ASSUME NEW q \in Tasks, st[q] = "ask", slot # None PROVE slot < cur[q]
      BY <3>1 DEF Core, SlotTop
    <3>2. slot \in Reqs \/ slot = None
      BY DEF TypeOK
    <3>3. ASSUME NEW q \in Tasks, st[q] = "ask" PROVE cur[q] # slot
      <4>1. cur[q] \in Reqs
        BY <3>3, <1>5
      <4>2. CASE slot = None
        BY <4>1, <4>2, Apart
      <4>3. CASE slot \in Reqs
        BY <3>1, <3>3, <4>1, <4>3, Apart
      <4> QED
        BY <3>2, <4>2, <4>3
    <3> QED
      BY <3>3
  <2>3. \A q \in Tasks : st[q] = "armed" => h # cur[q]
    <3>1. ASSUME NEW q \in Tasks, st[q] = "armed" PROVE h < cur[q]
      BY <3>1, <1>2 DEF Core, Past
    <3> QED
      BY <3>1, <1>5, Apart
  <2> QED
    BY <2>1, <2>2, <2>3, <1>1, <1>3, <1>5 DEF Core, Unresolved
<1>11. ClosedEnds'
  BY <1>1, <1>3, Apart DEF Core, ClosedEnds
<1>12. Expected'
  <2> SUFFICES ASSUME NEW m \in 0..MaxReqs, Wire(m)' PROVE Cause(m)' \/ Awaited(m)'
    BY DEF Expected
  <2>1. Cause(m)' <=> Cause(m)
    BY <1>1 DEF Cause
  <2>2. CASE Awaited(m) /\ m # slot
    BY <2>2, <1>1, <1>3 DEF Awaited
  <2>3. CASE Awaited(m) /\ m = slot
    <3>1. m \in Reqs /\ h # m
      BY <2>3, <1>2 DEF Awaited
    <3>2. h < m /\ (nsend > 0 \/ \E k \in overdue : k <= h)
      BY <3>1, <2>3, <1>7
    <3>3. \A k \in overdue : k <= h => k <= m
      BY <3>1, <3>2, Apart DEF TypeOK
    <3> QED
      BY <3>2, <3>3, <2>1 DEF Cause
  <2> QED
    BY <2>1, <2>2, <2>3, <1>2 DEF Core, Expected
<1>13. WaiterInSlot'
  <2> SUFFICES ASSUME NEW q \in Tasks, st[q] \in {"armed", "wait"}, answer'[cur[q]] = None
               PROVE  FALSE
    BY <1>1 DEF WaiterInSlot
  <2>1. cur[q] \in Reqs /\ cur[q] # slot /\ answer[cur[q]] = None
    BY <1>3, <1>5, Apart
  <2> QED
    BY <2>1 DEF Core, WaiterInSlot
<1>14. WrongReplyHasCause'
  <2> SUFFICES ASSUME NEW n \in Reqs, Control(answer'[n]), answer'[n] # n
               PROVE  answer'[n] < n /\ (nsend > 0 \/ \E m \in overdue : m < n)
    BY <1>1 DEF WrongReplyHasCause
  <2>1. CASE n # slot
    BY <2>1, <1>3 DEF Core, WrongReplyHasCause
  <2>2. CASE n = slot
    <3>1. answer'[n] = h /\ h < n /\ (nsend > 0 \/ \E k \in overdue : k <= h)
      BY <2>2, <1>3, <1>7
    <3>2. \A k \in overdue : k <= h => k < n
      BY <3>1, Apart DEF TypeOK
    <3> QED
      BY <3>1, <3>2
  <2> QED
    BY <2>1, <2>2
<1> QED
  BY <1>2, <1>4, <1>8, <1>9, <1>10, <1>11, <1>12, <1>13, <1>14 DEF Core

----------------------------------------------------------------------------
(* The specification.                                                      *)

Inv == TypeOK /\ Lock /\ Once /\ Core

LEMMA InitInv == Init => Inv
<1> SUFFICES ASSUME Init PROVE Inv
  OBVIOUS
<1>1. TypeOK
  BY LinkConstants DEF Init, TypeOK, States, Tasks, Reqs
<1>2. Lock
  BY DEF Init, Lock, Outside
<1>3. Once /\ \A m \in 0..MaxReqs : ~Wire(m)
  BY DEF Init, Once, Wire, Going, Coming
<1>4. \A q \in Tasks : st[q] \in {"off", "busy"}
  BY DEF Init
<1>5. Past /\ SlotTop /\ Unresolved /\ Expected
  BY <1>3, <1>4 DEF Init, Past, SlotTop, Unresolved, Expected
<1>6. ClosedEnds /\ WaiterInSlot /\ WrongReplyHasCause
  BY <1>4, Apart DEF Init, ClosedEnds, WaiterInSlot, WrongReplyHasCause, Control
<1> QED
  BY <1>1, <1>2, <1>3, <1>5, <1>6 DEF Inv, Core

\* The steps of one task.
LEMMA TaskStep ==
    ASSUME Inv, NEW r \in Tasks, Ask(r) \/ Caller(r) \/ Timeout(r) \/ Send(r)
    PROVE  Inv'
<1> USE DEF Inv
<1>1. CASE Ask(r)
  <2>1. Lock' /\ lockq' \in Seq(Tasks)
    BY <1>1, AskLocks
  <2>2. Core'
    BY <1>1, AskCore
  <2>3. Once'
    BY <1>1, WireSame DEF Ask, wire
  <2>4. nreq + 1 \in Reqs /\ nreq + 1 \in 0..MaxReqs
    BY <1>1, LinkConstants DEF Ask, TypeOK, Reqs
  <2>5. TypeOK'
    BY <1>1, <2>1, <2>4 DEF Ask, TypeOK, States, wire, link
  <2> QED
    BY <2>1, <2>2, <2>3, <2>5
<1>2. CASE Arm(r)
  <2>1. st[r] = "ask" /\ \A q \in Tasks : st'[q] = IF q = r THEN "armed" ELSE st[q]
    BY <1>2 DEF Arm, TypeOK
  <2>2. Lock'
    BY <1>2, <2>1, LockFrame DEF Arm, bounds
  <2>3. Core'
    BY <1>2, ArmCore
  <2>4. Once'
    BY <1>2, WireSame DEF Arm, wire
  <2>5. cur[r] \in Reqs
    BY <2>1, LockFacts
  <2>6. TypeOK'
    BY <1>2, <2>5 DEF Arm, TypeOK, States, wire, bounds
  <2> QED
    BY <2>2, <2>3, <2>4, <2>6
<1>3. CASE Post(r) /\ writer
  <2>1. st[r] = "armed" /\ \A q \in Tasks : st'[q] = IF q = r THEN "wait" ELSE st[q]
    BY <1>3 DEF Post, TypeOK
  <2>2. Holder(r)
    BY <2>1, LockFacts
  <2>3. Lock'
    BY <1>3, <2>1, <2>2, LockFrame DEF Post, bounds
  <2>4. Core' /\ Once' /\ out' \in Seq(0..MaxReqs)
    BY <1>3, PostSends
  <2>5. TypeOK'
    BY <1>3, <2>4 DEF Post, TypeOK, States, link, bounds
  <2> QED
    BY <2>3, <2>4, <2>5
<1>4. ASSUME st[r] \in {"armed", "late"} \/ (st[r] = "wait" /\ answer[cur[r]] # None),
             st[r] = "late" => slot' = None, st[r] # "late" => slot' = slot,
             Return(r), UNCHANGED <<answer, wire, reader, inq, bounds, overdue>>
      PROVE  Inv'
  <2>1. Core'
    BY <1>4, ReturnCore DEF wire, bounds
  <2>2. Lock' /\ lockq' \in Seq(Tasks)
    BY <1>4, Returns DEF bounds
  <2>3. Once'
    BY <1>4, WireSame DEF wire
  <2>4. slot' \in Reqs \cup {None}
    BY <1>4 DEF TypeOK
  <2>5. TypeOK'
    BY <1>4, <2>2, <2>4 DEF TypeOK, Return, States, wire, bounds
  <2> QED
    BY <2>1, <2>2, <2>3, <2>5
<1>5. CASE Post(r) /\ ~writer
  BY <1>4, <1>5 DEF Post, link, wire
<1>6. CASE Wake(r)
  BY <1>4, <1>6 DEF Wake, link
<1>7. CASE Clear(r)
  BY <1>4, <1>7 DEF Clear
<1>8. CASE Timeout(r)
  <2>1. st[r] = "wait" /\ \A q \in Tasks : st'[q] = IF q = r THEN "late" ELSE st[q]
    BY <1>8 DEF Timeout, TypeOK
  <2>2. Holder(r)
    BY <2>1, LockFacts
  <2>3. Lock'
    BY <1>8, <2>1, <2>2, LockFrame DEF Timeout, bounds
  <2>4. Core' /\ overdue' \subseteq Reqs
    BY <1>8, TimeoutCore
  <2>5. Once'
    BY <1>8, WireSame DEF Timeout, wire
  <2>6. TypeOK'
    BY <1>8, <2>4 DEF Timeout, TypeOK, States, link, wire, bounds
  <2> QED
    BY <2>3, <2>4, <2>5, <2>6
<1>9. CASE Send(r)
  <2>1. Core' /\ Once' /\ out' \in Seq(0..MaxReqs)
    BY <1>9, SendCore
  <2>2. Lock'
    BY <1>9, LockFrame DEF Send, tasks
  <2>3. nsend' \in 0..MaxSends
    BY <1>9, LinkConstants DEF Send, TypeOK
  <2>4. TypeOK'
    BY <1>9, <2>1, <2>3 DEF Send, TypeOK, tasks, link
  <2> QED
    BY <2>1, <2>2, <2>4
<1> QED
  BY <1>1, <1>2, <1>3, <1>5, <1>6, <1>7, <1>8, <1>9 DEF Caller

\* A step outside the calls that ends no reader.
LEMMA QuietInv ==
    ASSUME Inv, UNCHANGED <<cur, lockq, slot, answer, nreq, nsend, overdue>>,
           reader' => reader, TypeOK', Once',
           \A q \in Tasks : st'[q] = st[q] \/ (st[q] \in {"off", "busy"} /\ st'[q] \in {"off", "busy"}),
           \A m \in 0..MaxReqs : Wire(m)' => Wire(m)
    PROVE  Inv'
<1>1. Lock'
  BY LockFrame DEF Inv
<1>2. Core'
  BY QuietStep DEF Inv
<1> QED
  BY <1>1, <1>2 DEF Inv

\* The reader's steps.
LEMMA ReaderStep ==
    ASSUME Inv, Reader \/ ReadEnd \/ Abort
    PROVE  Inv'
<1> USE DEF Inv
<1>1. ASSUME inn # <<>>, inn' = Tail(inn), out' = out, UNCHANGED <<tasks, link, writer, bounds, overdue>>,
             reader' = reader, inq' \in 0..InQueue
      PROVE  Inv'
  <2>1. /\ \A m \in 0..MaxReqs : Wire(m)' => Wire(m)
        /\ Once' /\ inn' \in Seq(0..MaxReqs \cup {Deliver, Notice})
    BY <1>1, WireRead
  <2>2. TypeOK'
    BY <1>1, <2>1 DEF TypeOK, tasks, link, bounds
  <2> QED
    BY <1>1, <2>1, <2>2, QuietInv DEF tasks, link, bounds
<1>2. ASSUME Stop, UNCHANGED <<tasks, writer, inq, bounds, overdue>>, Once',
             out' \in Seq(0..MaxReqs), inn' \in Seq(0..MaxReqs \cup {Deliver, Notice}),
             \A m \in 0..MaxReqs : Wire(m)' => Wire(m)
      PROVE  Inv'
  <2>1. Core' /\ answer' \in [Reqs -> 0..MaxReqs \cup {None, Closed}]
    BY <1>2, StopCore DEF tasks, bounds
  <2>2. Lock'
    BY <1>2, LockFrame DEF tasks, bounds
  <2>3. TypeOK'
    BY <1>2, <2>1 DEF TypeOK, Stop, tasks, bounds
  <2> QED
    BY <1>2, <2>1, <2>2, <2>3
<1>3. CASE ReadDeliver
  <2>1. CASE inq < InQueue /\ inq' = inq + 1 /\ UNCHANGED <<link, reader>>
    <3>1. inq' \in 0..InQueue
      BY <2>1, LinkConstants DEF TypeOK
    <3> QED
      BY <1>1, <1>3, <2>1, <3>1 DEF ReadDeliver
  <2>2. CASE Stop /\ UNCHANGED inq
    <3>1. /\ \A m \in 0..MaxReqs : Wire(m)' => Wire(m)
          /\ Once' /\ inn' \in Seq(0..MaxReqs \cup {Deliver, Notice})
      BY <1>3, WireRead DEF ReadDeliver
    <3>2. out' \in Seq(0..MaxReqs)
      BY <1>3 DEF ReadDeliver, TypeOK
    <3> QED
      BY <1>2, <1>3, <2>2, <3>1, <3>2 DEF ReadDeliver
  <2> QED
    BY <1>3, <2>1, <2>2 DEF ReadDeliver
<1>4. CASE ReadNotice
  <2>1. inq' \in 0..InQueue
    BY <1>4 DEF ReadNotice, TypeOK
  <2> QED
    BY <1>1, <1>4, <2>1 DEF ReadNotice
<1>5. CASE ReadControl
  <2>1. /\ Core' /\ Once'
        /\ answer' \in [Reqs -> 0..MaxReqs \cup {None, Closed}]
        /\ inn' \in Seq(0..MaxReqs \cup {Deliver, Notice})
    BY <1>5, ReadControlCore
  <2>2. Lock'
    BY <1>5, LockFrame DEF ReadControl, tasks, bounds
  <2>3. TypeOK'
    BY <1>5, <2>1 DEF ReadControl, TypeOK, tasks, bounds
  <2> QED
    BY <2>1, <2>2, <2>3
<1>6. CASE ReadEnd
  <2>1. Once' /\ (\A m \in 0..MaxReqs : Wire(m)' => Wire(m))
    BY <1>6, WireSame DEF ReadEnd, wire
  <2>2. out' \in Seq(0..MaxReqs) /\ inn' \in Seq(0..MaxReqs \cup {Deliver, Notice})
    BY <1>6 DEF ReadEnd, TypeOK, wire
  <2> QED
    BY <1>2, <1>6, <2>1, <2>2 DEF ReadEnd, wire
<1>7. CASE Abort
  <2>1. Once' /\ (\A m \in 0..MaxReqs : Wire(m)' => Wire(m))
    BY <1>7, WireSame DEF Abort, wire
  <2>2. TypeOK'
    BY <1>7 DEF Abort, TypeOK, tasks, link, wire, bounds
  <2> QED
    BY <1>7, <2>1, <2>2, QuietInv DEF Abort, tasks, link, bounds
<1> QED
  BY <1>3, <1>4, <1>5, <1>6, <1>7 DEF Reader

\* The processor, the writer and the relay.
LEMMA OtherStep ==
    ASSUME Inv, TakeFrame \/ FrameDone \/ WriterEnd \/ Serve \/ PushFrame
    PROVE  Inv'
<1> USE DEF Inv
<1>1. CASE TakeFrame \/ FrameDone
  <2>1. /\ \A q \in Tasks : st'[q] = st[q] \/ (st[q] \in {"off", "busy"} /\ st'[q] \in {"off", "busy"})
        /\ st' \in [Tasks -> States]
    BY <1>1 DEF TakeFrame, FrameDone, TypeOK, States
  <2>2. inq' \in 0..InQueue
    BY <1>1, LinkConstants DEF TakeFrame, FrameDone, TypeOK
  <2>3. UNCHANGED <<cur, lockq, link, wire, reader, bounds, overdue>>
    BY <1>1 DEF TakeFrame, FrameDone
  <2>4. Once' /\ (\A m \in 0..MaxReqs : Wire(m)' => Wire(m))
    BY <2>3, WireSame DEF wire
  <2>5. TypeOK'
    BY <2>1, <2>2, <2>3 DEF TypeOK, link, wire, bounds
  <2> QED
    BY <2>1, <2>3, <2>4, <2>5, QuietInv DEF link, bounds
<1>2. CASE WriterEnd
  <2>1. Once' /\ (\A m \in 0..MaxReqs : Wire(m)' => Wire(m))
    BY <1>2, WireSame DEF WriterEnd
  <2>2. TypeOK'
    BY <1>2 DEF WriterEnd, TypeOK, tasks, link, bounds
  <2> QED
    BY <1>2, <2>1, <2>2, QuietInv DEF WriterEnd, tasks, link, bounds
<1>3. CASE Serve
  <2>1. /\ \A m \in 0..MaxReqs : Wire(m)' => Wire(m)
        /\ Once' /\ out' \in Seq(0..MaxReqs)
        /\ inn' \in Seq(0..MaxReqs \cup {Deliver, Notice})
    BY <1>3, WireServe
  <2>2. TypeOK'
    BY <1>3, <2>1 DEF Serve, TypeOK, tasks, link, bounds
  <2> QED
    BY <1>3, <2>1, <2>2, QuietInv DEF Serve, tasks, link, bounds
<1>4. CASE PushFrame
  <2>1. /\ \A m \in 0..MaxReqs : Wire(m)' => Wire(m)
        /\ Once' /\ inn' \in Seq(0..MaxReqs \cup {Deliver, Notice})
    BY <1>4, WirePush DEF PushFrame
  <2>2. npushed' \in 0..MaxPushed
    BY <1>4, LinkConstants DEF PushFrame, TypeOK
  <2>3. TypeOK'
    BY <1>4, <2>1, <2>2 DEF PushFrame, TypeOK, tasks, link
  <2> QED
    BY <1>4, <2>1, <2>3, QuietInv DEF PushFrame, tasks, link
<1> QED
  BY <1>1, <1>2, <1>3, <1>4

\* However the two tasks, the reader, the timers and the relay interleave, and
\* whatever the relay does not answer: a caller that waits is in the slot, and
\* a call is given another message's answer only after a Send or an earlier
\* timeout, and never the answer of a later call.
THEOREM RepliesAlways == Spec => []Replies
<1>1. Init => Inv
  BY InitInv
<1>2. ASSUME Inv, [Next]_vars PROVE Inv'
  <2>1. CASE Next
    BY <1>2, <2>1, TaskStep, ReaderStep, OtherStep DEF Next
  <2>2. CASE UNCHANGED vars
    <3>1. Once' /\ (\A m \in 0..MaxReqs : Wire(m)' => Wire(m))
      BY <1>2, <2>2, WireSame DEF Inv, vars, wire
    <3>2. TypeOK'
      BY <1>2, <2>2 DEF Inv, TypeOK, vars, tasks, link, wire, bounds
    <3> QED
      BY <1>2, <2>2, <3>1, <3>2, QuietInv DEF vars, tasks, link, bounds
  <2> QED
    BY <1>2, <2>1, <2>2
<1>3. Inv => Replies
  BY DEF Inv, Core, Replies
<1> QED
  BY <1>1, <1>2, <1>3, PTL DEF Spec
============================================================================
