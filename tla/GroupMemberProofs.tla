------------------------- MODULE GroupMemberProofs -------------------------
(***************************************************************************)
(* Proofs about GroupMember: the types, that a moderated user stays silent *)
(* and that the recorded owner stays put, for any peers, rosters, events   *)
(* and bounds, with a relay that repeats and reorders.                     *)
(***************************************************************************)
EXTENDS GroupMember, TLAPS

----------------------------------------------------------------------------
(* The inductive invariant.                                                *)

\* A ratchet has moved once per frame at most.
Counted == \A p \in Peers : out[p].next <= nsent

\* The steps only some frames get to.
StepFrames ==
    /\ Handling("event") => proc.frame \in Events
    /\ Handling("apply") /\ proc.frame.kind \notin {"text", "left"}
           => proc.frame \in Events
    /\ Handling("unsuspend") \/ Handling("add") => proc.frame \in Events
    /\ Handling("forget") \/ Handling("bar")
           => proc.frame \in Events /\ proc.frame.who \in Peers

Types == TypeOK /\ Counted /\ StepFrames

Allowed(u) == u \notin bans /\ ~Suspended(u)

\* The sender of a share past the checks, and the sender of a Megolm frame
\* whose session is about to be written back, are not moderated.
Screened ==
    Handling("standing") \/ Handling("key") \/ Handling("accept")
        \/ Handling("save") => Allowed(proc.frame.from)

\* The ban or suspension is recorded after the session is gone.
Forgotten == Handling("bar") => inb[proc.frame.who] = NoSession

\* An owner's share on its way to the groups row.
Owning ==
    (Handling("key") \/ Handling("chat") \/ Handling("members")
        \/ Handling("meta")) /\ proc.flag
    => owner \in {Nobody, proc.frame.from}

SilentInv == ModeratedSilent /\ Screened /\ Forgotten

OwnerInv ==
    /\ Owning
    /\ Handling("chat") \/ Handling("members") \/ Handling("meta") => proc.flag

----------------------------------------------------------------------------
(* The types.                                                              *)

LEMMA InitTypes == Init => Types
  <1> SUFFICES ASSUME Init PROVE Types
    OBVIOUS
  <1> USE GroupConstants
  <1>1. exists \in BOOLEAN /\ leaving \in BOOLEAN /\ torn \in BOOLEAN
    BY DEF Init
  <1>2. susp \in [Users -> 0..MaxTime] /\ now \in 0..MaxTime
    BY DEF Init
  <1>3. RowsOK
    BY <1>1, <1>2 DEF Init, RowsOK
  <1>4. KeysOK
    BY DEF Init, KeysOK, NoSessions, NothingSeen, Received
  <1>5. ProcOK /\ StepFrames
    BY DEF Init, ProcOK, StepFrames, Handling
  <1>6. NetOK /\ Counted
    BY DEF Init, NetOK, Counted, Sessions
  <1>7. applied \in Seq(Notes \cup Events)
    BY DEF Init
  <1>8. HistOK
    BY <1>1, <1>7 DEF Init, HistOK
  <1> QED
    BY <1>1, <1>2, <1>3, <1>4, <1>5, <1>6, <1>8 DEF Types, TypeOK

\* The parts a step of the network leaves alone.
LEMMA StillTypes ==
  ASSUME Types, UNCHANGED <<rows, keys, proc, leaving, hist>>,
         now' \in 0..MaxTime
  PROVE  /\ RowsOK' /\ KeysOK' /\ ProcOK' /\ StepFrames' /\ HistOK'
         /\ leaving' \in BOOLEAN /\ now' \in 0..MaxTime
  <1>1. RowsOK'
    BY DEF Types, TypeOK, RowsOK, rows
  <1>2. KeysOK'
    BY DEF Types, TypeOK, KeysOK, keys
  <1>3. ProcOK' /\ StepFrames'
    BY DEF Types, TypeOK, ProcOK, StepFrames, Handling
  <1>4. HistOK'
    BY DEF Types, TypeOK, HistOK, hist
  <1> QED
    BY <1>1, <1>2, <1>3, <1>4 DEF Types, TypeOK

LEMMA SendTypes ==
  ASSUME Types, NEW p \in Peers, Sending(p)
  PROVE  Types'
  <1> USE GroupConstants
  <1>1. ASSUME NEW f \in Frames, Send(f), NEW r \in [sid : Sessions, next : Nat],
               r.next <= nsent + 1, out' = [out EXCEPT ![p] = r]
        PROVE  Types'
    <2>1. /\ RowsOK' /\ KeysOK' /\ ProcOK' /\ StepFrames' /\ HistOK'
          /\ leaving' \in BOOLEAN /\ now' \in 0..MaxTime
      BY <1>1, StillTypes DEF Send, Types, TypeOK
    <2>2. nsent' \in 0..MaxSent /\ nsent' = nsent + 1 /\ nsent \in Nat
      BY <1>1 DEF Send, Types, TypeOK, NetOK
    <2>3. /\ out' \in [Peers -> [sid : Sessions, next : 0..MaxSent]]
          /\ \A q \in Peers : out'[q].next <= nsent'
      <3>1. r \in [sid : Sessions, next : 0..MaxSent] /\ r.next <= nsent'
        BY <1>1, <2>2
      <3>2. out \in [Peers -> [sid : Sessions, next : 0..MaxSent]]
        BY DEF Types, TypeOK, NetOK
      <3>3. \A q \in Peers : out[q].next <= nsent'
        BY <2>2, <3>2 DEF Types, Counted
      <3> QED
        BY <1>1, <3>1, <3>2, <3>3
    <2>4. wire' \subseteq Frames
      BY <1>1 DEF Send, Types, TypeOK, NetOK
    <2> QED
      BY <2>1, <2>2, <2>3, <2>4 DEF Types, TypeOK, NetOK, Counted
  <1>2. /\ out[p] \in [sid : Sessions, next : 0..MaxSent]
        /\ out[p].next <= nsent /\ nsent \in 0..MaxSent
        /\ out = [out EXCEPT ![p] = out[p]]
    BY DEF Types, TypeOK, NetOK, Counted
  <1>3. Pos \in 0..MaxSent
    BY <1>2 DEF Pos
  <1>4. ASSUME Advance(p)
        PROVE  \E r \in [sid : Sessions, next : Nat] :
                  r.next <= nsent + 1 /\ out' = [out EXCEPT ![p] = r]
    <2> DEFINE r == [out[p] EXCEPT !.next = @ + 1]
    <2>1. r \in [sid : Sessions, next : Nat] /\ r.next <= nsent + 1
      BY <1>2
    <2>2. out' = [out EXCEPT ![p] = r]
      BY <1>4 DEF Advance
    <2> QED
      BY <2>1, <2>2
  <1>5. ASSUME Renew(p)
        PROVE  \E r \in [sid : Sessions, next : Nat] :
                  r.next <= nsent + 1 /\ out' = [out EXCEPT ![p] = r]
    <2> DEFINE r == [sid |-> out[p].sid + 1, next |-> 0]
    <2>1. r \in [sid : Sessions, next : Nat] /\ r.next <= nsent + 1
      BY <1>2, <1>5 DEF Renew, Sessions
    <2>2. out' = [out EXCEPT ![p] = r]
      BY <1>5 DEF Renew
    <2> QED
      BY <2>1, <2>2
  <1>6. ASSUME NEW c \in BOOLEAN, NEW k \in BOOLEAN, NEW m \in Rosters, NEW l \in Lanes,
               ShareKey(p, c, k, m, l)
        PROVE  Types'
    <2> DEFINE f == [kind |-> "share", from |-> p, sid |-> out[p].sid,
                     idx |-> out[p].next, claimed |-> c, keyed |-> k,
                     members |-> m, lane |-> l, pos |-> Pos]
    <2>1. f \in Frames
      BY <1>2, <1>3 DEF Frames, Shares
    <2>2. Send(f) /\ out' = [out EXCEPT ![p] = out[p]]
      BY <1>2, <1>6 DEF ShareKey
    <2>3. out[p] \in [sid : Sessions, next : Nat] /\ out[p].next <= nsent + 1
      BY <1>2
    <2> HIDE DEF f
    <2> QED
      BY <1>1, <2>1, <2>2, <2>3
  <1>7. ASSUME NEW k \in {"text", "left"}, NEW l \in Lanes, Write(p, k, l)
        PROVE  Types'
    <2> DEFINE f == [kind |-> k, from |-> p, sid |-> out[p].sid,
                     idx |-> out[p].next, lane |-> l, pos |-> Pos]
    <2>1. f \in Frames
      BY <1>2, <1>3 DEF Frames, Notes
    <2>2. Send(f) /\ (Advance(p) \/ Renew(p))
      BY <1>7 DEF Write
    <2> HIDE DEF f
    <2> QED
      BY <1>1, <1>4, <1>5, <2>1, <2>2
  <1>8. ASSUME NEW e \in Orders, NEW l \in Lanes, Broadcast(p, e, l)
        PROVE  Types'
    <2> DEFINE f == [kind |-> e.kind, from |-> p, sid |-> out[p].sid,
                     idx |-> out[p].next, lane |-> l, pos |-> Pos,
                     who |-> e.who, until |-> e.until]
    <2>1. f \in Frames
      BY <1>2, <1>3 DEF Frames, Events
    <2>2. Send(f) /\ (Advance(p) \/ Renew(p))
      BY <1>8 DEF Broadcast
    <2> HIDE DEF f
    <2> QED
      BY <1>1, <1>4, <1>5, <2>1, <2>2
  <1>9. CASE \E l \in Lanes, c \in BOOLEAN, m \in Rosters :
               \E k \in {FALSE, c} : ShareKey(p, c, k, m, l)
    <2>1. PICK l \in Lanes, c \in BOOLEAN, m \in Rosters :
                 \E k \in {FALSE, c} : ShareKey(p, c, k, m, l)
      BY <1>9
    <2>2. PICK k \in {FALSE, c} : ShareKey(p, c, k, m, l)
      BY <2>1
    <2>3. k \in BOOLEAN
      BY <2>1, <2>2
    <2> QED
      BY <1>6, <2>1, <2>2, <2>3
  <1> QED
    BY ZenonT(30), <1>7, <1>8, <1>9 DEF Sending

\* What stays typed because it stays.
LEMMA RowsStill == ASSUME RowsOK, UNCHANGED rows PROVE RowsOK'
  BY DEF RowsOK, rows

LEMMA KeysStill == ASSUME KeysOK, UNCHANGED keys PROVE KeysOK'
  BY DEF KeysOK, keys

LEMMA NetStill ==
  ASSUME NetOK, Counted, UNCHANGED <<out, nsent>>, wire' \subseteq wire
  PROVE  NetOK' /\ Counted'
  BY DEF NetOK, Counted

LEMMA HistStill == ASSUME HistOK, UNCHANGED hist PROVE HistOK'
  BY DEF HistOK, hist

LEMMA IdleProc == ASSUME proc' = Idle PROVE ProcOK' /\ StepFrames'
  BY DEF ProcOK, StepFrames, Handling

\* A share, or a Megolm frame, is in hand at the steps that handle one.
LEMMA ShareInHand ==
  ASSUME ProcOK, NEW a \in ShareSteps, Handling(a)
  PROVE  proc \in Work(ShareSteps, Shares) /\ proc.frame \in Shares
  BY DEF ProcOK, Handling, Work, ShareSteps, MegolmSteps

LEMMA MegolmInHand ==
  ASSUME ProcOK, NEW a \in MegolmSteps, Handling(a)
  PROVE  /\ proc \in Work(MegolmSteps, Notes \cup Events)
         /\ proc.frame \in Notes \cup Events
  BY DEF ProcOK, Handling, Work, ShareSteps, MegolmSteps

LEMMA FrameFields ==
  ASSUME NEW f \in Shares \cup Notes \cup Events
  PROVE  f.from \in Peers /\ f.sid \in Sessions /\ f.idx \in 0..MaxSent
  BY DEF Shares, Notes, Events

\* On to another step of the same handler.
LEMMA ShareGoto ==
  ASSUME proc \in Work(ShareSteps, Shares), NEW b \in ShareSteps, Goto(b)
  PROVE  ProcOK' /\ StepFrames'
  <1>1. proc' \in Work(ShareSteps, Shares) /\ proc'.at = b
    BY DEF Goto, Work
  <1> QED
    BY <1>1 DEF ProcOK, StepFrames, Handling, ShareSteps

LEMMA MegolmGoto ==
  ASSUME proc \in Work(MegolmSteps, Notes \cup Events), NEW b \in MegolmSteps,
         Goto(b),
         b = "event" => proc.frame \in Events,
         b = "apply" /\ proc.frame.kind \notin {"text", "left"}
             => proc.frame \in Events,
         b \in {"unsuspend", "add"} => proc.frame \in Events,
         b \in {"forget", "bar"}
             => proc.frame \in Events /\ proc.frame.who \in Peers
  PROVE  ProcOK' /\ StepFrames'
  <1>1. /\ proc' \in Work(MegolmSteps, Notes \cup Events) /\ proc'.at = b
        /\ proc'.frame = proc.frame
    BY DEF Goto, Work
  <1> QED
    BY <1>1 DEF ProcOK, StepFrames, Handling, MegolmSteps

LEMMA ShareTypes ==
  ASSUME Types, (\E f \in wire : FetchShare(f)) \/ HandlingShare
  PROVE  Types'
  <1> USE GroupConstants
  <1>0. /\ RowsOK /\ KeysOK /\ ProcOK /\ StepFrames /\ NetOK /\ Counted /\ HistOK
        /\ leaving \in BOOLEAN /\ now \in 0..MaxTime
    BY DEF Types, TypeOK
  <1>1. ASSUME NEW f \in wire, FetchShare(f) PROVE Types'
    <2>1. f \in Shares
      BY <1>0, <1>1 DEF FetchShare, NetOK, Frames, Notes, Events, Kinds
    <2>2. NetOK' /\ Counted'
      BY <1>0, <1>1, NetStill DEF FetchShare
    <2>3. ProcOK' /\ StepFrames'
      <3>1. CASE Moderated(f.from)
        BY <1>1, <3>1, IdleProc DEF FetchShare
      <3>2. CASE ~Moderated(f.from)
        <4>1. proc' = At("standing", f, ~exists, NoSession)
          BY <1>1, <3>2 DEF FetchShare
        <4>2. (~exists) \in BOOLEAN
          BY <1>0 DEF RowsOK
        <4>3. proc' \in Work(ShareSteps, Shares) /\ proc'.at = "standing"
          BY <2>1, <4>1, <4>2 DEF At, Work, ShareSteps, Received
        <4> QED
          BY <4>3 DEF ProcOK, StepFrames, Handling
      <3> QED
        BY <3>1, <3>2
    <2>4. RowsOK'
      <3>1. susp' \in [Users -> 0..MaxTime]
        BY <1>0, <1>1 DEF FetchShare, RowsOK
      <3> QED
        BY <1>0, <1>1, <3>1 DEF FetchShare, RowsOK
    <2>5. KeysOK' /\ HistOK' /\ leaving' = leaving /\ now' = now
      BY <1>0, <1>1, KeysStill, HistStill DEF FetchShare
    <2> QED
      BY <1>0, <2>2, <2>3, <2>4, <2>5 DEF Types, TypeOK
  <1>2. CASE Standing
    <2>1. proc.frame \in Shares
      BY <1>0, <1>2, ShareInHand DEF Standing, ShareSteps
    <2>2. ProcOK' /\ StepFrames'
      <3> DEFINE own == OwnerShare(proc.frame, proc.flag)
      <3>1. CASE proc' = Idle
        BY <3>1, IdleProc
      <3>2. CASE proc' = At("key", proc.frame, own, NoSession)
        <4>1. own \in BOOLEAN
          BY <2>1 DEF OwnerShare, Shares
        <4> HIDE DEF own
        <4>2. proc' \in Work(ShareSteps, Shares) /\ proc'.at = "key"
          BY <2>1, <3>2, <4>1 DEF At, Work, ShareSteps, Received
        <4> QED
          BY <4>2 DEF ProcOK, StepFrames, Handling
      <3> QED
        BY <1>2, <3>1, <3>2 DEF Standing
    <2>3. UNCHANGED <<rows, keys, leaving, now, net, hist>>
      BY <1>2 DEF Standing
    <2> QED
      BY <1>0, <2>2, <2>3, RowsStill, KeysStill, NetStill, HistStill
      DEF Types, TypeOK, net
  <1>3. CASE ShareSession
    <2>1. proc \in Work(ShareSteps, Shares) /\ proc.frame \in Shares
      BY <1>0, <1>3, ShareInHand DEF ShareSession, ShareSteps
    <2>2. ProcOK' /\ StepFrames'
      BY <1>3, <2>1, IdleProc, ShareGoto DEF ShareSession, ShareSteps
    <2>3. KeysOK'
      BY <1>0, <1>3, <2>1, FrameFields DEF ShareSession, KeysOK, Received
    <2>4. UNCHANGED <<rows, leaving, now, net, hist>>
      BY <1>3 DEF ShareSession
    <2> QED
      BY <1>0, <2>2, <2>3, <2>4, RowsStill, NetStill, HistStill
      DEF Types, TypeOK, net
  <1>4. CASE ShareChat
    <2>1. proc \in Work(ShareSteps, Shares)
      BY <1>0, <1>4, ShareInHand DEF ShareChat, ShareSteps
    <2>2. ProcOK' /\ StepFrames'
      BY <1>4, <2>1, ShareGoto DEF ShareChat, ShareSteps
    <2>3. RowsOK'
      BY <1>0, <1>4 DEF ShareChat, RowsOK
    <2>4. UNCHANGED <<keys, leaving, now, net, hist>>
      BY <1>4 DEF ShareChat
    <2> QED
      BY <1>0, <2>2, <2>3, <2>4, KeysStill, NetStill, HistStill
      DEF Types, TypeOK, net
  <1>5. CASE ShareMembers
    <2>1. proc \in Work(ShareSteps, Shares) /\ proc.frame \in Shares
      BY <1>0, <1>5, ShareInHand DEF ShareMembers, ShareSteps
    <2>2. ProcOK' /\ StepFrames'
      BY <1>5, <2>1, ShareGoto DEF ShareMembers, ShareSteps
    <2>3. RowsOK'
      BY <1>0, <1>5, <2>1 DEF ShareMembers, RowsOK, Shares
    <2>4. UNCHANGED <<keys, leaving, now, net, hist>>
      BY <1>5 DEF ShareMembers
    <2> QED
      BY <1>0, <2>2, <2>3, <2>4, KeysStill, NetStill, HistStill
      DEF Types, TypeOK, net
  <1>6. CASE ShareMeta
    <2>1. proc.frame \in Shares
      BY <1>0, <1>6, ShareInHand DEF ShareMeta, ShareSteps
    <2>2. ProcOK' /\ StepFrames'
      BY <1>6, IdleProc DEF ShareMeta
    <2>3. RowsOK'
      BY <1>0, <1>6, <2>1 DEF ShareMeta, RowsOK, Shares
    <2>4. UNCHANGED <<keys, leaving, now, net, hist>>
      BY <1>6 DEF ShareMeta
    <2> QED
      BY <1>0, <2>2, <2>3, <2>4, KeysStill, NetStill, HistStill
      DEF Types, TypeOK, net
  <1> QED
    BY <1>1, <1>2, <1>3, <1>4, <1>5, <1>6 DEF HandlingShare

\* delete_chat leaves typed tables, the group's empty.
LEMMA DeletedTypes ==
  ASSUME NetOK, Counted, HistOK, now \in 0..MaxTime, DeleteChat,
         torn' \in BOOLEAN
  PROVE  /\ RowsOK' /\ KeysOK' /\ NetOK' /\ Counted' /\ HistOK'
         /\ now' \in 0..MaxTime
  <1> USE GroupConstants
  <1>1. susp' \in [Users -> 0..MaxTime]
    BY DEF DeleteChat
  <1>2. RowsOK'
    BY <1>1 DEF DeleteChat, RowsOK
  <1>3. KeysOK'
    BY DEF DeleteChat, KeysOK, NoSessions, NothingSeen, Received
  <1>4. NetOK' /\ Counted'
    BY NetStill DEF DeleteChat, net
  <1>5. applied' \in Seq(Notes \cup Events)
    BY DEF DeleteChat
  <1>6. HistOK'
    BY <1>5 DEF DeleteChat, HistOK
  <1> QED
    BY <1>2, <1>3, <1>4, <1>6 DEF DeleteChat

LEMMA MegolmTypes ==
  ASSUME Types, (\E f \in wire : Open(f)) \/ HandlingMegolm
  PROVE  Types'
  <1> USE GroupConstants
  <1>0. /\ RowsOK /\ KeysOK /\ ProcOK /\ StepFrames /\ NetOK /\ Counted /\ HistOK
        /\ leaving \in BOOLEAN /\ now \in 0..MaxTime
    BY DEF Types, TypeOK
  <1>1. ASSUME NEW f \in wire, Open(f) PROVE Types'
    <2>1. f \in Notes \cup Events
      BY <1>0, <1>1 DEF Open, NetOK, Frames, Shares
    <2>2. NetOK' /\ Counted'
      BY <1>0, <1>1, NetStill DEF Open
    <2>3. inb[f.from] \in Received
      BY <1>0, <2>1, FrameFields DEF KeysOK
    <2>4. ProcOK' /\ StepFrames'
      <3>1. CASE proc' = Idle
        BY <3>1, IdleProc
      <3>2. CASE proc' = At("accept", f, FALSE, inb[f.from])
        <4>1. /\ proc' \in Work(MegolmSteps, Notes \cup Events)
              /\ proc'.at = "accept"
          BY <2>1, <2>3, <3>2 DEF At, Work, MegolmSteps
        <4> QED
          BY <4>1 DEF ProcOK, StepFrames, Handling
      <3> QED
        BY <1>1, <3>1, <3>2 DEF Open
    <2>5. UNCHANGED <<rows, keys, leaving, now, hist>>
      BY <1>1 DEF Open
    <2> QED
      BY <1>0, <2>2, <2>4, <2>5, RowsStill, KeysStill, HistStill
      DEF Types, TypeOK
  <1>2. CASE Accept
    <2>1. /\ proc \in Work(MegolmSteps, Notes \cup Events)
          /\ proc.frame \in Notes \cup Events
      BY <1>0, <1>2, MegolmInHand DEF Accept, MegolmSteps
    <2>2. ProcOK' /\ StepFrames'
      BY <1>2, <2>1, IdleProc, MegolmGoto DEF Accept, MegolmSteps
    <2>3. KeysOK'
      <3> DEFINE f == proc.frame
      <3>1. f.from \in Peers /\ f.sid \in Sessions /\ f.idx \in -1..MaxSent
        BY <2>1, FrameFields
      <3>2. \/ UNCHANGED seen
            \/ seen' = [seen EXCEPT ![f.from][f.sid] = f.idx]
        BY <1>2 DEF Accept
      <3> HIDE DEF f
      <3>3. seen' \in [Peers -> [Sessions -> -1..MaxSent]]
        BY <1>0, <3>1, <3>2, SMTT(60) DEF KeysOK
      <3> QED
        BY <1>0, <1>2, <3>3 DEF Accept, KeysOK
    <2>4. HistOK'
      BY <1>0, <1>2, <2>1 DEF Accept, HistOK
    <2>9. UNCHANGED <<rows, leaving, now, net>>
      BY <1>2 DEF Accept
    <2> QED
      BY <1>0, <2>2, <2>3, <2>4, <2>9, RowsStill, NetStill
      DEF Types, TypeOK, net
  <1>3. CASE SaveSession
    <2>1. /\ proc \in Work(MegolmSteps, Notes \cup Events)
          /\ proc.frame \in Notes \cup Events
      BY <1>0, <1>3, MegolmInHand DEF SaveSession, MegolmSteps
    <2>2. ProcOK' /\ StepFrames'
      BY <1>3, <2>1, MegolmGoto DEF SaveSession, MegolmSteps, Notes
    <2>3. KeysOK'
      <3>1. proc.key \in Received
        BY <2>1 DEF Work
      <3> QED
        BY <1>0, <1>3, <2>1, <3>1, FrameFields DEF SaveSession, KeysOK
    <2>9. UNCHANGED <<rows, leaving, now, net, hist>>
      BY <1>3 DEF SaveSession
    <2> QED
      BY <1>0, <2>2, <2>3, <2>9, RowsStill, NetStill, HistStill
      DEF Types, TypeOK, net
  <1>4. CASE CheckOwner
    <2>1. /\ proc \in Work(MegolmSteps, Notes \cup Events)
          /\ proc.frame \in Notes \cup Events
      BY <1>0, <1>4, MegolmInHand DEF CheckOwner, MegolmSteps
    <2>2. ProcOK' /\ StepFrames'
      BY <1>0, <1>4, <2>1, IdleProc, MegolmGoto
      DEF CheckOwner, StepFrames, MegolmSteps
    <2>9. UNCHANGED <<rows, keys, leaving, now, net, hist>>
      BY <1>4 DEF CheckOwner
    <2> QED
      BY <1>0, <2>2, <2>9, RowsStill, KeysStill, NetStill, HistStill
      DEF Types, TypeOK, net
  <1>5. CASE ApplyPlain
    <2>1. /\ proc \in Work(MegolmSteps, Notes \cup Events)
          /\ proc.frame \in Notes \cup Events
      BY <1>0, <1>5, MegolmInHand DEF ApplyPlain, MegolmSteps
    <2>2. ProcOK' /\ StepFrames'
      BY <1>5, IdleProc DEF ApplyPlain
    <2>3. HistOK'
      BY <1>0, <1>5, <2>1 DEF ApplyPlain, Applied, HistOK
    <2>9. UNCHANGED <<rows, keys, leaving, now, net>>
      BY <1>5 DEF ApplyPlain
    <2> QED
      BY <1>0, <2>2, <2>3, <2>9, RowsStill, KeysStill, NetStill
      DEF Types, TypeOK, net
  <1>6. CASE ApplyLeft
    <2>1. /\ proc \in Work(MegolmSteps, Notes \cup Events)
          /\ proc.frame \in Notes \cup Events
      BY <1>0, <1>6, MegolmInHand DEF ApplyLeft, MegolmSteps
    <2>2. ProcOK' /\ StepFrames'
      BY <1>6, IdleProc DEF ApplyLeft
    <2>3. HistOK'
      BY <1>0, <1>6, <2>1, FrameFields DEF ApplyLeft, Applied, HistOK
    <2>4. RowsOK'
      BY <1>0, <1>6 DEF ApplyLeft, RowsOK
    <2>9. UNCHANGED <<keys, leaving, now, net>>
      BY <1>6 DEF ApplyLeft
    <2> QED
      BY <1>0, <2>2, <2>3, <2>4, <2>9, KeysStill, NetStill
      DEF Types, TypeOK, net
  <1>7. CASE ApplyJoined
    <2>1. /\ proc \in Work(MegolmSteps, Notes \cup Events)
          /\ proc.frame \in Notes \cup Events
      BY <1>0, <1>7, MegolmInHand DEF ApplyJoined, MegolmSteps
    <2>2. ProcOK' /\ StepFrames'
      <3>1. proc.frame \in Events
        BY <1>0, <1>7 DEF ApplyJoined, StepFrames
      <3> QED
        BY <1>7, <2>1, <3>1, MegolmGoto DEF ApplyJoined, MegolmSteps
    <2>3. HistOK'
      BY <1>0, <1>7, <2>1 DEF ApplyJoined, Applied, HistOK
    <2>4. RowsOK'
      BY <1>0, <1>7 DEF ApplyJoined, RowsOK
    <2>9. UNCHANGED <<keys, leaving, now, net>>
      BY <1>7 DEF ApplyJoined
    <2> QED
      BY <1>0, <2>2, <2>3, <2>4, <2>9, KeysStill, NetStill
      DEF Types, TypeOK, net
  <1>8. CASE ApplyUnsuspend
    <2>1. /\ proc \in Work(MegolmSteps, Notes \cup Events)
          /\ proc.frame \in Notes \cup Events
      BY <1>0, <1>8, MegolmInHand DEF ApplyUnsuspend, MegolmSteps
    <2>2. proc.frame \in Events
      BY <1>0, <1>8 DEF ApplyUnsuspend, StepFrames
    <2>3. ProcOK' /\ StepFrames'
      BY <1>8, <2>1, <2>2, MegolmGoto DEF ApplyUnsuspend, MegolmSteps
    <2>4. RowsOK'
      <3>1. susp' \in [Users -> 0..MaxTime]
        <4>1. susp' = [susp EXCEPT ![proc.frame.who] = 0]
          BY <1>8 DEF ApplyUnsuspend
        <4>2. susp \in [Users -> 0..MaxTime] /\ 0 \in 0..MaxTime
          BY <1>0 DEF RowsOK
        <4> QED
          BY <4>1, <4>2
      <3> QED
        BY <1>0, <1>8, <3>1 DEF ApplyUnsuspend, RowsOK
    <2>9. UNCHANGED <<keys, leaving, now, net, hist>>
      BY <1>8 DEF ApplyUnsuspend
    <2> QED
      BY <1>0, <2>3, <2>4, <2>9, KeysStill, NetStill, HistStill
      DEF Types, TypeOK, net
  <1>9. CASE ApplyAdd
    <2>1. /\ proc \in Work(MegolmSteps, Notes \cup Events)
          /\ proc.frame \in Notes \cup Events
      BY <1>0, <1>9, MegolmInHand DEF ApplyAdd, MegolmSteps
    <2>2. proc.frame.who \in Users
      BY <1>0, <1>9 DEF ApplyAdd, StepFrames, Events
    <2>3. ProcOK' /\ StepFrames'
      BY <1>9, IdleProc DEF ApplyAdd
    <2>4. RowsOK' /\ HistOK'
      BY <1>0, <1>9, <2>2 DEF ApplyAdd, RowsOK, HistOK
    <2>9. UNCHANGED <<keys, leaving, now, net>>
      BY <1>9 DEF ApplyAdd
    <2> QED
      BY <1>0, <2>3, <2>4, <2>9, KeysStill, NetStill
      DEF Types, TypeOK, net
  <1>10. CASE ApplyRemove
    <2>1. /\ proc \in Work(MegolmSteps, Notes \cup Events)
          /\ proc.frame \in Notes \cup Events
      BY <1>0, <1>10, MegolmInHand DEF ApplyRemove, MegolmSteps
    <2>2. proc.frame \in Events /\ proc.frame.who \in Peers
      BY <1>0, <1>10 DEF ApplyRemove, OfAnother, StepFrames, Events, Users
    <2>3. ProcOK' /\ StepFrames'
      BY <1>10, <2>1, <2>2, MegolmGoto DEF ApplyRemove, MegolmSteps
    <2>4. RowsOK' /\ HistOK'
      BY <1>0, <1>10, <2>1 DEF ApplyRemove, Applied, RowsOK, HistOK
    <2>9. UNCHANGED <<keys, leaving, now, net>>
      BY <1>10 DEF ApplyRemove
    <2> QED
      BY <1>0, <2>3, <2>4, <2>9, KeysStill, NetStill
      DEF Types, TypeOK, net
  <1>11. CASE ApplyForget
    <2>1. /\ proc \in Work(MegolmSteps, Notes \cup Events)
          /\ proc.frame \in Notes \cup Events
      BY <1>0, <1>11, MegolmInHand DEF ApplyForget, MegolmSteps
    <2>2. proc.frame \in Events /\ proc.frame.who \in Peers
      BY <1>0, <1>11 DEF ApplyForget, StepFrames
    <2>3. ProcOK' /\ StepFrames'
      BY <1>11, <2>1, <2>2, MegolmGoto DEF ApplyForget, MegolmSteps
    <2>4. KeysOK'
      BY <1>0, <1>11 DEF ApplyForget, KeysOK, Received
    <2>5. HistOK'
      BY <1>0, <1>11 DEF ApplyForget, HistOK
    <2>9. UNCHANGED <<rows, leaving, now, net>>
      BY <1>11 DEF ApplyForget
    <2> QED
      BY <1>0, <2>3, <2>4, <2>5, <2>9, RowsStill, NetStill
      DEF Types, TypeOK, net
  <1>12. CASE ApplyBar
    <2>1. /\ proc \in Work(MegolmSteps, Notes \cup Events)
          /\ proc.frame \in Notes \cup Events
      BY <1>0, <1>12, MegolmInHand DEF ApplyBar, MegolmSteps
    <2>2. proc.frame.who \in Peers /\ proc.frame.until \in 0..MaxTime
      BY <1>0, <1>12 DEF ApplyBar, StepFrames, Events
    <2>3. ProcOK' /\ StepFrames'
      BY <1>12, IdleProc DEF ApplyBar
    <2>4. RowsOK'
      <3>1. susp' \in [Users -> 0..MaxTime]
        BY <1>0, <1>12, <2>2 DEF ApplyBar, RowsOK
      <3> QED
        BY <1>0, <1>12, <2>2, <3>1 DEF ApplyBar, RowsOK
    <2>9. UNCHANGED <<keys, leaving, now, net, hist>>
      BY <1>12 DEF ApplyBar
    <2> QED
      BY <1>0, <2>3, <2>4, <2>9, KeysStill, NetStill, HistStill
      DEF Types, TypeOK, net
  <1>13. CASE ApplyGone
    <2>1. ProcOK' /\ StepFrames'
      BY <1>13, IdleProc DEF ApplyGone
    <2>2. /\ RowsOK' /\ KeysOK' /\ NetOK' /\ Counted' /\ HistOK'
          /\ now' \in 0..MaxTime
      BY <1>0, <1>13, DeletedTypes DEF ApplyGone, HistOK
    <2> QED
      BY <1>0, <1>13, <2>1, <2>2 DEF ApplyGone, Types, TypeOK
  <1> QED
    BY <1>1, <1>2, <1>3, <1>4, <1>5, <1>6, <1>7, <1>8, <1>9, <1>10, <1>11,
       <1>12, <1>13 DEF HandlingMegolm

LEMMA NextTypes == Types /\ [Next]_vars => Types'
  <1> SUFFICES ASSUME Types, [Next]_vars PROVE Types'
    OBVIOUS
  <1> USE GroupConstants
  <1>0. /\ RowsOK /\ KeysOK /\ ProcOK /\ StepFrames /\ NetOK /\ Counted /\ HistOK
        /\ leaving \in BOOLEAN /\ now \in 0..MaxTime
    BY DEF Types, TypeOK
  <1>1. CASE Tick
    <2>1. now' \in 0..MaxTime /\ UNCHANGED <<rows, keys, proc, leaving, hist, net>>
      BY <1>0, <1>1 DEF Tick
    <2>2. NetOK' /\ Counted'
      BY <1>0, <2>1, NetStill DEF net
    <2> QED
      BY <2>1, <2>2, StillTypes DEF Types, TypeOK
  <1>2. CASE UNCHANGED vars
    <2>1. NetOK' /\ Counted'
      BY <1>0, <1>2, NetStill DEF vars, net
    <2> QED
      BY <1>0, <1>2, <2>1, StillTypes DEF vars, Types, TypeOK
  <1>3. CASE LeaveBegin
    <2>1. UNCHANGED <<rows, keys, proc, now, net, hist>> /\ leaving' \in BOOLEAN
      BY <1>3 DEF LeaveBegin
    <2>2. ProcOK' /\ StepFrames'
      BY <1>0, <2>1 DEF ProcOK, StepFrames, Handling
    <2> QED
      BY <1>0, <2>1, <2>2, RowsStill, KeysStill, NetStill, HistStill
      DEF Types, TypeOK, net
  <1>4. CASE LeaveDelete
    <2>1. torn' \in BOOLEAN /\ leaving' \in BOOLEAN
      BY <1>4 DEF LeaveDelete
    <2>2. ProcOK' /\ StepFrames'
      BY <1>0, <1>4 DEF LeaveDelete, ProcOK, StepFrames, Handling
    <2> QED
      BY <1>0, <1>4, <2>1, <2>2, DeletedTypes DEF LeaveDelete, Types, TypeOK
  <1>5. CASE Restart
    <2>1. torn' \in BOOLEAN /\ leaving' \in BOOLEAN
      BY <1>5 DEF Restart
    <2>2. HistOK'
      BY <1>0, <1>5, <2>1 DEF Restart, HistOK
    <2>3. UNCHANGED <<keys, now, net>> /\ proc' = Idle
      BY <1>5 DEF Restart
    <2>4. RowsOK'
      BY <1>0, <1>5 DEF Restart, RowsOK
    <2> QED
      BY <1>0, <2>1, <2>2, <2>3, <2>4, IdleProc, KeysStill, NetStill
      DEF Types, TypeOK, net
  <1>6. ASSUME NEW n \in 1..7, DeleteCut(n) PROVE Types'
    <2>1. ProcOK' /\ StepFrames' /\ leaving' \in BOOLEAN
      BY <1>6, IdleProc DEF DeleteCut
    <2>2. RowsOK'
      <3>1. susp' \in [Users -> 0..MaxTime]
        BY <1>0, <1>6 DEF DeleteCut, RowsOK
      <3>2. exists' \in BOOLEAN
        BY <1>6 DEF DeleteCut
      <3>3. /\ owner' \in Peers \cup {Nobody, Unknown}
            /\ roster' \subseteq Users /\ bans' \subseteq Peers
        BY <1>0, <1>6 DEF DeleteCut, RowsOK
      <3> QED
        BY <3>1, <3>2, <3>3 DEF RowsOK
    <2>3. KeysOK'
      BY <1>0, <1>6 DEF DeleteCut, KeysOK, NoSessions, Received
    <2>4. HistOK'
      BY <1>0, <1>6 DEF DeleteCut, HistOK
    <2>5. UNCHANGED <<now, net>>
      BY <1>6 DEF DeleteCut
    <2> QED
      BY <1>0, <2>1, <2>2, <2>3, <2>4, <2>5, NetStill DEF Types, TypeOK, net
  <1> QED
    BY <1>1, <1>2, <1>3, <1>4, <1>5, <1>6, SendTypes, ShareTypes, MegolmTypes DEF Next

\* The vault's tables for the group, the frame in hand and the network stay
\* within their types, however the handlers are interleaved and interrupted.
THEOREM TypeCorrect == Spec => []TypeOK
  <1>1. Spec => []Types
    BY InitTypes, NextTypes, PTL DEF Spec
  <1>2. Types => TypeOK
    BY DEF Types
  <1> QED
    BY <1>1, <1>2, PTL

----------------------------------------------------------------------------
(* A moderated user stays silent.                                          *)

\* A step that lifts moderation, or lets time pass, and leaves the sessions.
LEMMA Quieter ==
  ASSUME Types, SilentInv, bans' \subseteq bans, now' \in Nat, now <= now',
         \A u \in Users : susp'[u] = susp[u] \/ susp'[u] = 0, inb' = inb
  PROVE  /\ ModeratedSilent'
         /\ \A u \in Peers : Allowed(u) => Allowed(u)'
  <1>1. \A u \in Peers : Suspended(u)' => Suspended(u)
    BY GroupConstants DEF Types, TypeOK, RowsOK, Suspended, Users
  <1> QED
    BY <1>1 DEF SilentInv, ModeratedSilent, Allowed

LEMMA IdleSilent ==
  ASSUME proc' = Idle
  PROVE  Screened' /\ Forgotten'
  BY DEF Screened, Forgotten, Handling

LEMMA GotoAt ==
  ASSUME NEW steps, NEW frames, proc \in Work(steps, frames), NEW b, Goto(b)
  PROVE  proc'.frame = proc.frame /\ proc'.at = b /\ proc'.flag = proc.flag
  BY DEF Goto, Work

\* The sender of the frame in hand, and whom its event is about.
LEMMA InHand ==
  ASSUME Types, proc # Idle
  PROVE  /\ proc.frame.from \in Peers
         /\ Handling("bar") \/ Handling("forget") => proc.frame.who \in Peers
  <1>1. proc.frame \in Shares \cup Notes \cup Events
    BY DEF Types, TypeOK, ProcOK, Work
  <1> QED
    BY <1>1, FrameFields DEF Types, StepFrames

\* Steps after which nothing is screened and nothing forgotten is in hand.
Onward == {"chat", "members", "meta", "event", "apply", "unsuspend", "add",
           "forget"}

LEMMA OnwardSilent ==
  ASSUME NEW steps, NEW frames, proc \in Work(steps, frames),
         NEW b \in Onward, Goto(b)
  PROVE  Screened' /\ Forgotten'
  <1>1. proc'.at = b
    BY GotoAt
  <1> QED
    BY <1>1 DEF Screened, Forgotten, Handling, Onward

LEMMA InitSilent == Init => SilentInv
  <1> SUFFICES ASSUME Init PROVE SilentInv
    OBVIOUS
  <1>1. ModeratedSilent
    BY DEF Init, ModeratedSilent, NoSessions
  <1>2. Screened /\ Forgotten
    BY DEF Init, Screened, Forgotten, Handling
  <1> QED
    BY <1>1, <1>2 DEF SilentInv

LEMMA NextSilent == Types /\ SilentInv /\ [Next]_vars => SilentInv'
  <1> SUFFICES ASSUME Types, SilentInv, [Next]_vars PROVE SilentInv'
    OBVIOUS
  <1> USE GroupConstants
  <1>0. now \in Nat /\ now <= now /\ ModeratedSilent /\ Screened /\ Forgotten
    BY DEF Types, TypeOK, SilentInv
  \* The tables stay: what remains is the step the processor goes to.
  <1>1. ASSUME UNCHANGED <<rows, inb, now>>, Screened', Forgotten'
        PROVE  SilentInv'
    BY <1>0, <1>1, Quieter DEF rows, SilentInv
  <1>2. ASSUME UNCHANGED <<rows, inb, proc>>, now' \in Nat, now <= now'
        PROVE  SilentInv'
    <2>1. ModeratedSilent' /\ \A u \in Peers : Allowed(u) => Allowed(u)'
      BY <1>2, Quieter DEF rows
    <2>2. Screened'
      BY <1>0, <1>2, <2>1, InHand DEF Screened, Handling
    <2>3. Forgotten'
      BY <1>0, <1>2 DEF Forgotten, Handling
    <2> QED
      BY <2>1, <2>2, <2>3 DEF SilentInv
  <1>3. CASE \E p \in Peers : Sending(p)
    <2>1. UNCHANGED <<rows, inb, proc, now>>
      BY <1>3 DEF Sending, ShareKey, Write, Broadcast, Send, keys
    <2> QED
      BY <1>0, <1>2, <2>1
  <1>4. CASE Tick
    BY <1>0, <1>2, <1>4 DEF Tick, keys
  <1>5. CASE LeaveBegin \/ UNCHANGED vars
    <2>1. UNCHANGED <<rows, inb, proc, now>>
      BY <1>5 DEF LeaveBegin, vars, keys
    <2> QED
      BY <1>0, <1>2, <2>1
  <1>6. ASSUME NEW f \in wire, FetchShare(f) PROVE SilentInv'
    <2>1. f.from \in Peers
      BY <1>6, FrameFields DEF Types, TypeOK, NetOK, Frames
    <2>2. /\ bans' \subseteq bans /\ inb' = inb /\ now' = now
          /\ \A u \in Users : susp'[u] = susp[u] \/ susp'[u] = 0
      BY <1>6 DEF FetchShare, keys, Types, TypeOK, RowsOK
    <2>3. ModeratedSilent' /\ \A u \in Peers : Allowed(u) => Allowed(u)'
      BY <1>0, <2>2, Quieter
    <2>4. CASE Moderated(f.from)
      BY <1>6, <2>3, <2>4, IdleSilent DEF FetchShare, SilentInv
    <2>5. CASE ~Moderated(f.from)
      <3>1. Allowed(f.from)'
        BY <2>1, <2>3, <2>5 DEF Moderated, Allowed
      <3>2. proc' = At("standing", f, ~exists, NoSession)
        BY <1>6, <2>5 DEF FetchShare
      <3>3. proc'.frame = f /\ proc'.at = "standing"
        BY <3>2 DEF At
      <3> QED
        BY <2>3, <3>1, <3>3 DEF SilentInv, Screened, Forgotten, Handling
    <2> QED
      BY <2>4, <2>5
  <1>7. CASE Standing
    <2>1. UNCHANGED <<rows, inb, now>>
      BY <1>7 DEF Standing, keys
    <2>2. CASE proc' = Idle
      BY <1>1, <2>1, <2>2, IdleSilent
    <2>3. CASE proc' # Idle
      <3>1. proc'.frame = proc.frame /\ proc'.at = "key"
        BY <1>7, <2>3 DEF Standing, At
      <3>2. Allowed(proc.frame.from)
        BY <1>0, <1>7 DEF Standing, Screened
      <3>3. Screened' /\ Forgotten'
        BY <1>7, <3>1, <2>1, <3>2 DEF Screened, Forgotten, Handling, Allowed,
           Suspended, rows
      <3> QED
        BY <1>1, <2>1, <3>3
    <2> QED
      BY <2>2, <2>3
  <1>8. CASE ShareSession
    <2>1. Allowed(proc.frame.from) /\ proc.frame.from \in Peers
      BY <1>0, <1>8, InHand DEF ShareSession, Screened, Handling
    <2>2. UNCHANGED <<rows, now>>
      BY <1>8 DEF ShareSession
    <2>3. ModeratedSilent'
      BY <1>0, <1>8, <2>1, <2>2
      DEF ShareSession, ModeratedSilent, Suspended, Allowed, rows, Types,
          TypeOK, KeysOK
    <2>4. Screened' /\ Forgotten'
      <3>1. proc \in Work(ShareSteps, Shares)
        BY <1>8, ShareInHand DEF ShareSession, ShareSteps, Types, TypeOK
      <3> QED
        BY <1>8, <3>1, IdleSilent, OnwardSilent DEF ShareSession, Onward
    <2> QED
      BY <2>3, <2>4 DEF SilentInv
  <1>9. CASE ShareChat \/ ShareMembers
    <2>1. /\ bans' \subseteq bans /\ inb' = inb /\ now' = now
          /\ \A u \in Users : susp'[u] = susp[u] \/ susp'[u] = 0
      BY <1>9 DEF ShareChat, ShareMembers, keys
    <2>2. Screened' /\ Forgotten'
      <3>1. proc \in Work(ShareSteps, Shares)
        BY <1>9, ShareInHand DEF ShareChat, ShareMembers, ShareSteps, Types, TypeOK
      <3> QED
        BY <1>9, <3>1, OnwardSilent DEF ShareChat, ShareMembers, Onward
    <2> QED
      BY <1>0, <2>1, <2>2, Quieter DEF SilentInv
  <1>10. CASE ShareMeta \/ ApplyPlain \/ ApplyLeft \/ ApplyAdd \/ Restart
    <2>1. /\ bans' \subseteq bans /\ inb' = inb /\ now' = now
          /\ \A u \in Users : susp'[u] = susp[u] \/ susp'[u] = 0
      BY <1>10 DEF ShareMeta, ApplyPlain, ApplyLeft, ApplyAdd, Restart, keys, rows
    <2>2. Screened' /\ Forgotten'
      BY <1>10, IdleSilent
      DEF ShareMeta, ApplyPlain, ApplyLeft, ApplyAdd, Restart
    <2> QED
      BY <1>0, <2>1, <2>2, Quieter DEF SilentInv
  <1>11. ASSUME NEW f \in wire, Open(f) PROVE SilentInv'
    <2>1. UNCHANGED <<rows, inb, now>>
      BY <1>11 DEF Open, keys
    <2>2. CASE proc' = Idle
      BY <1>1, <2>1, <2>2, IdleSilent
    <2>3. CASE proc' # Idle
      <3>1. f.from \in Peers /\ f.sid \in Sessions
        BY FrameFields DEF Types, TypeOK, NetOK, Frames
      <3>2. /\ proc' = At("accept", f, FALSE, inb[f.from])
            /\ inb[f.from].sid = f.sid
        BY <1>11, <2>3 DEF Open
      <3>3. inb[f.from] # NoSession
        BY <3>1, <3>2 DEF NoSession, Sessions
      <3>4. Allowed(f.from)
        BY <1>0, <3>1, <3>3 DEF ModeratedSilent, Allowed
      <3>5. proc'.frame = f /\ proc'.at = "accept"
        BY <3>2 DEF At
      <3>6. Screened' /\ Forgotten'
        BY <2>1, <3>4, <3>5 DEF Screened, Forgotten, Handling, Allowed,
           Suspended, rows
      <3> QED
        BY <1>1, <2>1, <3>6
    <2> QED
      BY <2>2, <2>3
  <1>12. CASE Accept
    <2>1. UNCHANGED <<rows, inb, now>>
      BY <1>12 DEF Accept
    <2>2. CASE proc' = Idle
      BY <1>1, <2>1, <2>2, IdleSilent
    <2>3. CASE proc' # Idle
      <3>1. proc \in Work(MegolmSteps, Notes \cup Events)
        BY <1>12, MegolmInHand DEF Accept, MegolmSteps, Types, TypeOK
      <3>2. proc'.frame = proc.frame /\ proc'.at = "save"
        BY <1>12, <2>3, <3>1, GotoAt DEF Accept
      <3>3. Allowed(proc.frame.from)
        BY <1>0, <1>12 DEF Accept, Screened
      <3>4. Screened' /\ Forgotten'
        BY <2>1, <3>2, <3>3 DEF Screened, Forgotten, Handling, Allowed,
           Suspended, rows
      <3> QED
        BY <1>1, <2>1, <3>4
    <2> QED
      BY <2>2, <2>3
  <1>13. CASE SaveSession
    <2>1. Allowed(proc.frame.from) /\ proc.frame.from \in Peers
      BY <1>0, <1>13, InHand DEF SaveSession, Screened, Handling
    <2>2. UNCHANGED <<rows, now>>
      BY <1>13 DEF SaveSession
    <2>3. ModeratedSilent'
      BY <1>0, <1>13, <2>1, <2>2
      DEF SaveSession, ModeratedSilent, Suspended, Allowed, rows, Types,
          TypeOK, KeysOK
    <2>4. Screened' /\ Forgotten'
      <3>1. proc \in Work(MegolmSteps, Notes \cup Events)
        BY <1>13, MegolmInHand DEF SaveSession, MegolmSteps, Types, TypeOK
      <3> QED
        BY <1>13, <3>1, OnwardSilent DEF SaveSession, Onward
    <2> QED
      BY <2>3, <2>4 DEF SilentInv
  <1>14. CASE CheckOwner \/ ApplyRemove \/ ApplyJoined \/ ApplyUnsuspend
    <2>1. /\ bans' \subseteq bans /\ inb' = inb /\ now' = now
          /\ \A u \in Users : susp'[u] = susp[u] \/ susp'[u] = 0
      BY <1>14 DEF CheckOwner, ApplyRemove, ApplyJoined, ApplyUnsuspend, keys,
         rows, Types, TypeOK, RowsOK
    <2>2. Screened' /\ Forgotten'
      <3>1. proc \in Work(MegolmSteps, Notes \cup Events)
        BY <1>14, MegolmInHand DEF CheckOwner, ApplyRemove, ApplyJoined,
           ApplyUnsuspend, MegolmSteps, Types, TypeOK
      <3> QED
        BY <1>14, <3>1, IdleSilent, OnwardSilent DEF CheckOwner, ApplyRemove,
           ApplyJoined, ApplyUnsuspend, Onward
    <2> QED
      BY <1>0, <2>1, <2>2, Quieter DEF SilentInv
  <1>15. CASE ApplyForget
    <2>1. proc.frame.who \in Peers
      BY <1>15, InHand DEF ApplyForget, Handling
    <2>2. UNCHANGED <<rows, now>> /\ inb' = [inb EXCEPT ![proc.frame.who] = NoSession]
      BY <1>15 DEF ApplyForget
    <2>3. inb'[proc.frame.who] = NoSession /\ ModeratedSilent'
      BY <1>0, <2>1, <2>2 DEF ModeratedSilent, Suspended, rows, Types, TypeOK,
         KeysOK
    <2>4. proc'.frame = proc.frame /\ proc'.at = "bar"
      <3>1. proc \in Work(MegolmSteps, Notes \cup Events)
        BY <1>15, MegolmInHand DEF ApplyForget, MegolmSteps, Types, TypeOK
      <3> QED
        BY <1>15, <3>1, GotoAt DEF ApplyForget
    <2> QED
      BY <2>3, <2>4 DEF SilentInv, Screened, Forgotten, Handling
  <1>16. CASE ApplyBar
    <2>1. proc.frame.who \in Peers /\ inb[proc.frame.who] = NoSession
      BY <1>0, <1>16, InHand DEF ApplyBar, Forgotten, Handling
    <2>2. \A u \in Peers : u # proc.frame.who =>
             susp'[u] = susp[u] /\ (u \in bans' => u \in bans)
      BY <1>16 DEF ApplyBar, Types, TypeOK, RowsOK, Users
    <2>3. inb' = inb /\ now' = now
      BY <1>16 DEF ApplyBar, keys
    <2>4. ModeratedSilent'
      BY <1>0, <2>1, <2>2, <2>3 DEF ModeratedSilent, Suspended
    <2> QED
      BY <1>16, <2>4, IdleSilent DEF ApplyBar, SilentInv
  <1>17. CASE ApplyGone \/ LeaveDelete
    <2>1. bans' = {} /\ inb' = NoSessions /\ now' = now
          /\ susp' = [u \in Users |-> 0]
      BY <1>17 DEF ApplyGone, LeaveDelete, DeleteChat
    <2>2. ModeratedSilent' /\ \A u \in Peers : Allowed(u)'
      BY <1>0, <2>1 DEF ModeratedSilent, NoSessions, Allowed, Suspended, Users
    <2>3. Screened' /\ Forgotten'
      <3>1. CASE proc' = Idle
        BY <3>1, IdleSilent
      <3>2. CASE UNCHANGED proc /\ proc # Idle
        BY <2>1, <2>2, <3>2, InHand DEF Screened, Forgotten, Handling, NoSessions
      <3> QED
        BY <1>17, <3>1, <3>2 DEF ApplyGone, LeaveDelete
    <2> QED
      BY <2>2, <2>3 DEF SilentInv
  \* delete_chat drops the sessions before the bans and the suspensions.
  <1>18. ASSUME NEW n \in 1..7, DeleteCut(n) PROVE SilentInv'
    <2>1. Screened' /\ Forgotten'
      BY <1>18, IdleSilent DEF DeleteCut
    <2>2. CASE n >= 4
      <3>1. inb' = NoSessions
        BY <1>18, <2>2 DEF DeleteCut
      <3> QED
        BY <2>1, <3>1 DEF SilentInv, ModeratedSilent, NoSessions
    <2>3. CASE ~(n >= 4)
      <3>1. UNCHANGED <<inb, bans, susp, now>>
        BY <1>18, <2>3 DEF DeleteCut
      <3> QED
        BY <1>0, <2>1, <3>1, Quieter DEF SilentInv
    <2> QED
      BY <2>2, <2>3
  <1> QED
    BY <1>3, <1>4, <1>5, <1>6, <1>7, <1>8, <1>9, <1>10, <1>11, <1>12, <1>13,
       <1>14, <1>15, <1>16, <1>17, <1>18 DEF Next, HandlingShare, HandlingMegolm

\* A banned or suspended user's messages cannot be decrypted: however many key
\* shares arrive in whatever order, and wherever leave_chat or the end of the
\* process cuts process_group_event or handle_group_key_share, or the end of
\* the process delete_chat.
THEOREM ModeratedSilentAlways == Spec => []ModeratedSilent
  <1>1. Init => Types /\ SilentInv
    BY InitTypes, InitSilent
  <1>2. (Types /\ SilentInv) /\ [Next]_vars => (Types /\ SilentInv)'
    BY NextTypes, NextSilent
  <1>3. Types /\ SilentInv => ModeratedSilent
    BY DEF SilentInv
  <1> QED
    BY <1>1, <1>2, <1>3, PTL DEF Spec

----------------------------------------------------------------------------
(* The recorded owner stays.                                               *)

LEMMA IdleOwner == ASSUME proc' = Idle PROVE OwnerInv'
  BY DEF OwnerInv, Owning, Handling

\* Nothing of a Megolm frame's handling is about the owner's row.
LEMMA MegolmOwner ==
  ASSUME proc' \in Work(MegolmSteps, Notes \cup Events)
  PROVE  OwnerInv'
  BY DEF OwnerInv, Owning, Handling, Work, MegolmSteps

LEMMA SameOwner ==
  ASSUME OwnerInv, UNCHANGED <<owner, proc>>
  PROVE  OwnerInv'
  BY DEF OwnerInv, Owning, Handling

Pinned == owner # Nobody => /\ owner' \in {owner, Nobody}
                            /\ owner' = Nobody => ~exists'

LEMMA NextOwner ==
  ASSUME Types, OwnerInv, [Next]_vars
  PROVE  OwnerInv' /\ Pinned
  <1> USE GroupConstants
  <1>0. ProcOK
    BY DEF Types, TypeOK
  <1>1. ASSUME UNCHANGED owner PROVE Pinned
    BY <1>1 DEF Pinned
  <1>2. CASE (\E p \in Peers : Sending(p)) \/ Tick \/ LeaveBegin \/ UNCHANGED vars
    <2>1. UNCHANGED <<owner, proc>>
      BY <1>2 DEF Sending, ShareKey, Write, Broadcast, Send, Tick, LeaveBegin,
         vars, rows
    <2> QED
      BY <1>1, <2>1, SameOwner
  <1>3. CASE ApplyPlain \/ ApplyLeft \/ ApplyAdd \/ ApplyBar \/ Restart
    <2>1. proc' = Idle /\ (owner # Nobody => owner' = owner)
      BY <1>3 DEF ApplyPlain, ApplyLeft, ApplyAdd, ApplyBar, Restart, rows
    <2> QED
      BY <2>1, IdleOwner DEF Pinned
  <1>4. CASE \/ Accept \/ SaveSession \/ CheckOwner \/ ApplyJoined
             \/ ApplyUnsuspend \/ ApplyRemove \/ ApplyForget
    <2>1. UNCHANGED owner
      BY <1>4 DEF Accept, SaveSession, CheckOwner, ApplyJoined, ApplyUnsuspend,
         ApplyRemove, ApplyForget, rows
    <2>2. proc \in Work(MegolmSteps, Notes \cup Events)
      BY <1>0, <1>4, MegolmInHand DEF Accept, SaveSession, CheckOwner,
         ApplyJoined, ApplyUnsuspend, ApplyRemove, ApplyForget, MegolmSteps
    <2>3. CASE proc' = Idle
      BY <1>1, <2>1, <2>3, IdleOwner
    <2>4. CASE proc' # Idle
      <3>1. \E b \in MegolmSteps : Goto(b)
        BY <1>4, <2>4 DEF Accept, SaveSession, CheckOwner, ApplyJoined,
           ApplyUnsuspend, ApplyRemove, ApplyForget, MegolmSteps
      <3>2. proc' \in Work(MegolmSteps, Notes \cup Events)
        BY <2>2, <3>1 DEF Goto, Work
      <3> QED
        BY <1>1, <2>1, <3>2, MegolmOwner
    <2> QED
      BY <2>3, <2>4
  <1>5. CASE \E f \in wire : FetchShare(f) \/ Open(f)
    <2>1. UNCHANGED owner
      BY <1>5 DEF FetchShare, Open, rows
    <2>2. proc' = Idle \/ proc'.at \in {"standing", "accept"}
      BY <1>5 DEF FetchShare, Open, At
    <2> QED
      BY <1>1, <2>1, <2>2, IdleOwner DEF OwnerInv, Owning, Handling
  <1>6. CASE Standing
    <2>1. UNCHANGED owner
      BY <1>6 DEF Standing, rows
    <2>2. CASE proc' = Idle
      BY <1>1, <2>1, <2>2, IdleOwner
    <2>3. CASE proc' # Idle
      <3>1. proc' = At("key", proc.frame, OwnerShare(proc.frame, proc.flag), NoSession)
        BY <1>6, <2>3 DEF Standing
      <3>2. /\ proc'.at = "key" /\ proc'.frame = proc.frame
            /\ proc'.flag = OwnerShare(proc.frame, proc.flag)
        BY <3>1 DEF At
      <3>3. OwnerShare(proc.frame, proc.flag) => owner \in {Nobody, proc.frame.from}
        BY DEF OwnerShare
      <3>4. OwnerInv'
        BY <2>1, <3>2, <3>3 DEF OwnerInv, Owning, Handling
      <3> QED
        BY <1>1, <2>1, <3>4
    <2> QED
      BY <2>2, <2>3
  <1>7. CASE ShareSession \/ ShareChat \/ ShareMembers
    <2>1. UNCHANGED owner
      BY <1>7 DEF ShareSession, ShareChat, ShareMembers, rows
    <2>2. proc \in Work(ShareSteps, Shares)
      BY <1>0, <1>7, ShareInHand DEF ShareSession, ShareChat, ShareMembers,
         ShareSteps
    <2>3. CASE proc' = Idle
      BY <1>1, <2>1, <2>3, IdleOwner
    <2>4. CASE proc' # Idle
      <3>1. /\ \E b \in {"chat", "members", "meta"} : Goto(b)
            /\ proc.flag /\ owner \in {Nobody, proc.frame.from}
        BY <1>7, <2>4 DEF ShareSession, ShareChat, ShareMembers, OwnerInv, Owning
      <3>2. /\ proc'.frame = proc.frame /\ proc'.flag = proc.flag
            /\ proc'.at \in {"chat", "members", "meta"}
        BY <2>2, <3>1, GotoAt
      <3>3. OwnerInv'
        BY <2>1, <3>1, <3>2 DEF OwnerInv, Owning, Handling
      <3> QED
        BY <1>1, <2>1, <3>3
    <2> QED
      BY <2>3, <2>4
  <1>8. CASE ShareMeta
    <2>1. proc' = Idle /\ owner' \in {owner, proc.frame.from}
      BY <1>8 DEF ShareMeta
    <2>2. owner \in {Nobody, proc.frame.from}
      BY <1>8 DEF ShareMeta, OwnerInv, Owning
    <2> QED
      BY <2>1, <2>2, IdleOwner DEF Pinned
  <1>9. CASE ApplyGone \/ LeaveDelete
    <2>1. owner' = Nobody /\ ~exists' /\ (proc' = Idle \/ UNCHANGED proc)
      BY <1>9 DEF ApplyGone, LeaveDelete, DeleteChat
    <2>2. OwnerInv'
      BY <2>1, IdleOwner DEF OwnerInv, Owning, Handling
    <2> QED
      BY <2>1, <2>2 DEF Pinned
  <1>10. CASE \E n \in 1..7 : DeleteCut(n)
    <2>1. owner' \in {owner, Nobody} /\ ~exists' /\ proc' = Idle
      BY <1>10 DEF DeleteCut
    <2> QED
      BY <2>1, IdleOwner DEF Pinned
  <1> QED
    BY <1>2, <1>3, <1>4, <1>5, <1>6, <1>7, <1>8, <1>9, <1>10
    DEF Next, HandlingShare, HandlingMegolm

\* Nobody takes the recorded owner's place while the group is there: neither a
\* share that claims the group nor one whose handling leave_chat overtook.
THEOREM OwnerPinnedAlways == Spec => OwnerPinned
  <1>1. Init => Types /\ OwnerInv
    <2>1. Init => OwnerInv
      BY DEF Init, OwnerInv, Owning, Handling
    <2> QED
      BY <2>1, InitTypes
  <1>2. (Types /\ OwnerInv) /\ [Next]_vars => (Types /\ OwnerInv)'
    BY NextTypes, NextOwner
  <1>3. (Types /\ OwnerInv) /\ [Next]_vars
        => [owner # Nobody => /\ owner' \in {owner, Nobody}
                              /\ owner' = Nobody => ~exists']_vars
    BY NextOwner DEF Pinned
  <1> QED
    BY <1>1, <1>2, <1>3, PTL DEF Spec, OwnerPinned

----------------------------------------------------------------------------
(* The replay guard.                                                       *)

SameSession(f, g) == f.from = g.from /\ f.sid = g.sid

\* Nothing applied lies above the high-water mark of its session...
Below == \A i \in 1..Len(applied) :
             applied[i].idx <= seen[applied[i].from][applied[i].sid]

\* ... and a frame accepted but not yet applied is on it, above the rest.
Accepted == Handling("save") \/ Handling("event") \/ Handling("apply")
OnTop ==
    Accepted =>
        /\ seen[proc.frame.from][proc.frame.sid] = proc.frame.idx
        /\ \A i \in 1..Len(applied) :
               SameSession(applied[i], proc.frame) => applied[i].idx < proc.frame.idx

Guard == Below /\ OnTop /\ AppliedInOrder
GuardInv == ~torn => Guard

LEMMA IdleGuard ==
  ASSUME Guard, UNCHANGED <<seen, applied, torn>>, proc' = Idle
  PROVE  Guard'
  BY DEF Guard, Below, OnTop, Accepted, Handling, AppliedInOrder

\* A step to where the frame in hand is accepted only if it was before.
LEMMA StepGuard ==
  ASSUME Guard, UNCHANGED <<seen, applied, torn>>, proc # Idle, Accepted' => Accepted,
         proc'.frame = proc.frame
  PROVE  Guard'
  BY DEF Guard, Below, OnTop, AppliedInOrder

\* Accepted and applied.
LEMMA ApplyGuard ==
  ASSUME Types, ~torn, Guard, Handling("apply"), Applied, UNCHANGED <<seen, torn>>,
         proc' = Idle \/ (Goto("unsuspend") \/ Goto("forget"))
  PROVE  Guard'
  <1> DEFINE f == proc.frame
  <1>1. /\ proc \in Work(MegolmSteps, Notes \cup Events)
        /\ f \in Notes \cup Events
    BY MegolmInHand DEF MegolmSteps, Types, TypeOK
  <1>2. applied \in Seq(Notes \cup Events)
    BY DEF Types, TypeOK, HistOK
  <1>3. /\ f.idx \in Int
        /\ \A i \in 1..Len(applied) : applied[i].idx \in Int
    BY <1>1, <1>2, FrameFields
  <1>4. /\ Len(applied') = Len(applied) + 1 /\ Len(applied) \in Nat
        /\ applied'[Len(applied) + 1] = f
        /\ \A i \in 1..Len(applied) : applied'[i] = applied[i]
    BY <1>1, <1>2 DEF Applied
  <1>5. /\ seen[f.from][f.sid] = f.idx
        /\ \A i \in 1..Len(applied) :
               SameSession(applied[i], f) => applied[i].idx < f.idx
    BY DEF Guard, OnTop, Accepted
  <1> HIDE DEF f
  <1>6. Below'
    <2> SUFFICES ASSUME NEW i \in 1..Len(applied')
                 PROVE  applied'[i].idx <= seen[applied'[i].from][applied'[i].sid]
      BY DEF Below
    <2>1. CASE i = Len(applied) + 1
      BY <1>3, <1>4, <1>5, <2>1
    <2>2. CASE i \in 1..Len(applied)
      BY <1>4, <2>2 DEF Guard, Below
    <2> QED
      BY <1>4, <2>1, <2>2
  <1>7. AppliedInOrder'
    <2> SUFFICES ASSUME NEW i \in 1..Len(applied'), NEW j \in 1..Len(applied'),
                        i < j, applied'[i].from = applied'[j].from,
                        applied'[i].sid = applied'[j].sid
                 PROVE  applied'[i].idx < applied'[j].idx
      BY DEF AppliedInOrder
    <2>1. i \in 1..Len(applied)
      BY <1>4
    <2>2. CASE j = Len(applied) + 1
      BY <1>4, <1>5, <2>1, <2>2 DEF SameSession
    <2>3. CASE j \in 1..Len(applied)
      BY <1>4, <2>1, <2>3 DEF Guard, AppliedInOrder
    <2> QED
      BY <1>4, <2>2, <2>3
  <1>8. OnTop'
    <2>1. CASE proc' = Idle
      BY <2>1 DEF OnTop, Accepted, Handling
    <2>2. CASE Goto("unsuspend") \/ Goto("forget")
      <3>1. proc'.at \in {"unsuspend", "forget"}
        BY <1>1, <2>2, GotoAt
      <3> QED
        BY <3>1 DEF OnTop, Accepted, Handling
    <2> QED
      BY <2>1, <2>2
  <1> QED
    BY <1>6, <1>7, <1>8 DEF Guard

LEMMA NextGuard ==
  ASSUME Types, GuardInv, [Next]_vars
  PROVE  GuardInv'
  <1> SUFFICES ASSUME ~torn' PROVE Guard'
    BY DEF GuardInv
  <1> USE GroupConstants
  <1>0. ProcOK /\ KeysOK /\ HistOK
    BY DEF Types, TypeOK
  <1>1. CASE (\E p \in Peers : Sending(p)) \/ Tick \/ LeaveBegin \/ UNCHANGED vars
    <2>1. UNCHANGED <<seen, applied, torn, proc>>
      BY <1>1 DEF Sending, ShareKey, Write, Broadcast, Send, Tick, LeaveBegin,
         vars, keys, hist
    <2> QED
      BY <2>1 DEF GuardInv, Guard, Below, OnTop, Accepted, Handling, AppliedInOrder
  <1>2. CASE ShareMeta \/ ApplyAdd \/ ApplyBar
    <2>1. UNCHANGED <<seen, applied, torn>> /\ proc' = Idle
      BY <1>2 DEF ShareMeta, ApplyAdd, ApplyBar, keys, hist
    <2> QED
      BY <2>1, IdleGuard DEF GuardInv
  <1>3. CASE Restart
    <2>1. torn \in BOOLEAN /\ torn' = (torn \/ proc # Idle)
      BY <1>0, <1>3 DEF Restart, HistOK
    <2>2. torn' = torn
      BY <2>1
    <2>3. UNCHANGED <<seen, applied>> /\ proc' = Idle
      BY <1>3 DEF Restart, keys
    <2> QED
      BY <2>2, <2>3, IdleGuard DEF GuardInv
  <1>4. CASE ApplyGone \/ LeaveDelete
    <2>1. LeaveDelete => proc = Idle
      BY DEF LeaveDelete
    <2>2. applied' = <<>> /\ proc' = Idle
      BY <1>4, <2>1 DEF ApplyGone, LeaveDelete, DeleteChat
    <2>3. Len(applied') = 0
      BY <2>2
    <2> QED
      BY <2>2, <2>3 DEF Guard, Below, OnTop, Accepted, Handling, AppliedInOrder
  <1>5. CASE \E f \in wire : FetchShare(f) \/ Open(f)
    <2>1. UNCHANGED <<seen, applied, torn>>
      BY <1>5 DEF FetchShare, Open, keys, hist
    <2>2. proc' = Idle \/ proc'.at \in {"standing", "accept"}
      BY <1>5 DEF FetchShare, Open, At
    <2> QED
      BY <2>1, <2>2 DEF GuardInv, Guard, Below, OnTop, Accepted, Handling,
         AppliedInOrder
  <1>6. CASE Standing \/ ShareSession \/ ShareChat \/ ShareMembers
    <2>1. UNCHANGED <<seen, applied, torn>>
      BY <1>6 DEF Standing, ShareSession, ShareChat, ShareMembers, keys, hist
    <2>2. proc \in Work(ShareSteps, Shares)
      BY <1>0, <1>6, ShareInHand DEF Standing, ShareSession, ShareChat,
         ShareMembers, ShareSteps
    <2>3. proc' = Idle \/ proc'.at \in {"key", "chat", "members", "meta"}
      BY <1>6, <2>2, GotoAt DEF Standing, ShareSession, ShareChat, ShareMembers, At
    <2> QED
      BY <2>1, <2>3 DEF GuardInv, Guard, Below, OnTop, Accepted, Handling,
         AppliedInOrder
  <1>7. CASE SaveSession \/ CheckOwner \/ ApplyUnsuspend \/ ApplyForget
    <2>1. UNCHANGED <<seen, applied, torn>>
      BY <1>7 DEF SaveSession, CheckOwner, ApplyUnsuspend, ApplyForget, keys, hist
    <2>2. proc \in Work(MegolmSteps, Notes \cup Events)
      BY <1>0, <1>7, MegolmInHand DEF SaveSession, CheckOwner, ApplyUnsuspend,
         ApplyForget, MegolmSteps
    <2>3. CASE proc' = Idle
      BY <2>1, <2>3, IdleGuard DEF GuardInv
    <2>4. CASE proc' # Idle
      <3>1. /\ proc'.frame = proc.frame
            /\ Accepted' => Accepted
            /\ proc # Idle
        BY <1>7, <2>2, <2>4, GotoAt DEF SaveSession, CheckOwner, ApplyUnsuspend,
           ApplyForget, Accepted, Handling
      <3> QED
        BY <2>1, <3>1, StepGuard DEF GuardInv
    <2> QED
      BY <2>3, <2>4
  <1>8. CASE ApplyPlain \/ ApplyLeft \/ ApplyJoined \/ ApplyRemove
    <2>1. /\ UNCHANGED <<seen, torn>> /\ Handling("apply") /\ Applied
          /\ proc' = Idle \/ (Goto("unsuspend") \/ Goto("forget"))
      BY <1>8 DEF ApplyPlain, ApplyLeft, ApplyJoined, ApplyRemove, keys
    <2> QED
      BY <2>1, ApplyGuard DEF GuardInv
  <1>9. CASE Accept
    <2> DEFINE f == proc.frame
    <2>1. UNCHANGED <<applied, torn>> /\ Guard
      BY <1>9 DEF Accept, GuardInv
    <2>2. CASE ~Fresh(f)
      BY <1>9, <2>1, <2>2, IdleGuard DEF Accept
    <2>3. CASE Fresh(f)
      <3>1. proc \in Work(MegolmSteps, Notes \cup Events) /\ f \in Notes \cup Events
        BY <1>0, <1>9, MegolmInHand DEF Accept, MegolmSteps
      <3>2. proc'.frame = f /\ proc'.at = "save"
        BY <1>9, <2>3, <3>1, GotoAt DEF Accept
      <3>3. f.from \in Peers /\ f.sid \in Sessions /\ f.idx \in Int
        BY <3>1, FrameFields
      <3>4. seen' = [seen EXCEPT ![f.from][f.sid] = f.idx]
        BY <1>9, <2>3 DEF Accept
      <3>5. f.idx > seen[f.from][f.sid] /\ seen[f.from][f.sid] \in Int
        BY <1>0, <2>3, <3>3 DEF Fresh, KeysOK
      <3> HIDE DEF f
      <3>6. seen'[f.from][f.sid] = f.idx
        BY <1>0, <3>3, <3>4 DEF KeysOK
      <3>7. ASSUME NEW i \in 1..Len(applied)
            PROVE  /\ applied[i].idx <= seen'[applied[i].from][applied[i].sid]
                   /\ SameSession(applied[i], f) => applied[i].idx < f.idx
        <4>1. applied[i] \in Notes \cup Events
          BY <1>0 DEF HistOK
        <4>2. /\ applied[i].from \in Peers /\ applied[i].sid \in Sessions
              /\ applied[i].idx \in Int
          BY <4>1, FrameFields
        <4>3. applied[i].idx <= seen[applied[i].from][applied[i].sid]
          BY <2>1 DEF Guard, Below
        <4>4. CASE SameSession(applied[i], f)
          BY <3>3, <3>5, <3>6, <4>2, <4>3, <4>4 DEF SameSession
        <4>5. CASE ~SameSession(applied[i], f)
          <5>1. seen'[applied[i].from][applied[i].sid]
                  = seen[applied[i].from][applied[i].sid]
            BY <1>0, <3>3, <3>4, <4>2, <4>5 DEF KeysOK, SameSession
          <5> QED
            BY <4>3, <4>5, <5>1
        <4> QED
          BY <4>4, <4>5
      <3>8. Below' /\ OnTop'
        BY <2>1, <3>2, <3>6, <3>7 DEF Below, OnTop
      <3>9. AppliedInOrder'
        BY <2>1 DEF Guard, AppliedInOrder
      <3> QED
        BY <3>8, <3>9 DEF Guard
    <2> QED
      BY <2>2, <2>3
  <1>10. CASE \E n \in 1..7 : DeleteCut(n)
    BY <1>10 DEF DeleteCut
  <1> QED
    BY <1>1, <1>2, <1>3, <1>4, <1>5, <1>6, <1>7, <1>8, <1>9, <1>10
    DEF Next, HandlingShare, HandlingMegolm

\* Whatever the relay repeats or reorders, and across leaving and joining
\* again, megolm_accept lets each frame of a session act once and in order --
\* as long as no handler is cut in two.
THEOREM AppliedInOrderAlways == Spec => []AppliedInOrder
  <1>1. Init => Types /\ GuardInv
    <2>1. Init => GuardInv
      <3> SUFFICES ASSUME Init PROVE Guard
        BY DEF GuardInv
      <3>1. Len(applied) = 0
        BY DEF Init
      <3> QED
        BY <3>1 DEF Init, Guard, Below, OnTop, Accepted, Handling, AppliedInOrder
    <2> QED
      BY <2>1, InitTypes
  <1>2. (Types /\ GuardInv) /\ [Next]_vars => (Types /\ GuardInv)'
    BY NextTypes, NextGuard
  <1>3. Types /\ GuardInv => AppliedInOrder
    BY DEF GuardInv, Guard, AppliedInOrder
  <1> QED
    BY <1>1, <1>2, <1>3, PTL DEF Spec

----------------------------------------------------------------------------
(* The sessions a group keeps.                                             *)

\* Everybody whose session is kept has a reason to be heard, or made the group,
\* or is u.
KeptBut(u) ==
    \E f \in Peers :
        /\ owner \in {f, Nobody, Unknown}
        /\ \A p \in Peers : inb[p] # NoSession
                                => p = u \/ p \in roster \cup leavers \cup {f}
Kept == KeptBut(Nobody)
Alive == exists
Gone ==
    /\ ~exists /\ owner = Nobody /\ roster = {} /\ bans = {}
    /\ inb = NoSessions /\ seen = NothingSeen
Settled == Gone \/ (Alive /\ Kept)

\* What the share that makes a group has brought so far: its sender's session
\* and no other; the row comes last.
Sole ==
    /\ owner = Nobody
    /\ \A p \in Peers : inb[p] # NoSession => p = proc.frame.from

\* Of a share in hand: whether it founds the group, or comes from its owner or a
\* member of it.
ShareStage ==
    /\ Handling("standing") => Settled /\ (proc.flag <=> ~exists)
    /\ Handling("key") =>
          \/ proc.flag /\ Gone
          \/ /\ Alive /\ Kept /\ proc.frame.from \in roster \cup {owner}
             /\ proc.flag => proc.frame.from = owner
    /\ Handling("chat") \/ Handling("members") \/ Handling("meta") =>
          /\ Sole \/ (Alive /\ Kept /\ proc.frame.from = owner)
          /\ ~Handling("chat") => exists

\* Of a Megolm frame in hand: it was read with a session the group keeps.
MegolmStage ==
    proc # Idle /\ proc.at \in MegolmSteps =>
        /\ Alive
        /\ IF proc.at = "forget" THEN KeptBut(proc.frame.who) ELSE Kept
        /\ proc.at \in {"accept", "save"} => inb[proc.frame.from] # NoSession

Standings == (proc = Idle => Settled) /\ ShareStage /\ MegolmStage
MemberInv == ~torn => Standings

LEMMA IdleStandings == ASSUME proc' = Idle, Settled' PROVE Standings'
  BY DEF Standings, ShareStage, MegolmStage, Handling

\* The rows decide it.
LEMMA SameSettled ==
  ASSUME UNCHANGED <<exists, owner, roster, bans, leavers, keys>>
  PROVE  /\ Settled' = Settled
         /\ Kept' = Kept
         /\ Alive' = Alive
         /\ Gone' = Gone
         /\ \A u : KeptBut(u)' = KeptBut(u)
  <1>1. \A u : KeptBut(u)' = KeptBut(u)
    BY DEF KeptBut, keys
  <1>2. Kept' = Kept
    BY DEF Kept, KeptBut, keys
  <1>3. Alive' = Alive /\ Gone' = Gone
    BY DEF Alive, Gone, keys, NoSessions, NothingSeen
  <1> QED
    BY <1>1, <1>2, <1>3 DEF Settled

LEMMA SameStandings ==
  ASSUME Standings, UNCHANGED <<exists, owner, roster, bans, leavers, keys, proc>>
  PROVE  Standings'
  <1>1. proc = Idle => Settled'
    BY SameSettled DEF Standings
  <1>2. ShareStage'
    BY SameSettled DEF Standings, ShareStage, Sole, Handling, keys
  <1>3. MegolmStage'
    BY SameSettled DEF Standings, MegolmStage, KeptBut, keys
  <1> QED
    BY <1>1, <1>2, <1>3 DEF Standings

\* delete_chat leaves nothing behind.
LEMMA DeletedSettled == ASSUME DeleteChat PROVE Settled'
  <1>1. inb' = NoSessions' /\ seen' = NothingSeen'
    BY DEF DeleteChat, NoSessions, NothingSeen
  <1>2. ~exists' /\ owner' = Nobody /\ roster' = {} /\ bans' = {}
    BY DEF DeleteChat
  <1> QED
    BY <1>1, <1>2 DEF Settled, Gone

\* On to another step of the handler, at which the group is as it should be.
LEMMA MegolmOnward ==
  ASSUME proc \in Work(MegolmSteps, Notes \cup Events), NEW b \in MegolmSteps,
         Goto(b), Alive',
         IF b = "forget" THEN KeptBut(proc.frame.who)' ELSE Kept',
         b \in {"accept", "save"} => inb'[proc.frame.from] # NoSession
  PROVE  Standings'
  <1>1. proc'.at = b /\ proc'.frame = proc.frame /\ proc' # Idle
    BY DEF Goto, Work, Idle
  <1>2. MegolmStage'
    BY <1>1 DEF MegolmStage
  <1>3. ShareStage'
    BY <1>1 DEF ShareStage, Handling, MegolmSteps
  <1> QED
    BY <1>1, <1>2, <1>3 DEF Standings

LEMMA InitStandings == Init => Standings
  <1> SUFFICES ASSUME Init PROVE Standings
    OBVIOUS
  <1>1. Gone /\ proc = Idle
    BY DEF Init, Gone
  <1> QED
    BY <1>1 DEF Standings, Settled, ShareStage, MegolmStage, Handling

\* A handler that was cut says nothing any more.
LEMMA NextMembers == Types /\ MemberInv /\ [Next]_vars => MemberInv'
  <1> SUFFICES ASSUME Types, MemberInv, [Next]_vars, ~torn' PROVE Standings'
    BY DEF MemberInv
  <1> USE GroupConstants
  <1>0. Standings /\ ~torn /\ ProcOK /\ RowsOK /\ KeysOK
    <2>1. ~torn
      <3>1. CASE \E p \in Peers : Sending(p)
        BY <3>1 DEF Sending, ShareKey, Write, Broadcast, Send, hist
      <3>2. CASE \E f \in wire : FetchShare(f) \/ Open(f)
        BY <3>2 DEF FetchShare, Open, hist
      <3>3. CASE HandlingShare
        BY <3>3 DEF HandlingShare, Standing, ShareSession, ShareChat, ShareMembers,
           ShareMeta, hist
      <3>4. CASE HandlingMegolm
        BY <3>4 DEF HandlingMegolm, Accept, SaveSession, CheckOwner, ApplyPlain,
           ApplyLeft, ApplyGone, ApplyJoined, ApplyUnsuspend, ApplyAdd, ApplyRemove,
           ApplyForget, ApplyBar, hist
      <3>5. CASE LeaveBegin \/ LeaveDelete \/ Restart \/ Tick \/ \E n \in 1..7 : DeleteCut(n)
        BY <3>5 DEF LeaveBegin, LeaveDelete, Restart, DeleteCut, Tick, hist
      <3>6. CASE UNCHANGED vars
        BY <3>6 DEF vars, hist
      <3> QED
        BY <3>1, <3>2, <3>3, <3>4, <3>5, <3>6 DEF Next
    <2> QED
      BY <2>1 DEF MemberInv, Types, TypeOK
  <1>1. CASE (\E p \in Peers : Sending(p)) \/ Tick \/ LeaveBegin \/ UNCHANGED vars
    <2>1. UNCHANGED <<rows, keys, proc, leavers>>
      BY <1>1 DEF Sending, ShareKey, Write, Broadcast, Send, Tick, LeaveBegin, vars, hist
    <2> QED
      BY <1>0, <2>1, SameStandings DEF rows
  <1>2. ASSUME NEW f \in wire, FetchShare(f) PROVE Standings'
    <2>1. UNCHANGED <<exists, owner, roster, bans, leavers, keys>> /\ proc = Idle
      BY <1>2 DEF FetchShare, hist
    <2>2. Settled'
      BY <1>0, <2>1, SameSettled DEF Standings
    <2>3. proc' = Idle \/ proc' = At("standing", f, ~exists, NoSession)
      BY <1>2 DEF FetchShare
    <2>4. CASE proc' # Idle
      <3>1. proc'.at = "standing" /\ proc'.flag = ~exists /\ exists' = exists
        BY <2>1, <2>3, <2>4 DEF At
      <3> QED
        BY <2>2, <2>4, <3>1 DEF Standings, ShareStage, MegolmStage, Handling, MegolmSteps
    <2> QED
      BY <2>2, <2>4, IdleStandings
  <1>3. ASSUME NEW f \in wire, Open(f) PROVE Standings'
    <2>1. UNCHANGED <<exists, owner, roster, bans, leavers, keys>> /\ proc = Idle
      BY <1>3 DEF Open, hist, rows
    <2>2. Settled' /\ Settled
      BY <1>0, <2>1, SameSettled DEF Standings
    <2>3. CASE proc' # Idle
      <3>1. proc' = At("accept", f, FALSE, inb[f.from]) /\ inb[f.from].sid = f.sid
        BY <1>3, <2>3 DEF Open
      <3>2. f \in Frames /\ f.from \in Peers /\ f.sid \in Sessions
        <4>1. f \in Frames
          BY DEF Types, TypeOK, NetOK
        <4> QED
          BY <4>1, FrameFields DEF Frames
      <3>3. inb[f.from] # NoSession
        BY <3>1, <3>2 DEF NoSession, Sessions
      <3>4. Alive' /\ Kept' /\ inb' = inb
        BY <2>1, <2>2, <3>2, <3>3, SameSettled DEF Settled, Gone, NoSessions, keys
      <3>5. proc'.at = "accept" /\ proc'.frame = f
        BY <3>1 DEF At
      <3>6. MegolmStage'
        BY <3>3, <3>4, <3>5 DEF MegolmStage
      <3> QED
        BY <2>3, <3>5, <3>6 DEF Standings, ShareStage, Handling
    <2> QED
      BY <2>2, <2>3, IdleStandings
  <1>4. CASE Standing
    <2>1. UNCHANGED <<exists, owner, roster, bans, leavers, keys>> /\ Handling("standing")
      BY <1>4 DEF Standing, hist, rows
    <2>2. Settled' /\ Settled /\ (proc.flag <=> ~exists)
      BY <1>0, <2>1, SameSettled DEF Standings, ShareStage
    <2>3. CASE proc' # Idle
      <3>1. /\ proc' = At("key", proc.frame, OwnerShare(proc.frame, proc.flag), NoSession)
            /\ \/ OwnerShare(proc.frame, proc.flag)
               \/ ~proc.flag /\ proc.frame.from \in roster
        BY <1>4, <2>3 DEF Standing
      <3>2. /\ proc'.at = "key" /\ proc'.frame = proc.frame
            /\ proc'.flag = OwnerShare(proc.frame, proc.flag)
        BY <3>1 DEF At
      <3>3. CASE proc.flag
        <4>1. Gone' /\ proc'.flag
          BY <2>1, <2>2, <3>1, <3>2, <3>3, SameSettled DEF OwnerShare, Settled, Alive
        <4>2. ShareStage'
          BY <3>2, <4>1 DEF ShareStage, Handling
        <4> QED
          BY <2>3, <3>2, <4>2 DEF Standings, MegolmStage, MegolmSteps
      <3>4. CASE ~proc.flag
        <4>1. Alive' /\ Kept'
          BY <2>1, <2>2, <3>4, SameSettled DEF Settled, Gone
        <4>2. /\ proc.frame.from \in roster' \cup {owner'}
              /\ proc'.flag => proc.frame.from = owner'
          BY <2>1, <3>1, <3>2, <3>4 DEF OwnerShare
        <4>3. ShareStage'
          BY <3>2, <4>1, <4>2 DEF ShareStage, Handling
        <4> QED
          BY <2>3, <3>2, <4>3 DEF Standings, MegolmStage, MegolmSteps
      <3> QED
        BY <3>3, <3>4
    <2> QED
      BY <2>2, <2>3, IdleStandings
  <1>5. CASE ShareSession
    <2>1. /\ Handling("key") /\ UNCHANGED <<exists, owner, roster, bans, seen, leavers>>
          /\ inb' = [inb EXCEPT ![proc.frame.from] = [sid |-> proc.frame.sid, first |-> proc.frame.idx]]
          /\ IF proc.flag THEN Goto("chat") ELSE proc' = Idle
      BY <1>5 DEF ShareSession, hist, rows
    <2>2. /\ proc \in Work(ShareSteps, Shares) /\ proc.frame.from \in Peers
          /\ inb \in [Peers -> Received]
      BY <1>0, <2>1, ShareInHand, FrameFields DEF ShareSteps, KeysOK
    <2>3. \A p \in Peers : p # proc.frame.from => inb'[p] = inb[p]
      BY <2>1, <2>2
    <2>4. CASE Alive /\ Kept /\ proc.frame.from \in roster \cup {owner}
      <3>0. PICK f \in Peers :
               /\ owner \in {f, Nobody, Unknown}
               /\ \A p \in Peers : inb[p] # NoSession
                                       => p \in roster \cup leavers \cup {f}
        BY <2>4 DEF Kept, KeptBut, Users
      <3>1. proc.frame.from \in roster \cup {f}
        BY <2>2, <2>4, <3>0 DEF Users
      <3>a. Alive' /\ Kept'
        BY <2>1, <2>3, <2>4, <3>0, <3>1 DEF Alive, Kept, KeptBut
      <3>2. CASE ~proc.flag
        BY <2>1, <3>a, <3>2, IdleStandings DEF Settled
      <3>3. CASE proc.flag
        <4>1. proc'.at = "chat" /\ proc'.frame = proc.frame /\ proc' # Idle
          BY <2>1, <2>2, <3>3, GotoAt DEF Goto, Work, Idle
        <4>2. proc.frame.from = owner
          BY <1>0, <2>1, <2>4, <3>3 DEF Standings, ShareStage, Gone, Alive
        <4> QED
          BY <2>1, <3>a, <4>1, <4>2 DEF Standings, ShareStage, MegolmStage, Handling, MegolmSteps
      <3> QED
        BY <3>2, <3>3
    <2>5. CASE proc.flag /\ Gone
      <3>1. proc'.at = "chat" /\ proc'.frame = proc.frame /\ proc' # Idle
        BY <2>1, <2>2, <2>5, GotoAt DEF Goto, Work, Idle
      <3>2. Sole'
        BY <2>1, <2>3, <2>5, <3>1 DEF Sole, Gone, NoSessions
      <3> QED
        BY <3>1, <3>2 DEF Standings, ShareStage, MegolmStage, Handling, MegolmSteps
    <2> QED
      BY <1>0, <2>1, <2>4, <2>5 DEF Standings, ShareStage
  <1>6. CASE ShareChat
    <2>1. /\ Handling("chat") /\ exists' = TRUE /\ Goto("members")
          /\ UNCHANGED <<owner, roster, inb, leavers>>
      BY <1>6 DEF ShareChat, hist, keys
    <2>2. proc \in Work(ShareSteps, Shares)
      BY <1>0, <2>1, ShareInHand DEF ShareSteps
    <2>3. proc'.at = "members" /\ proc'.frame = proc.frame /\ proc' # Idle
      BY <2>1, <2>2, GotoAt DEF Goto, Work, Idle
    <2>4. Sole' \/ (Alive' /\ Kept' /\ proc'.frame.from = owner')
      BY <1>0, <2>1, <2>3 DEF Standings, ShareStage, Sole, Alive, Kept, KeptBut
    <2> QED
      BY <2>1, <2>3, <2>4 DEF Standings, ShareStage, MegolmStage, Handling, MegolmSteps
  <1>7. CASE ShareMembers
    <2>1. /\ Handling("members") /\ roster \subseteq roster' /\ Goto("meta")
          /\ UNCHANGED <<exists, owner, inb, leavers>>
      BY <1>7 DEF ShareMembers, hist, keys
    <2>2. proc \in Work(ShareSteps, Shares)
      BY <1>0, <2>1, ShareInHand DEF ShareSteps
    <2>3. proc'.at = "meta" /\ proc'.frame = proc.frame /\ proc' # Idle
      BY <2>1, <2>2, GotoAt DEF Goto, Work, Idle
    <2>4. Sole' \/ (Alive' /\ Kept' /\ proc'.frame.from = owner')
      BY <1>0, <2>1, <2>3 DEF Standings, ShareStage, Sole, Alive, Kept, KeptBut
    <2>5. exists'
      BY <1>0, <2>1 DEF Standings, ShareStage, Handling
    <2> QED
      BY <2>3, <2>4, <2>5 DEF Standings, ShareStage, MegolmStage, Handling, MegolmSteps
  <1>8. CASE ShareMeta
    <2>1. /\ Handling("meta") /\ proc' = Idle /\ UNCHANGED <<exists, roster, inb, leavers>>
          /\ owner' = IF proc.frame.keyed THEN proc.frame.from ELSE owner
      BY <1>8 DEF ShareMeta, hist, keys
    <2>2. exists /\ (Sole \/ (Alive /\ Kept /\ proc.frame.from = owner))
      BY <1>0, <2>1 DEF Standings, ShareStage, Handling
    <2>3. proc.frame.from \in Peers
      BY <1>0, <2>1, ShareInHand, FrameFields DEF ShareSteps, Users
    <2>4. Alive' /\ Kept'
      BY <2>1, <2>2, <2>3 DEF Sole, Alive, Kept, KeptBut
    <2> QED
      BY <2>1, <2>4, IdleStandings DEF Settled
  <1>9. CASE ApplyGone \/ LeaveDelete
    <2>1. DeleteChat /\ proc' = Idle
      BY <1>0, <1>9 DEF ApplyGone, LeaveDelete
    <2> QED
      BY <2>1, DeletedSettled, IdleStandings
  <1>10. CASE Restart
    <2>1. /\ UNCHANGED <<exists, roster, bans, keys, leavers>>
          /\ owner' = IF exists /\ owner = Nobody THEN Unknown ELSE owner
          /\ proc' = Idle /\ proc = Idle
      BY <1>10, <1>0 DEF Restart
    <2>2. CASE Gone
      BY <2>1, <2>2, IdleStandings DEF Settled, Gone, NoSessions, NothingSeen, keys
    <2>3. CASE Alive /\ Kept
      <3>1. Alive' /\ Kept'
        BY <2>1, <2>3 DEF Alive, Kept, KeptBut, keys
      <3> QED
        BY <2>1, <3>1, IdleStandings DEF Settled
    <2> QED
      BY <1>0, <2>1, <2>2, <2>3 DEF Standings, Settled
  <1>11. CASE \E n \in 1..7 : DeleteCut(n)
    BY <1>11 DEF DeleteCut
  \* A Megolm frame in hand.
  <1>a. ASSUME NEW b \in MegolmSteps, Handling(b)
        PROVE  /\ proc \in Work(MegolmSteps, Notes \cup Events) /\ proc.frame.from \in Peers
               /\ Alive /\ (b # "forget" => Kept)
               /\ b \in {"accept", "save"} => inb[proc.frame.from] # NoSession
    <2>1. /\ proc \in Work(MegolmSteps, Notes \cup Events) /\ proc.frame.from \in Peers
      BY <1>0, <1>a, MegolmInHand, FrameFields
    <2> QED
      BY <1>0, <1>a, <2>1 DEF Standings, MegolmStage, Handling
  <1>12. CASE Accept
    <2>1. /\ Handling("accept") /\ UNCHANGED <<exists, owner, roster, inb, leavers>>
          /\ proc' = Idle \/ Goto("save")
      BY <1>12 DEF Accept, rows
    <2>2. "accept" \in MegolmSteps /\ "save" \in MegolmSteps
      BY DEF MegolmSteps
    <2>3. Alive' /\ Kept' /\ inb'[proc.frame.from] # NoSession
      BY <1>a, <2>1, <2>2 DEF Alive, Kept, KeptBut
    <2>4. CASE Goto("save")
      BY <1>a, <2>1, <2>2, <2>3, <2>4, MegolmOnward
    <2> QED
      BY <2>1, <2>3, <2>4, IdleStandings DEF Settled
  <1>13. CASE SaveSession
    <2>1. /\ Handling("save") /\ UNCHANGED <<exists, owner, roster, leavers>>
          /\ inb' = [inb EXCEPT ![proc.frame.from] = proc.key]
          /\ Goto("apply") \/ Goto("event")
      BY <1>13 DEF SaveSession, rows, hist
    <2>2. "save" \in MegolmSteps /\ "apply" \in MegolmSteps /\ "event" \in MegolmSteps
      BY DEF MegolmSteps
    <2>3. \A p \in Peers : p # proc.frame.from => inb'[p] = inb[p]
      BY <1>0, <2>1 DEF KeysOK
    <2>4. Alive' /\ Kept'
      BY <1>a, <2>1, <2>2, <2>3 DEF Alive, Kept, KeptBut
    <2>5. proc \in Work(MegolmSteps, Notes \cup Events)
      BY <1>a, <2>1, <2>2
    <2>6. CASE Goto("apply")
      BY <2>2, <2>4, <2>5, <2>6, MegolmOnward
    <2>7. CASE Goto("event")
      BY <2>2, <2>4, <2>5, <2>7, MegolmOnward
    <2> QED
      BY <2>1, <2>6, <2>7
  <1>14. CASE CheckOwner \/ ApplyPlain \/ ApplyBar
    <2>1. PICK b \in {"event", "apply", "bar"} :
             /\ Handling(b) /\ UNCHANGED <<exists, owner, roster, inb, leavers>>
             /\ proc' = Idle \/ Goto("apply")
      BY <1>14 DEF CheckOwner, ApplyPlain, ApplyBar, rows, keys, hist
    <2>2. b \in MegolmSteps /\ b # "forget" /\ "apply" \in MegolmSteps
      BY DEF MegolmSteps
    <2>3. Alive' /\ Kept'
      BY <1>a, <2>1, <2>2 DEF Alive, Kept, KeptBut
    <2>4. CASE Goto("apply")
      BY <1>a, <2>1, <2>2, <2>3, <2>4, MegolmOnward
    <2> QED
      BY <2>1, <2>3, <2>4, IdleStandings DEF Settled
  <1>15. CASE ApplyLeft
    <2>1. /\ Handling("apply") /\ UNCHANGED <<exists, owner, inb>> /\ proc' = Idle
          /\ roster' = roster \ {proc.frame.from}
          /\ leavers' = leavers \cup {proc.frame.from}
      BY <1>15 DEF ApplyLeft, keys
    <2>2. Alive' /\ Kept'
      BY <1>a, <2>1 DEF Alive, Kept, KeptBut, MegolmSteps
    <2> QED
      BY <2>1, <2>2, IdleStandings DEF Settled
  <1>16. CASE ApplyJoined \/ ApplyUnsuspend
    <2>1. PICK b \in {"apply", "unsuspend"}, d \in {"unsuspend", "add"} :
             /\ Handling(b) /\ UNCHANGED <<exists, owner, roster, inb, leavers>>
             /\ Goto(d)
      BY <1>16 DEF ApplyJoined, ApplyUnsuspend, keys, hist
    <2>2. b \in MegolmSteps /\ d \in MegolmSteps /\ "forget" \notin {b, d}
          /\ d \notin {"accept", "save"}
      BY DEF MegolmSteps
    <2>3. Alive' /\ Kept'
      BY <1>a, <2>1, <2>2 DEF Alive, Kept, KeptBut
    <2> QED
      BY <1>a, <2>1, <2>2, <2>3, MegolmOnward
  <1>17. CASE ApplyAdd
    <2>1. /\ Handling("add") /\ UNCHANGED <<exists, owner, inb>> /\ proc' = Idle
          /\ roster' = roster \cup {proc.frame.who}
          /\ leavers' = leavers \ {proc.frame.who}
      BY <1>17 DEF ApplyAdd, keys
    <2>2. Alive' /\ Kept'
      BY <1>a, <2>1 DEF Alive, Kept, KeptBut, MegolmSteps
    <2> QED
      BY <2>1, <2>2, IdleStandings DEF Settled
  <1>18. CASE ApplyRemove
    <2>1. /\ Handling("apply") /\ UNCHANGED <<exists, owner, inb, leavers>>
          /\ roster' = roster \ {proc.frame.who} /\ Goto("forget")
      BY <1>18 DEF ApplyRemove, keys
    <2>2. "apply" \in MegolmSteps /\ "forget" \in MegolmSteps
      BY DEF MegolmSteps
    <2>3. proc \in Work(MegolmSteps, Notes \cup Events) /\ Alive /\ Kept
      BY <1>a, <2>1, <2>2
    <2>4. proc'.frame = proc.frame
      BY <2>1, <2>3, GotoAt
    <2>5. Alive' /\ KeptBut(proc.frame.who)'
      BY <2>1, <2>3, <2>4 DEF Alive, Kept, KeptBut, Users
    <2> QED
      BY <2>1, <2>2, <2>3, <2>5, MegolmOnward
  <1>19. CASE ApplyForget
    <2>1. /\ Handling("forget") /\ UNCHANGED <<exists, owner, roster>> /\ Goto("bar")
          /\ inb' = [inb EXCEPT ![proc.frame.who] = NoSession]
          /\ leavers' = leavers \ {proc.frame.who}
      BY <1>19 DEF ApplyForget, rows
    <2>2. "forget" \in MegolmSteps /\ "bar" \in MegolmSteps
      BY DEF MegolmSteps
    <2>3. proc \in Work(MegolmSteps, Notes \cup Events) /\ Alive
      BY <1>a, <2>1, <2>2
    <2>4. KeptBut(proc.frame.who)
      BY <1>0, <2>1, <2>2 DEF Standings, MegolmStage, Handling
    <2>5. \A p \in Peers : inb'[p] = IF p = proc.frame.who THEN NoSession ELSE inb[p]
      BY <1>0, <2>1 DEF KeysOK
    <2>6. Alive' /\ Kept'
      BY <2>1, <2>3, <2>4, <2>5 DEF Alive, Kept, KeptBut
    <2> QED
      BY <2>1, <2>2, <2>3, <2>6, MegolmOnward
  <1> QED
    BY <1>1, <1>2, <1>3, <1>4, <1>5, <1>6, <1>7, <1>8, <1>9, <1>10, <1>11, <1>12,
       <1>13, <1>14, <1>15, <1>16, <1>17, <1>18, <1>19
    DEF Next, HandlingShare, HandlingMegolm

\* Between frames every session a group keeps belongs to a member, to somebody
\* who left of their own accord or to the one peer whose share made the group;
\* nobody but that peer is its recorded owner; and a group that is gone has left
\* nothing behind.  For any group, any relay and any number of sessions.
THEOREM SessionsOfMembersAlways == Spec => []SessionsOfMembers
  <1>1. Init => Types /\ MemberInv
    BY InitTypes, InitStandings DEF MemberInv
  <1>2. (Types /\ MemberInv) /\ [Next]_vars => (Types /\ MemberInv)'
    BY NextTypes, NextMembers
  <1>3. Types /\ MemberInv => SessionsOfMembers
    <2> SUFFICES ASSUME Types, Standings, proc = Idle PROVE SessionsOfMembers
      BY DEF MemberInv, SessionsOfMembers
    <2>1. Settled /\ Nobody \notin Peers
      BY GroupConstants DEF Standings, Users
    <2> QED
      BY <2>1 DEF Settled, Gone, Alive, Kept, KeptBut, SessionsOfMembers
  <1> QED
    BY <1>1, <1>2, <1>3, PTL DEF Spec
============================================================================
