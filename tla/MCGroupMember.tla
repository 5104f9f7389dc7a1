---------------------------- MODULE MCGroupMember ----------------------------
(* Small instances of GroupMember for TLC.                                   *)
EXTENDS GroupMember, TLC

\* A roster as the owner sends it.
FullRoster == {Users}

\* Peers are let in, removed, banned and suspended; this user is banned.  (Word of
\* its own suspension does no more to it than a text.)
EveryOrder ==
    [kind : {"joined", "removed"}, who : Peers, until : {0}]
    \cup [kind : {"banned"}, who : Users, until : {0}]
    \cup [kind : {"suspended"}, who : Peers, until : {1}]

PeerSymmetry == Permutations(Peers)
==============================================================================
