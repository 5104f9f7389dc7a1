------------------------------ MODULE MCRelay ------------------------------
(* Small instances of Relay for TLC.                                       *)
EXTENDS Relay, TLC

CONSTANTS a, b, c1, c2, c3

\* One Send to the peer; one that repeats the peer, names the author and a
\* third user.
ToPeer == {<<b>>}
ToMany == {<<b, a, b>>}

\* A frame of one character and one byte; one of a character that takes two
\* bytes; one that alone takes as much as the largest quota used here, or more.
Plain == [chars |-> 1, bytes |-> 1]
Wide == [chars |-> 1, bytes |-> 2]
Long == [chars |-> 3, bytes |-> 3]
PlainOnly == {Plain}
PlainOrLong == {Plain, Long}
WideOrLong == {Wide, Long}

ConnSymmetry == Permutations(Conns)
============================================================================
