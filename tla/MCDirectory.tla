---------------------------- MODULE MCDirectory ----------------------------
(* A small instance of Directory for TLC.                                  *)
EXTENDS Directory, TLC

CONSTANTS alice, bob, root, ka, kb, c1, c2

TwoHolders == c1 :> ka @@ c2 :> kb

\* A batch of two, and one that repeats a key id; either may come again.
Repeating == {<<"k1", "k2">>, <<"k3", "k3">>}
============================================================================
