---------------------------- MODULE MCGroupOwner ----------------------------
EXTENDS GroupOwner, TLC

UserSymmetry == Permutations(Users)
=============================================================================
