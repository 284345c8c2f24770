----------------------------- MODULE MCFriendship -----------------------------
EXTENDS Friendship, TLC
Symm == Permutations(Users) \union Permutations(Moves)
===============================================================================
