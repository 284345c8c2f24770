------------------------------ MODULE MCQuizzes ------------------------------
EXTENDS Quizzes, TLC
Answers == 1 :> {1, 2} @@ 2 :> {1}
TwoPapers ==
  {<<[question |-> 1, chosen |-> <<2, 1>>], [question |-> 2, chosen |-> <<2>>]>>,
   <<[question |-> 2, chosen |-> <<1>>], [question |-> 1, chosen |-> <<2, 1>>]>>}
Symm == Permutations(Users) \union Permutations(Subs)
===============================================================================
