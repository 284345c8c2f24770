------------------------------- MODULE Quizzes -------------------------------
(***************************************************************************)
(* One quiz of a room: quizz.service.ts, read by read and write by write.  *)
(*                                                                         *)
(* A quiz has two names, Mongo's _id ("oid") and its quiz_id ("own").      *)
(* byQuizId finds it under either; the write of a submission looks for     *)
(* quiz_id alone, and an update stores the name it was asked under as the  *)
(* quiz_id.  What the questions say, and times, are left out.              *)
(***************************************************************************)
EXTENDS Naturals, Sequences, FiniteSets

CONSTANTS Users,
          Right,     \* [question -> the indices of its correct answers]
          Multiple,  \* the questions of kind multiple_choice; the others take one
          Papers,    \* sequences of [question, chosen]
          Ids,       \* the names clients use, of {"own", "oid"}
          Subs,      \* bound: submissions handled at a time
          MaxSubs,   \* bound: submissions in all
          None

VARIABLES quiz,     \* None before it is made and after it is deleted
          made,
          sub,      \* submissions between their read and their write
          last,     \* history: the paper each user was last told is submitted
          both,     \* history: users with two submissions at once
          lost,     \* history: users whose last submission was written under a name that is
                    \* not the quiz_id stored
          subbed

vars == <<quiz, made, sub, last, both, lost, subbed>>

States == {"draft", "active", "completed"}

Result == [user : Users, paper : Papers, correct : Nat]

Submission == [user : Users, id : Ids, paper : Papers, correct : Nat, had : BOOLEAN]

Quiz == [qid : {"own", "oid"}, status : States, retake : BOOLEAN,
         results : Seq(Result), total : Nat]

\* A paper is a sequence, and no value stands for two things.
ConstantsAssumption ==
  /\ \A p \in Papers : Len(p) \in Nat /\ DOMAIN p = 1..Len(p)
  /\ None \notin Papers \union Quiz \union Submission
  /\ Ids \subseteq {"own", "oid"} /\ MaxSubs \in Nat

Init ==
  /\ quiz = None /\ made = FALSE /\ subbed = 0 /\ both = {} /\ lost = {}
  /\ sub = [s \in Subs |-> None]
  /\ last = [u \in Users |-> None]

\* Is an answer correct?  All the right ones, or the one that is chosen.
IsCorrect(a) ==
  IF a.question \in Multiple
  THEN Len(a.chosen) = Cardinality(Right[a.question])
       /\ \A i \in Right[a.question] : \E k \in DOMAIN a.chosen : a.chosen[k] = i
  ELSE Len(a.chosen) = 1 /\ a.chosen[1] \in Right[a.question]

Grade(paper) == Cardinality({k \in DOMAIN paper : IsCorrect(paper[k])})

ById(id) == quiz # None /\ (id = "oid" \/ quiz.qid = id)

Had(u) == {k \in DOMAIN quiz.results : quiz.results[k].user = u}

-------------------------------------------------------------------------------
(* The owner *)

Create(status, retake) ==
  /\ ~made /\ made' = TRUE
  /\ quiz' = [qid |-> "own", status |-> status, retake |-> retake, results |-> <<>>, total |-> 0]
  /\ UNCHANGED <<sub, last, both, lost, subbed>>

\* The fields of the request are stored, quiz_id among them.
Update(id, status, retake) ==
  /\ ById(id)
  /\ quiz' = [quiz EXCEPT !.qid = id, !.status = status, !.retake = retake]
  /\ UNCHANGED <<made, sub, last, both, lost, subbed>>

Delete(id) ==
  /\ ById(id) /\ quiz' = None
  /\ UNCHANGED <<made, sub, last, both, lost, subbed>>

-------------------------------------------------------------------------------
(* A submission *)

Submit(s, u, id, paper) ==
  /\ sub[s] = None /\ subbed < MaxSubs
  /\ ById(id) /\ quiz.status = "active"
  /\ Had(u) = {} \/ quiz.retake
  /\ sub' = [sub EXCEPT ![s] =
       [user |-> u, id |-> id, paper |-> paper, correct |-> Grade(paper), had |-> Had(u) # {}]]
  /\ both' = both \union {v \in {u} : \E r \in Subs : sub[r] # None /\ sub[r].user = u}
  /\ subbed' = subbed + 1
  /\ UNCHANGED <<quiz, made, last, lost>>

Entry(q) == [user |-> q.user, paper |-> q.paper, correct |-> q.correct]

\* Mutant: a retake is one more result.
StoredTwice(q) ==
  [quiz EXCEPT !.results = Append(@, Entry(q)), !.total = IF q.had THEN @ ELSE @ + 1]

\* The first result of the user is replaced, or a new one is pushed.
Stored(q) ==
  IF q.had
  THEN LET k == CHOOSE i \in Had(q.user) : \A j \in Had(q.user) : i <= j
       IN [quiz EXCEPT !.results[k] = Entry(q)]
  ELSE [quiz EXCEPT !.results = Append(@, Entry(q)), !.total = @ + 1]

Store(s) ==
  LET q == sub[s] IN
  /\ q # None
  /\ IF quiz # None /\ quiz.qid = q.id /\ (q.had => Had(q.user) # {})
     THEN quiz' = Stored(q) ELSE UNCHANGED quiz
  /\ last' = [last EXCEPT ![q.user] = q.paper]
  /\ lost' = IF quiz # None /\ quiz.qid # q.id THEN lost \union {q.user} ELSE lost \ {q.user}
  /\ sub' = [sub EXCEPT ![s] = None]
  /\ UNCHANGED <<made, both, subbed>>

Fail(s) ==
  /\ sub[s] # None /\ sub' = [sub EXCEPT ![s] = None]
  /\ UNCHANGED <<quiz, made, last, both, lost, subbed>>

Next ==
  \/ \E status \in States, retake \in BOOLEAN :
       Create(status, retake) \/ \E id \in Ids : Update(id, status, retake)
  \/ \E id \in Ids : Delete(id) \/ \E s \in Subs, u \in Users, p \in Papers : Submit(s, u, id, p)
  \/ \E s \in Subs : Store(s) \/ Fail(s)

Spec == Init /\ [][Next]_vars

\* The leaderboard: the best first; the times, which order equals, are left out.
Ahead(i, j) ==
  LET m == quiz.results[i].correct
      n == quiz.results[j].correct
  IN  m > n \/ (m = n /\ i <= j)

Rank(k) == Cardinality({j \in DOMAIN quiz.results : Ahead(j, k)})

Leaderboard ==
  [n \in DOMAIN quiz.results |-> quiz.results[CHOOSE k \in DOMAIN quiz.results : Rank(k) = n]]

\* Where a user stands in a list.
Of(u, results) == {k \in DOMAIN results : results[k].user = u}

-------------------------------------------------------------------------------
(* Properties *)

TypeOK ==
  /\ made \in BOOLEAN /\ subbed \in 0..MaxSubs /\ both \subseteq Users /\ lost \subseteq Users
  /\ quiz # None => quiz \in Quiz
  /\ sub \in [Subs -> Submission \union {None}]
  /\ last \in [Users -> Papers \union {None}]

\* The questions a paper answers right, and whether it answers none twice.
RightOnes(p) == {p[k].question : k \in {i \in DOMAIN p : IsCorrect(p[i])}}
EachOnce(p) == \A i, j \in DOMAIN p : p[i].question = p[j].question => i = j

\* Whatever names the quiz is asked under and given meanwhile, who never had two
\* submissions at once, and whose last one was not written under a name that is no
\* longer, or never was, the quiz_id stored (SubmittedIsKept shows what comes of it), is
\* on the leaderboard once, with the last paper whose submission was answered, and with
\* as many correct answers as it has questions answered right, if it answers none twice,
\* which nothing forbids.
LastCounts ==
  quiz # None => \A u \in Users \ (both \union lost) :
    IF last[u] = None THEN Of(u, Leaderboard) = {}
    ELSE \E k \in DOMAIN Leaderboard :
           /\ Of(u, Leaderboard) = {k}
           /\ Leaderboard[k].paper = last[u]
           /\ EachOnce(last[u]) => Leaderboard[k].correct = Cardinality(RightOnes(last[u]))

\* The comment on byQuizId: the chat client "ưu tiên gửi `_id`" (sends the _id for
\* preference), so a submission under it is to be found, and kept.
SubmittedIsKept ==
  quiz # None => \A u \in Users \ both : last[u] # None => Of(u, quiz.results) # {}
===============================================================================
