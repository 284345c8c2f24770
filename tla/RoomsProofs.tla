------------------------------ MODULE RoomsProofs ------------------------------
(***************************************************************************)
(* Proofs about the parts of MCRooms: the group rooms (Rooms), the search  *)
(* index (Embeddings) and the decks of flashcards (Flashcards), for any    *)
(* users, any requests side by side, any roles, texts and cards, and any   *)
(* number of bounded events.                                               *)
(***************************************************************************)
EXTENDS MCRooms, Sequences, FiniteSetTheorems, SequenceTheorems, WellFoundedInduction, TLAPS

-------------------------------------------------------------------------------
(* Lists of members *)

Entry == Chat!Member

\* u is listed once at most; no one is listed twice.
Once(m, u) == \A i, j \in DOMAIN m : m[i].user = u /\ m[j].user = u => i = j
Distinct(m) == \A u \in Guests : Once(m, u)

LEMMA FirstPlace ==
  ASSUME NEW S \in SUBSET Nat, S # {}
  PROVE  Chat!Min(S) \in S /\ \A y \in S : Chat!Min(S) <= y
<1>1. PICK x \in S : \A y \in S : ~ (<<y, x>> \in OpToRel(<, Nat))
  BY NatLessThanWellFounded, WFMin, Zenon
<1>2. \A y \in S : ~ (y < x)
  BY <1>1, Zenon DEF OpToRel
<1>3. \A y \in S : y \in Nat /\ x \in Nat => x <= y
  BY <1>2
<1>4. QED
  BY <1>3 DEF Chat!Min

\* The instance counts as the modules here do.
LEMMA SameCount ==
  ASSUME NEW S
  PROVE  Chat!Cardinality(S) = Cardinality(S)
BY DEF Chat!Cardinality, Cardinality

\* The places of a finite set of numbers are numbered through.
LEMMA Ranks ==
  ASSUME NEW S \in SUBSET Nat, IsFiniteSet(S)
  PROVE  /\ Cardinality(S) \in Nat
         /\ \A i \in S : Chat!Rank(S, i) \in 1..Cardinality(S)
         /\ \A i, j \in S : Chat!Rank(S, i) = Chat!Rank(S, j) => i = j
         /\ \A k \in 1..Cardinality(S) : \E i \in S : Chat!Rank(S, i) = k
<1> DEFINE upTo(i) == {j \in S : j <= i}
           rank == [i \in S |-> Chat!Rank(S, i)]
<1>1. \A i \in S : upTo(i) \subseteq S /\ i \in upTo(i)
  OBVIOUS
<1>2. Cardinality(S) \in Nat
  BY FS_CardinalityType
<1>3. ASSUME NEW i \in S
      PROVE  IsFiniteSet(upTo(i)) /\ Chat!Rank(S, i) = Cardinality(upTo(i))
             /\ Chat!Rank(S, i) \in 1..Cardinality(S)
  <2>1. IsFiniteSet(upTo(i)) /\ Cardinality(upTo(i)) <= Cardinality(S)
    BY FS_Subset
  <2>2. Cardinality(upTo(i)) \in Nat /\ Cardinality(upTo(i)) # 0
    BY <1>1, <2>1, FS_CardinalityType, FS_EmptySet
  <2>3. Chat!Rank(S, i) = Cardinality(upTo(i))
    BY SameCount DEF Chat!Rank
  <2>4. QED
    BY <1>2, <2>1, <2>2, <2>3
<1>4. ASSUME NEW i \in S, NEW j \in S, i < j PROVE Chat!Rank(S, i) # Chat!Rank(S, j)
  <2>1. upTo(i) \subseteq upTo(j) /\ j \notin upTo(i)
    <3>1. ASSUME NEW k \in S, k <= i PROVE k <= j
      BY <1>4, <3>1
    <3>2. ~ (j <= i)
      BY <1>4
    <3>3. QED
      BY <3>1, <3>2
  <2>2. upTo(i) # upTo(j)
    BY <2>1, <1>1
  <2>3. Cardinality(upTo(i)) # Cardinality(upTo(j))
    BY <1>3, <2>1, <2>2, FS_Subset
  <2>4. QED
    BY <1>3, <2>3
<1>5. \A i, j \in S : Chat!Rank(S, i) = Chat!Rank(S, j) => i = j
  BY <1>4
<1>6. rank \in Injection(S, 1..Cardinality(S))
  BY <1>3, <1>5 DEF Injection, IsInjective
<1>7. IsFiniteSet(1..Cardinality(S)) /\ Cardinality(1..Cardinality(S)) = Cardinality(S)
  <2>1. 1 \in Int /\ Cardinality(S) \in Int
    BY <1>2
  <2>2. QED
    BY <1>2, <2>1, FS_Interval
<1>8. rank \in Surjection(S, 1..Cardinality(S))
  BY <1>6, <1>7, FS_Injection
<1>9. \A k \in 1..Cardinality(S) : \E i \in S : Chat!Rank(S, i) = k
  BY <1>8 DEF Surjection
<1>10. QED
  BY <1>2, <1>3, <1>5, <1>9

\* $pull takes out the users' entries and keeps the others.
LEMMA Pulled ==
  ASSUME NEW m \in Seq(Entry), NEW gone
  PROVE  /\ Chat!Without(m, gone) \in Seq(Entry)
         /\ Chat!UsersOf(Chat!Without(m, gone)) = Chat!UsersOf(m) \ gone
         /\ Chat!AdminsOf(Chat!Without(m, gone)) = Chat!AdminsOf(m) \ gone
         /\ \A u : Once(m, u) => Once(Chat!Without(m, gone), u)
<1> DEFINE stay == Chat!Staying(m, gone)
           at(k) == CHOOSE i \in stay : Chat!Rank(stay, i) = k
           w == Chat!Without(m, gone)
<1>1. stay \in SUBSET Nat /\ IsFiniteSet(stay) /\ stay \subseteq DOMAIN m
  <2>1. DOMAIN m = 1..Len(m) /\ Len(m) \in Nat
    OBVIOUS
  <2>2. IsFiniteSet(1..Len(m))
    <3>1. 1 \in Int /\ Len(m) \in Int
      BY <2>1
    <3>2. QED
      BY <3>1, FS_Interval
  <2>3. stay \subseteq 1..Len(m)
    BY <2>1 DEF Chat!Staying
  <2>4. QED
    BY <2>1, <2>2, <2>3, FS_Subset
<1>2. /\ Cardinality(stay) \in Nat
      /\ \A k \in 1..Cardinality(stay) : at(k) \in stay /\ Chat!Rank(stay, at(k)) = k
      /\ \A i \in stay : Chat!Rank(stay, i) \in 1..Cardinality(stay) /\ at(Chat!Rank(stay, i)) = i
  <2> HIDE DEF stay
  <2>1. /\ Cardinality(stay) \in Nat
        /\ \A i \in stay : Chat!Rank(stay, i) \in 1..Cardinality(stay)
        /\ \A i, j \in stay : Chat!Rank(stay, i) = Chat!Rank(stay, j) => i = j
        /\ \A k \in 1..Cardinality(stay) : \E i \in stay : Chat!Rank(stay, i) = k
    BY <1>1, Ranks
  <2>2. \A k \in 1..Cardinality(stay) : at(k) \in stay /\ Chat!Rank(stay, at(k)) = k
    BY <2>1
  <2>3. \A i \in stay : at(Chat!Rank(stay, i)) = i
    BY <2>1, <2>2
  <2>4. QED
    BY <2>1, <2>2, <2>3
<1>3. w = [k \in 1..Cardinality(stay) |-> m[at(k)]]
  BY SameCount, Zenon DEF Chat!Without
<1>4. /\ \A i \in stay : i \in DOMAIN m /\ m[i] \in Entry /\ m[i].user \notin gone
      /\ \A i \in DOMAIN m : m[i].user \notin gone => i \in stay
  BY DEF Chat!Staying
<1> HIDE DEF stay, at, w
<1>5. w \in Seq(Entry) /\ DOMAIN w = 1..Cardinality(stay)
  BY <1>2, <1>3, <1>4
<1>6. \A k \in DOMAIN w : w[k] = m[at(k)] /\ at(k) \in stay
  BY <1>2, <1>3, <1>5
<1>7. \A i \in stay : \E k \in DOMAIN w : w[k] = m[i]
  BY <1>2, <1>3, <1>5
<1>8. Chat!UsersOf(w) = Chat!UsersOf(m) \ gone
  BY <1>4, <1>6, <1>7 DEF Chat!UsersOf
<1>9. Chat!AdminsOf(w) = Chat!AdminsOf(m) \ gone
  BY <1>4, <1>6, <1>7 DEF Chat!AdminsOf
<1>10. ASSUME NEW u, Once(m, u) PROVE Once(w, u)
  <2>1. ASSUME NEW j \in DOMAIN w, NEW k \in DOMAIN w, w[j].user = u, w[k].user = u
        PROVE  j = k
    <3>1. at(j) = at(k)
      BY <1>4, <1>6, <1>10, <2>1 DEF Once
    <3>2. QED
      BY <1>2, <1>5, <3>1
  <2>2. QED
    BY <2>1 DEF Once
<1>11. QED
  BY <1>5, <1>8, <1>9, <1>10 DEF w

\* A list without its entry at p keeps the others, in their order.
LEMMA TakenOut ==
  ASSUME NEW S, NEW m \in Seq(S), NEW p \in DOMAIN m
  PROVE  LET o == Chat!RemoveAt(m, p) IN
         /\ o \in Seq(S) /\ Len(o) = Len(m) - 1
         /\ \A i \in DOMAIN o : \E j \in DOMAIN m \ {p} : o[i] = m[j]
         /\ \A j \in DOMAIN m \ {p} : \E i \in DOMAIN o : o[i] = m[j]
<1> DEFINE o == Chat!RemoveAt(m, p)
           l == SubSeq(m, 1, p - 1)
           r == SubSeq(m, p + 1, Len(m))
<1>1. DOMAIN m = 1..Len(m) /\ Len(m) \in Nat /\ \A i \in DOMAIN m : m[i] \in S
  OBVIOUS
<1>2. p \in 1..Len(m)
  BY <1>1
<1>3. /\ l \in Seq(S) /\ Len(l) = p - 1
      /\ \A i \in 1..p - 1 : l[i] = m[i]
  <2>1. \A i \in 1..p - 1 : m[i] \in S
    BY <1>1, <1>2
  <2>2. /\ l \in Seq(S) /\ Len(l) = IF 1 <= p - 1 THEN (p - 1) - 1 + 1 ELSE 0
        /\ \A i \in 1..(p - 1) - 1 + 1 : l[i] = m[1 + i - 1]
    BY <1>2, <2>1, SubSeqProperties
  <2>3. QED
    BY <1>2, <2>2
<1>4. /\ r \in Seq(S) /\ Len(r) = Len(m) - p
      /\ \A i \in 1..Len(m) - p : r[i] = m[p + i]
  <2>1. \A i \in p + 1..Len(m) : m[i] \in S
    BY <1>1, <1>2
  <2>2. /\ r \in Seq(S) /\ Len(r) = IF p + 1 <= Len(m) THEN Len(m) - (p + 1) + 1 ELSE 0
        /\ \A i \in 1..Len(m) - (p + 1) + 1 : r[i] = m[(p + 1) + i - 1]
    BY <1>1, <1>2, <2>1, SubSeqProperties
  <2> HIDE DEF r
  <2>3. Len(m) - (p + 1) + 1 = Len(m) - p /\ Len(r) = Len(m) - p
    <3>1. Len(r) = IF p + 1 <= Len(m) THEN Len(m) - (p + 1) + 1 ELSE 0
      BY <2>2
    <3>2. Len(m) \in Int /\ p \in Int /\ p <= Len(m)
      BY <1>1, <1>2
    <3>3. Len(m) - (p + 1) + 1 = Len(m) - p
      BY <3>2
    <3>4. CASE p + 1 <= Len(m)
      BY <3>1, <3>3, <3>4
    <3>5. CASE ~ (p + 1 <= Len(m))
      <4>1. Len(m) - p = 0
        BY <3>2, <3>5
      <4>2. QED
        BY <3>1, <3>3, <3>5, <4>1
    <3>6. QED
      BY <3>4, <3>5
  <2>4. ASSUME NEW i \in 1..Len(m) - p PROVE r[i] = m[p + i]
    <3>1. (p + 1) + i - 1 = p + i
      BY <1>1, <1>2
    <3>2. QED
      BY <2>2, <2>3, <3>1
  <2>5. QED
    BY <2>2, <2>3, <2>4
<1>5. o = l \o r
  BY DEF Chat!RemoveAt
<1> HIDE DEF l, r, o
<1>6. o \in Seq(S) /\ Len(o) = Len(m) - 1 /\ DOMAIN o = 1..Len(m) - 1
  <2>1. o \in Seq(S) /\ Len(o) = Len(l) + Len(r)
    BY <1>3, <1>4, <1>5, ConcatProperties
  <2>2. Len(l) + Len(r) = Len(m) - 1
    BY <1>1, <1>2, <1>3, <1>4
  <2>3. QED
    BY <2>1, <2>2
<1>7. ASSUME NEW i \in DOMAIN o PROVE o[i] = IF i < p THEN m[i] ELSE m[i + 1]
  <2>1. o[i] = IF i <= Len(l) THEN l[i] ELSE r[i - Len(l)]
    <3>1. i \in 1..Len(l) + Len(r)
      BY <1>1, <1>2, <1>3, <1>4, <1>6
    <3>2. QED
      BY <3>1, <1>3, <1>4, <1>5, ConcatProperties
  <2>2. i \in 1..Len(m) - 1
    BY <1>6
  <2>3. CASE i < p
    BY <1>1, <1>2, <1>3, <2>1, <2>2, <2>3
  <2>4. CASE p <= i
    <3>1. ~ (i <= Len(l)) /\ i - Len(l) \in 1..Len(m) - p /\ p + (i - Len(l)) = i + 1
      BY <1>1, <1>2, <1>3, <2>2, <2>4
    <3>2. r[i - Len(l)] = m[i + 1]
      BY <1>4, <3>1
    <3>3. QED
      BY <1>2, <2>1, <2>2, <2>4, <3>1, <3>2
  <2>5. QED
    BY <1>2, <2>2, <2>3, <2>4
<1>8. \A i \in DOMAIN o : \E j \in DOMAIN m \ {p} : o[i] = m[j]
  BY <1>1, <1>2, <1>6, <1>7
<1>9. ASSUME NEW j \in DOMAIN m \ {p} PROVE \E i \in DOMAIN o : o[i] = m[j]
  <2>1. CASE j < p
    BY <1>1, <1>2, <1>6, <1>7, <2>1
  <2>2. CASE j > p
    <3>1. j - 1 \in DOMAIN o /\ ~(j - 1 < p) /\ (j - 1) + 1 = j
      BY <1>1, <1>2, <1>6, <2>2
    <3>2. QED
      BY <1>7, <3>1
  <2>3. QED
    BY <1>1, <1>2, <2>1, <2>2
<1>10. QED
  BY <1>6, <1>8, <1>9 DEF o

\* The list without the first entry of u.
LEMMA OthersOf ==
  ASSUME NEW m \in Seq(Entry), NEW u \in Chat!UsersOf(m)
  PROVE  /\ Chat!Others(m, u) \in Seq(Entry) /\ Len(Chat!Others(m, u)) = Len(m) - 1
         /\ Chat!UsersOf(m) \ {u} \subseteq Chat!UsersOf(Chat!Others(m, u))
         /\ Chat!UsersOf(Chat!Others(m, u)) \subseteq Chat!UsersOf(m)
         /\ Once(m, u) => /\ u \notin Chat!UsersOf(Chat!Others(m, u))
                          /\ Chat!AdminsOf(Chat!Others(m, u)) = Chat!AdminsOf(m) \ {u}
                          /\ Chat!RoleIn(m, u) = "admin" <=> u \in Chat!AdminsOf(m)
<1> DEFINE places == {i \in DOMAIN m : m[i].user = u}
           p == Chat!Min(places)
           o == Chat!Others(m, u)
<1>1. DOMAIN m = 1..Len(m) /\ Len(m) \in Nat /\ \A i \in DOMAIN m : m[i] \in Entry
  OBVIOUS
<1>2. p \in DOMAIN m /\ m[p].user = u
  <2>1. places \in SUBSET Nat /\ places # {}
    BY <1>1 DEF Chat!UsersOf
  <2>2. p \in places
    BY <2>1, FirstPlace
  <2>3. QED
    BY <2>2
<1>3. /\ o \in Seq(Entry) /\ Len(o) = Len(m) - 1
      /\ \A i \in DOMAIN o : \E j \in DOMAIN m \ {p} : o[i] = m[j]
      /\ \A j \in DOMAIN m \ {p} : \E i \in DOMAIN o : o[i] = m[j]
  <2> HIDE DEF p
  <2>1. o = Chat!RemoveAt(m, p)
    BY DEF Chat!Others, p
  <2>2. QED
    BY <1>2, <2>1, TakenOut
<1>4. Chat!RoleIn(m, u) = m[p].role
  BY DEF Chat!RoleIn, Chat!EntryOf
<1> HIDE DEF p, o
<1>5. /\ Chat!UsersOf(m) \ {u} \subseteq Chat!UsersOf(o)
       /\ Chat!UsersOf(o) \subseteq Chat!UsersOf(m)
  <2>1. ASSUME NEW j \in DOMAIN m, m[j].user # u PROVE m[j].user \in Chat!UsersOf(o)
    <3>1. j \in DOMAIN m \ {p}
      BY <1>2, <2>1
    <3>2. QED
      BY <1>3, <3>1 DEF Chat!UsersOf
  <2>2. ASSUME NEW i \in DOMAIN o PROVE o[i].user \in Chat!UsersOf(m)
    BY <1>3 DEF Chat!UsersOf
  <2>3. QED
    BY <2>1, <2>2 DEF Chat!UsersOf
<1>6. ASSUME Once(m, u)
       PROVE  /\ u \notin Chat!UsersOf(o) /\ Chat!AdminsOf(o) = Chat!AdminsOf(m) \ {u}
              /\ m[p].role = "admin" <=> u \in Chat!AdminsOf(m)
  <2>1. \A j \in DOMAIN m : m[j].user = u <=> j = p
    BY <1>2, <1>6 DEF Once
  <2>2. u \notin Chat!UsersOf(o)
    BY <1>3, <2>1 DEF Chat!UsersOf
  <2>3. Chat!AdminsOf(o) \subseteq Chat!AdminsOf(m) \ {u}
    BY <1>3, <2>1 DEF Chat!AdminsOf
  <2>4. Chat!AdminsOf(m) \ {u} \subseteq Chat!AdminsOf(o)
    BY <1>2, <1>3 DEF Chat!AdminsOf
  <2>5. m[p].role = "admin" <=> u \in Chat!AdminsOf(m)
    BY <1>2, <2>1 DEF Chat!AdminsOf
  <2>6. QED
    BY <2>2, <2>3, <2>4, <2>5
<1>7. QED
  BY <1>4, <1>3, <1>5, <1>6 DEF o

\* The entries of the new members, in an order.
LEMMA EntriesOf ==
  ASSUME NEW w \in SUBSET Guests, IsFiniteSet(w), NEW role \in Chat!Roles,
         NEW e \in Chat!Entries(w, role)
  PROVE  /\ e \in Seq(Entry) /\ \A u : Once(e, u)
         /\ Chat!UsersOf(e) = w
         /\ role = "admin" => Chat!AdminsOf(e) = w
         /\ role # "admin" => Chat!AdminsOf(e) = {}
<1> DEFINE n == Cardinality(w)
<1>1. PICK s \in Chat!SetToSeqs(w) : e = [i \in DOMAIN s |-> [user |-> s[i], role |-> role]]
  BY DEF Chat!Entries
<1>2. s \in [1..n -> w] /\ \A i, j \in 1..n : i # j => s[i] # s[j]
  BY <1>1, SameCount DEF Chat!SetToSeqs
<1>3. n \in Nat /\ IsFiniteSet(1..n) /\ Cardinality(1..n) = n
  BY FS_CardinalityType, FS_Interval
<1>4. s \in Injection(1..n, w)
  BY <1>2 DEF Injection, IsInjective
<1>5. s \in Surjection(1..n, w)
  BY <1>3, <1>4, FS_Injection
<1>6. \A u \in w : \E i \in 1..n : s[i] = u
  BY <1>5 DEF Surjection
<1> HIDE DEF n
<1>7. DOMAIN e = 1..n /\ \A i \in 1..n : e[i] = [user |-> s[i], role |-> role]
  BY <1>1, <1>2
<1>8. \A i \in 1..n : e[i] \in Entry /\ e[i].user = s[i] /\ e[i].role = role
  BY <1>2, <1>7 DEF Entry, Chat!Member
<1>9. e \in Seq(Entry)
  <2>1. e = [i \in 1..n |-> [user |-> s[i], role |-> role]]
    BY <1>1, <1>2
  <2>2. QED
    BY <1>3, <1>7, <1>8, <2>1
<1>10. \A u : Once(e, u)
  BY <1>2, <1>7, <1>8 DEF Once
<1>11. Chat!UsersOf(e) = w
  BY <1>2, <1>6, <1>7, <1>8 DEF Chat!UsersOf
<1>12. /\ role = "admin" => Chat!AdminsOf(e) = w
       /\ role # "admin" => Chat!AdminsOf(e) = {}
  BY <1>2, <1>6, <1>7, <1>8 DEF Chat!AdminsOf
<1>13. QED
  BY <1>9, <1>10, <1>11, <1>12

\* Two lists, one behind the other.
LEMMA Joined ==
  ASSUME NEW m \in Seq(Entry), NEW n \in Seq(Entry)
  PROVE  /\ m \o n \in Seq(Entry)
         /\ Chat!UsersOf(m \o n) = Chat!UsersOf(m) \union Chat!UsersOf(n)
         /\ Chat!AdminsOf(m \o n) = Chat!AdminsOf(m) \union Chat!AdminsOf(n)
         /\ \A u : Once(m, u) /\ Once(n, u) /\ ~ (u \in Chat!UsersOf(m) /\ u \in Chat!UsersOf(n))
                  => Once(m \o n, u)
<1> DEFINE o == m \o n
<1>1. /\ DOMAIN m = 1..Len(m) /\ Len(m) \in Nat
      /\ DOMAIN n = 1..Len(n) /\ Len(n) \in Nat
  OBVIOUS
<1>2. /\ o \in Seq(Entry) /\ DOMAIN o = 1..Len(m) + Len(n)
      /\ \A i \in 1..Len(m) + Len(n) : o[i] = IF i <= Len(m) THEN m[i] ELSE n[i - Len(m)]
  <2>1. o \in Seq(Entry) /\ Len(o) = Len(m) + Len(n)
    BY ConcatProperties
  <2>2. DOMAIN o = 1..Len(o)
    BY <2>1
  <2>3. QED
    BY <2>1, <2>2, ConcatProperties
<1> HIDE DEF o
<1>3. \A i \in DOMAIN m : i \in DOMAIN o /\ o[i] = m[i]
  BY <1>1, <1>2
<1>4. ASSUME NEW i \in DOMAIN n PROVE Len(m) + i \in DOMAIN o /\ o[Len(m) + i] = n[i]
  <2>1. Len(m) + i \in DOMAIN o /\ ~ (Len(m) + i <= Len(m)) /\ (Len(m) + i) - Len(m) = i
    BY <1>1, <1>2
  <2>2. QED
    BY <1>2, <2>1
<1>5. ASSUME NEW i \in DOMAIN o
      PROVE  \/ i \in DOMAIN m /\ o[i] = m[i]
             \/ i - Len(m) \in DOMAIN n /\ o[i] = n[i - Len(m)]
  BY <1>1, <1>2
<1>6. Chat!UsersOf(o) = Chat!UsersOf(m) \union Chat!UsersOf(n)
  BY <1>3, <1>4, <1>5 DEF Chat!UsersOf
<1>7. Chat!AdminsOf(o) = Chat!AdminsOf(m) \union Chat!AdminsOf(n)
  BY <1>3, <1>4, <1>5 DEF Chat!AdminsOf
<1>8. ASSUME NEW u, Once(m, u), Once(n, u),
             ~ (u \in Chat!UsersOf(m) /\ u \in Chat!UsersOf(n))
      PROVE  Once(o, u)
  <2>1. \A i \in DOMAIN m, j \in DOMAIN n : ~ (m[i].user = u /\ n[j].user = u)
    BY <1>8 DEF Chat!UsersOf
  <2>2. ASSUME NEW i \in DOMAIN o, NEW j \in DOMAIN o, o[i].user = u, o[j].user = u
        PROVE  i = j
    <3>1. CASE i \in DOMAIN m /\ o[i] = m[i] /\ j \in DOMAIN m /\ o[j] = m[j]
      BY <1>8, <2>2, <3>1 DEF Once
    <3>2. CASE /\ i - Len(m) \in DOMAIN n /\ o[i] = n[i - Len(m)]
               /\ j - Len(m) \in DOMAIN n /\ o[j] = n[j - Len(m)]
      <4>1. i - Len(m) = j - Len(m)
        BY <1>8, <2>2, <3>2 DEF Once
      <4>2. QED
        BY <1>1, <1>2, <4>1
    <3>3. QED
      BY <1>5, <2>1, <2>2, <3>1, <3>2
  <2>3. QED
    BY <2>2 DEF Once
<1>9. QED
  BY <1>2, <1>6, <1>7, <1>8 DEF o

\* The first entry of u is given the role of an admin.
LEMMA Promoted ==
  ASSUME NEW m \in Seq(Entry), NEW u \in Chat!UsersOf(m)
  PROVE  LET o == [m EXCEPT ![Chat!Min({i \in DOMAIN m : m[i].user = u})].role = "admin"] IN
         /\ o \in Seq(Entry)
         /\ Chat!UsersOf(o) = Chat!UsersOf(m)
         /\ u \in Chat!AdminsOf(o)
         /\ \A v : Once(m, v) => Once(o, v)
<1> DEFINE places == {i \in DOMAIN m : m[i].user = u}
           p == Chat!Min(places)
           o == [m EXCEPT ![p].role = "admin"]
<1>1. DOMAIN m = 1..Len(m) /\ Len(m) \in Nat /\ \A i \in DOMAIN m : m[i] \in Entry
  OBVIOUS
<1>2. p \in DOMAIN m /\ m[p].user = u
  <2>1. places \in SUBSET Nat /\ places # {}
    BY <1>1 DEF Chat!UsersOf
  <2>2. p \in places
    BY <2>1, FirstPlace
  <2>3. QED
    BY <2>2
<1> HIDE DEF p
<1>3. /\ DOMAIN o = DOMAIN m
      /\ \A i \in DOMAIN m : o[i] \in Entry /\ o[i].user = m[i].user
      /\ o[p].role = "admin"
  BY <1>1, <1>2 DEF Entry, Chat!Member, Chat!Roles
<1>4. o \in Seq(Entry)
  <2>1. o \in [1..Len(m) -> Entry]
    BY <1>1, <1>2 DEF Entry, Chat!Member, Chat!Roles
  <2>2. QED
    BY <1>1, <2>1
<1> HIDE DEF o
<1>5. Chat!UsersOf(o) = Chat!UsersOf(m)
  BY <1>3 DEF Chat!UsersOf
<1>6. u \in Chat!AdminsOf(o)
  BY <1>2, <1>3 DEF Chat!AdminsOf
<1>7. \A v : Once(m, v) => Once(o, v)
  BY <1>3 DEF Once
<1>8. QED
  BY <1>4, <1>5, <1>6, <1>7 DEF o, p

\* A list whose entries changed, and not their users.
LEMMA SameUsers ==
  ASSUME NEW m \in Seq(Entry), NEW o \in Seq(Entry), DOMAIN o = DOMAIN m,
         \A i \in DOMAIN m : o[i].user = m[i].user
  PROVE  /\ Chat!UsersOf(o) = Chat!UsersOf(m)
         /\ \A v : Once(m, v) => Once(o, v)
BY DEF Chat!UsersOf, Once

-------------------------------------------------------------------------------
(* The requests: which steps an operation goes through, and what each knows. *)

Gate == {"exists", "prime", "read"}

Stages(op) ==
  CASE op = "create" -> {"create", "join", "enqueue", "tellkept"}
    [] op = "leave" -> Gate \union {"pull", "promote", "delete", "unset", "unroom",
                                    "tellgone", "tellkept"}
    [] op = "kick" -> Gate \union {"kick", "tellgone", "tellkept"}
    [] op = "add" -> Gate \union {"join", "enqueue", "tellkept"}
    [] op = "role" -> Gate \union {"role", "tellkept"}
    [] op = "edit" -> Gate \union {"edit", "tellkept"}
    [] op = "pin" -> Gate \union {"tellkept"}
    [] op = "clear" -> Gate \union {"tellgone"}
    [] OTHER -> {"scan", "fill", "flag"}

Shape(q) ==
  /\ q.pc = "idle" => q = Chat!Idle
  /\ q.pc # "idle" => q.op \in AllOps /\ q.user \in Guests /\ q.pc \in Stages(q.op)
  /\ q.op \in {"create", "kick"} => q.user \notin q.who
  /\ q.op = "role" => q.role \in Chat!Roles
  /\ q.pc \in {"pull", "promote", "delete", "unset", "unroom"} => q.user \in Chat!UsersOf(q.snap)
  /\ q.op = "leave" /\ q.pc \in {"tellgone", "tellkept"} => q.user \in Chat!UsersOf(q.snap)
  /\ q.pc = "delete" => Len(q.snap) = 1
  /\ q.pc = "promote" => Chat!Others(q.snap, q.user) # <<>>
  /\ q.pc \in {"kick", "join"} => q.todo # {}
  /\ q.op = "create" => "doc" \notin q.todo

ShapeInv == \A r \in Requests : Shape(asked[r])

\* The types of what the requests share, and of the requests.
StoreTypes ==
  /\ room = None \/ room \in Seq(Entry)
  /\ members \subseteq Guests /\ pair \subseteq Guests /\ rooms \subseteq Guests
  /\ warm \subseteq Guests /\ synced \subseteq Guests
  /\ queued \in Seq(SUBSET Guests)
  /\ feed \in [Guests -> {None, "upserted", "removed"}]
  /\ steps \in 0..MaxSteps

Types ==
  /\ StoreTypes
  /\ asked \in [Requests -> Chat!Request]
  /\ mixed \subseteq Guests /\ feedMixed \subseteq Guests /\ unled \in BOOLEAN

\* What the instance assumes.
LEMMA Assumed ==
  /\ IsFiniteSet(Guests)
  /\ None \notin Guests /\ None \notin AllOps /\ None \notin Seq(Entry)
  /\ None # "upserted"
  /\ FirstRole \in {"member", "guest"}
  /\ NewRoles \subseteq Chat!Roles
  /\ MaxSteps \in Nat
<1>1. Chat!IsFiniteSet(Guests) <=> IsFiniteSet(Guests)
  BY DEF Chat!IsFiniteSet, IsFiniteSet
<1>2. QED
  BY <1>1, InstancesAssumption DEF Chat!ConstantsAssumption, Chat!Roles, Entry

\* Any set of guests is finite.
LEMMA Few ==
  ASSUME NEW w \in SUBSET Guests
  PROVE  /\ IsFiniteSet(w)
         /\ Chat!Cardinality(w) \in Nat
         /\ w # {} => Chat!Cardinality(w) >= 1
<1>1. IsFiniteSet(w)
  BY Assumed, FS_Subset
<1>2. Cardinality(w) \in Nat /\ (w # {} => Cardinality(w) # 0)
  BY <1>1, FS_CardinalityType, FS_EmptySet
<1>3. QED
  BY <1>1, <1>2, SameCount

\* Request r becomes q, and the others stay as they are.
Becomes(r, q) ==
  /\ asked' \in [Requests -> Chat!Request]
  /\ asked'[r] = q
  /\ \A s \in Requests \ {r} : asked'[s] = asked[s]

\* The three ways a request moves on.
LEMMA Going ==
  ASSUME asked \in [Requests -> Chat!Request], NEW r \in Requests,
         NEW pc \in Chat!Steps, Chat!Go(r, pc)
  PROVE  Becomes(r, [asked[r] EXCEPT !.pc = pc])
<1>1. asked[r] \in Chat!Request
  OBVIOUS
<1>2. [asked[r] EXCEPT !.pc = pc] \in Chat!Request
  BY <1>1 DEF Chat!Request
<1>3. asked' = [asked EXCEPT ![r] = [asked[r] EXCEPT !.pc = pc]]
  BY DEF Chat!Go
<1>4. QED
  BY <1>2, <1>3 DEF Becomes

LEMMA Ending ==
  ASSUME asked \in [Requests -> Chat!Request], NEW r \in Requests, Chat!End(r)
  PROVE  Becomes(r, Chat!Idle)
<1>1. Chat!Idle \in Chat!Request
  BY DEF Chat!Idle, Chat!Request, Chat!Steps
<1>2. QED
  BY <1>1 DEF Chat!End, Becomes

LEMMA Sharing ==
  ASSUME asked \in [Requests -> Chat!Request], NEW r \in Requests,
         NEW pc \in Chat!Steps, NEW write, Chat!Parallel(r, pc, write)
  PROVE  Becomes(r, [asked[r] EXCEPT !.todo = asked[r].todo \ {write},
                       !.pc = IF asked[r].todo = {write} THEN pc ELSE asked[r].pc])
<1> DEFINE q == [asked[r] EXCEPT !.todo = asked[r].todo \ {write},
                   !.pc = IF asked[r].todo = {write} THEN pc ELSE asked[r].pc]
<1>1. asked[r] \in Chat!Request
  OBVIOUS
<1>2. q \in Chat!Request
  BY <1>1 DEF Chat!Request
<1>3. asked' = [asked EXCEPT ![r] = q]
  BY <1>1 DEF Chat!Parallel, Chat!Request
<1>4. QED
  BY <1>2, <1>3 DEF Becomes

LEMMA Beginning ==
  ASSUME Types, NEW r \in Requests, NEW u \in Guests, NEW op \in AllOps,
         NEW who \in SUBSET Guests, NEW role \in Chat!Roles \union {None},
         NEW pc \in Chat!Steps, Chat!Begin(r, u, op, who, role, pc)
  PROVE  /\ Becomes(r, asked'[r]) /\ asked'[r] \in Chat!Request
         /\ asked'[r].pc = pc /\ asked'[r].op = op /\ asked'[r].user = u
         /\ asked'[r].who = who /\ asked'[r].role = role
         /\ asked'[r].snap = <<>> /\ asked'[r].todo = {}
<1> DEFINE q == [Chat!Idle EXCEPT !.pc = pc, !.op = op, !.user = u, !.who = who, !.role = role]
<1>1. q \in Chat!Request
  <2>1. Chat!Idle \in Chat!Request
    BY DEF Chat!Idle, Chat!Request, Chat!Steps
  <2>2. QED
    BY <2>1 DEF Chat!Request
<1>2. /\ q.pc = pc /\ q.op = op /\ q.user = u /\ q.who = who /\ q.role = role
      /\ q.snap = <<>> /\ q.todo = {}
  BY DEF Chat!Idle
<1>3. asked' = [asked EXCEPT ![r] = q]
  BY DEF Chat!Begin
<1> HIDE DEF q
<1>4. Becomes(r, q) /\ asked'[r] = q
  BY <1>1, <1>3 DEF Becomes, Types
<1>5. QED
  BY <1>1, <1>2, <1>4 DEF Becomes

-------------------------------------------------------------------------------
(* What each step makes of the document *)

\* $pull of some users.
LEMMA Removing ==
  ASSUME StoreTypes, NEW gone,
         room' = IF room = None THEN None ELSE Chat!Without(room, gone)
  PROVE  /\ room' = None \/ room' \in Seq(Entry)
         /\ room' = None <=> room = None
         /\ Chat!InRoom' = Chat!InRoom \ gone
         /\ Chat!Admins' = Chat!Admins \ gone
         /\ \A u : room # None /\ Once(room, u) => Once(room', u)
<1>1. CASE room = None
  BY <1>1 DEF Chat!InRoom, Chat!Admins
<1>2. CASE room # None
  <2>1. room \in Seq(Entry)
    BY <1>2 DEF StoreTypes
  <2>2. room' \in Seq(Entry) /\ room' # None
    BY <1>2, <2>1, Pulled, Assumed
  <2>3. QED
    BY <1>2, <2>1, <2>2, Pulled DEF Chat!InRoom, Chat!Admins
<1>3. QED
  BY <1>1, <1>2

LEMMA Promoting ==
  ASSUME StoreTypes, NEW r \in Requests, Chat!Promote(r)
  PROVE  LET next == Head(Chat!Others(asked[r].snap, asked[r].user)).user IN
         /\ room' = None \/ room' \in Seq(Entry)
         /\ room' = None <=> room = None
         /\ Chat!InRoom' = Chat!InRoom
         /\ next \in Chat!InRoom => next \in Chat!Admins'
         /\ \A u : room # None /\ Once(room, u) => Once(room', u)
<1> DEFINE next == Head(Chat!Others(asked[r].snap, asked[r].user)).user
<1>1. room' = IF next \in Chat!InRoom
              THEN [room EXCEPT ![Chat!Min({i \in DOMAIN room : room[i].user = next})].role
                      = "admin"]
              ELSE room
  BY DEF Chat!Promote
<1> HIDE DEF next
<1>2. CASE next \notin Chat!InRoom
  <2>1. room' = room
    BY <1>1, <1>2
  <2>2. Chat!InRoom' = Chat!InRoom
    BY <2>1 DEF Chat!InRoom
  <2>3. QED
    BY <1>2, <2>1, <2>2 DEF StoreTypes, next
<1>3. CASE next \in Chat!InRoom
  <2>1. room # None /\ room \in Seq(Entry) /\ next \in Chat!UsersOf(room)
    BY <1>3 DEF StoreTypes, Chat!InRoom
  <2>2. /\ room' \in Seq(Entry) /\ Chat!UsersOf(room') = Chat!UsersOf(room)
        /\ next \in Chat!AdminsOf(room')
        /\ \A u : Once(room, u) => Once(room', u)
    BY <1>1, <1>3, <2>1, Promoted
  <2>3. room' # None
    BY <2>2, Assumed
  <2>4. QED
    BY <2>1, <2>2, <2>3 DEF Chat!InRoom, Chat!Admins, next
<1>4. QED
  BY <1>2, <1>3 DEF next

LEMMA Founding ==
  ASSUME Types, NEW r \in Requests, Chat!Create(r), asked[r].user \in Guests \ asked[r].who
  PROVE  /\ room' \in Seq(Entry) /\ room' # None
         /\ Chat!InRoom' = asked[r].who \union {asked[r].user}
         /\ asked[r].user \in Chat!Admins'
         /\ Distinct(room')
<1> DEFINE u == asked[r].user
           who == asked[r].who
           c == <<[user |-> u, role |-> "admin"]>>
<1>1. PICK e \in Chat!Entries(who, FirstRole) : room' = e \o c
  BY DEF Chat!Create
<1>2. who \in SUBSET Guests /\ IsFiniteSet(who)
  BY Few DEF Types, Chat!Request
<1>3. FirstRole \in Chat!Roles
  BY Assumed DEF Chat!Roles
<1>4. e \in Seq(Entry) /\ (\A v : Once(e, v)) /\ Chat!UsersOf(e) = who
  BY <1>2, <1>3, EntriesOf
<1>5. c \in Seq(Entry) /\ DOMAIN c = {1} /\ c[1].user = u /\ c[1].role = "admin"
  BY DEF Entry, Chat!Member, Chat!Roles
<1> HIDE DEF u, who, c
<1>6. (\A v : Once(c, v)) /\ Chat!UsersOf(c) = {u} /\ Chat!AdminsOf(c) = {u}
  BY <1>5 DEF Once, Chat!UsersOf, Chat!AdminsOf
<1>7. u \notin who
  BY DEF u, who
<1>8. /\ room' \in Seq(Entry) /\ Chat!UsersOf(room') = who \union {u}
      /\ u \in Chat!AdminsOf(room') /\ \A v : Once(room', v)
  BY <1>1, <1>4, <1>5, <1>6, <1>7, Joined
<1>9. QED
  BY <1>8, Assumed DEF Chat!InRoom, Chat!Admins, Distinct, u, who

LEMMA Adding ==
  ASSUME Types, NEW r \in Requests, Chat!JoinDoc(r)
  PROVE  /\ room' = None \/ room' \in Seq(Entry)
         /\ room' = None <=> room = None
         /\ room # None => /\ Chat!InRoom' = Chat!InRoom \union asked[r].who
                           /\ \A u : Once(room, u) /\ ~ (u \in Chat!InRoom /\ u \in asked[r].who)
                                       => Once(room', u)
         /\ Chat!Admins' = Chat!Admins
<1>1. CASE room = None
  BY <1>1 DEF Chat!JoinDoc, Chat!Admins
<1>2. CASE room # None
  <2>1. PICK e \in Chat!Entries(asked[r].who, "member") : room' = room \o e
    BY <1>2 DEF Chat!JoinDoc
  <2>2. asked[r].who \in SUBSET Guests /\ IsFiniteSet(asked[r].who)
    BY Few DEF Types, Chat!Request
  <2>3. "member" \in Chat!Roles /\ room \in Seq(Entry)
    BY <1>2 DEF Chat!Roles, Types, StoreTypes
  <2>4. /\ e \in Seq(Entry) /\ (\A v : Once(e, v)) /\ Chat!UsersOf(e) = asked[r].who
        /\ Chat!AdminsOf(e) = {}
    BY <2>2, <2>3, EntriesOf
  <2>5. /\ room' \in Seq(Entry)
        /\ Chat!UsersOf(room') = Chat!UsersOf(room) \union Chat!UsersOf(e)
        /\ Chat!AdminsOf(room') = Chat!AdminsOf(room) \union Chat!AdminsOf(e)
        /\ \A u : Once(room, u) /\ Once(e, u) /\ ~ (u \in Chat!UsersOf(room) /\ u \in Chat!UsersOf(e))
                    => Once(room', u)
    BY <2>1, <2>3, <2>4, Joined
  <2>6. /\ Chat!UsersOf(room') = Chat!UsersOf(room) \union asked[r].who
        /\ Chat!AdminsOf(room') = Chat!AdminsOf(room)
        /\ \A u : Once(room, u) /\ ~ (u \in Chat!UsersOf(room) /\ u \in asked[r].who)
                    => Once(room', u)
    BY <2>4, <2>5
  <2>7. QED
    BY <1>2, <2>5, <2>6, Assumed DEF Chat!InRoom, Chat!Admins
<1>3. QED
  BY <1>1, <1>2

LEMMA Regrading ==
  ASSUME Types, NEW r \in Requests, Chat!ChangeRole(r), asked[r].role \in Chat!Roles
  PROVE  /\ room' = None \/ room' \in Seq(Entry)
         /\ room' = None <=> room = None
         /\ Chat!InRoom' = Chat!InRoom
         /\ \A u : room # None /\ Once(room, u) => Once(room', u)
<1>1. CASE room = None
  BY <1>1 DEF Chat!ChangeRole, Chat!InRoom
<1>2. CASE room # None
  <2>1. room' = [i \in DOMAIN room |->
                   IF room[i].user \in asked[r].who
                   THEN [room[i] EXCEPT !.role = asked[r].role] ELSE room[i]]
    BY <1>2 DEF Chat!ChangeRole
  <2>2. DOMAIN room = 1..Len(room) /\ Len(room) \in Nat /\ \A i \in DOMAIN room : room[i] \in Entry
    BY <1>2 DEF Types, StoreTypes
  <2>3. DOMAIN room' = DOMAIN room /\ \A i \in DOMAIN room : room'[i] \in Entry /\ room'[i].user = room[i].user
    BY <2>1, <2>2 DEF Entry, Chat!Member
  <2>4. room' \in Seq(Entry)
    BY <2>1, <2>2, <2>3
  <2>5. room \in Seq(Entry)
    BY <1>2 DEF Types, StoreTypes
  <2>6. Chat!UsersOf(room') = Chat!UsersOf(room) /\ \A v : Once(room, v) => Once(room', v)
    BY <2>3, <2>4, <2>5, SameUsers
  <2>7. QED
    BY <1>2, <2>4, <2>6, Assumed DEF Chat!InRoom
<1>3. QED
  BY <1>1, <1>2

\* The steps that leave the document alone leave its members and admins alone.
LEMMA RoomAlone ==
  ASSUME room' = room
  PROVE  Chat!InRoom' = Chat!InRoom /\ Chat!Admins' = Chat!Admins
BY DEF Chat!InRoom, Chat!Admins

-------------------------------------------------------------------------------
(* Types and shapes are kept *)

LEMMA Chosen ==
  ASSUME NEW op \in AllOps, NEW u \in Guests, NEW who \in Chat!Targets(op, u)
  PROVE  /\ who \in SUBSET Guests
         /\ op \in {"create", "kick"} => u \notin who
         /\ op \in {"kick", "add"} => who # {}
<1>1. CASE op = "create"
  BY <1>1 DEF Chat!Targets
<1>2. CASE op \in {"kick", "add"}
  <2>1. Chat!Targets(op, u) = (SUBSET (Guests \ {u})) \ {{}}
    BY <1>2 DEF Chat!Targets
  <2>2. who \in SUBSET (Guests \ {u}) /\ who # {}
    BY <2>1
  <2>3. QED
    BY <1>2, <2>2
<1>4. CASE op = "role"
  BY <1>4 DEF Chat!Targets
<1>5. CASE op \notin {"create", "kick", "add", "role"}
  <2>1. Chat!Targets(op, u) = {{}}
    BY <1>5 DEF Chat!Targets
  <2>2. QED
    BY <1>5, <2>1
<1>6. QED
  BY <1>1, <1>2, <1>4, <1>5

LEMMA Weighty ==
  ASSUME NEW op \in AllOps, NEW who \in SUBSET Guests, op \in {"kick", "add"} => who # {}
  PROVE  Chat!Weight(op, who) \in Nat /\ Chat!Weight(op, who) >= 1
BY Few DEF Chat!Weight, AllOps

\* A call begins a request that asks the sets, and counts.
LEMMA Calling ==
  ASSUME Types, NEW r \in Requests, NEW u \in Guests, NEW op \in AllOps, Chat!Call(r, u, op)
  PROVE  /\ room # None /\ UNCHANGED <<Chat!store, feed, unled>>
         /\ asked[r] = Chat!Idle
         /\ steps' \in 0..MaxSteps /\ steps' > steps
         /\ op \notin {"create", "connect"}
         /\ Becomes(r, asked'[r]) /\ asked'[r].op = op /\ asked'[r].pc \in {"read", "exists"}
         /\ Shape(asked'[r])
<1>1. PICK who \in Chat!Targets(op, u), role \in IF op = "role" THEN NewRoles ELSE {None},
           pc \in {"read", "exists"}, n \in {0, 1} :
        Chat!Begin(r, u, op, who, role, pc) /\ Chat!Costs(Chat!Weight(op, who) + n)
  <2>1. PICK who \in Chat!Targets(op, u), role \in IF op = "role" THEN NewRoles ELSE {None} :
          LET listed == u \in members \union pair IN
          \/ /\ listed /\ Chat!Costs(Chat!Weight(op, who))
             /\ Chat!Begin(r, u, op, who, role, "read")
          \/ /\ Chat!Costs(Chat!Weight(op, who) + IF listed THEN 1 ELSE 0)
             /\ Chat!Begin(r, u, op, who, role, "exists")
    BY DEF Chat!Call
  <2>2. who \in SUBSET Guests /\ Chat!Weight(op, who) \in Nat
    BY Chosen, Weighty
  <2>3. Chat!Weight(op, who) + 0 = Chat!Weight(op, who)
    BY <2>2
  <2>4. QED
    BY <2>1, <2>3
<1>2. who \in SUBSET Guests /\ (op \in {"create", "kick"} => u \notin who)
  BY Chosen
<1>3. op \notin {"create", "connect"} /\ asked[r] = Chat!Idle /\ room # None
      /\ UNCHANGED <<Chat!store, feed, unled>>
  BY DEF Chat!Call, Chat!Free
<1>4. Chat!Weight(op, who) \in Nat /\ Chat!Weight(op, who) >= 1
  BY Chosen, Weighty
<1>5. steps' \in 0..MaxSteps /\ steps' > steps
  BY <1>1, <1>4, Assumed DEF Chat!Costs, Types, StoreTypes
<1>6. role \in Chat!Roles \union {None} /\ (op = "role" => role \in Chat!Roles)
  BY <1>1, Assumed
<1>7. pc \in Chat!Steps
  BY DEF Chat!Steps
<1>8. /\ Becomes(r, asked'[r]) /\ asked'[r] \in Chat!Request
      /\ asked'[r].pc = pc /\ asked'[r].op = op /\ asked'[r].user = u
      /\ asked'[r].who = who /\ asked'[r].role = role
      /\ asked'[r].snap = <<>> /\ asked'[r].todo = {}
  <2>1. Chat!Begin(r, u, op, who, role, pc)
    BY <1>1
  <2>2. who \in SUBSET Guests /\ role \in Chat!Roles \union {None} /\ pc \in Chat!Steps
    BY <1>2, <1>6, <1>7
  <2>3. QED
    BY <2>1, <2>2, Beginning
<1>9. Shape(asked'[r])
  BY <1>2, <1>3, <1>6, <1>8 DEF Shape, Stages, Gate, AllOps
<1>10. QED
  BY <1>3, <1>5, <1>8, <1>9

LEMMA Starting ==
  ASSUME Types, NEW r \in Requests, NEW u \in Guests, Chat!CallCreate(r, u)
  PROVE  /\ room = None /\ steps = 0 /\ UNCHANGED <<Chat!store, feed, steps, unled>>
         /\ asked[r] = Chat!Idle /\ \A s \in Requests : asked[s].op # "create"
         /\ Becomes(r, asked'[r]) /\ asked'[r].op = "create" /\ asked'[r].pc = "create"
         /\ Shape(asked'[r])
<1>1. PICK who \in Chat!Targets("create", u) : Chat!Begin(r, u, "create", who, None, "create")
  BY DEF Chat!CallCreate
<1>2. "create" \in AllOps /\ "create" \in Chat!Steps
  BY DEF AllOps, Chat!Steps
<1>3. who \in SUBSET Guests /\ u \notin who
  BY <1>2, Chosen
<1>4. /\ Becomes(r, asked'[r]) /\ asked'[r] \in Chat!Request
      /\ asked'[r].pc = "create" /\ asked'[r].op = "create" /\ asked'[r].user = u
      /\ asked'[r].who = who /\ asked'[r].role = None
      /\ asked'[r].snap = <<>> /\ asked'[r].todo = {}
  BY <1>1, <1>2, <1>3, Beginning
<1>5. Shape(asked'[r])
  BY <1>2, <1>3, <1>4 DEF Shape, Stages
<1>6. QED
  BY <1>4, <1>5 DEF Chat!CallCreate, Chat!Free, Chat!Fine

LEMMA Connecting ==
  ASSUME Types, NEW r \in Requests, NEW u \in Guests, Chat!Connect(r, u)
  PROVE  /\ room # None /\ UNCHANGED <<Chat!store, feed, unled>>
         /\ asked[r] = Chat!Idle
         /\ steps' \in 0..MaxSteps /\ steps' > steps
         /\ Becomes(r, asked'[r]) /\ asked'[r].op = "connect" /\ asked'[r].pc = "scan"
         /\ Shape(asked'[r])
<1>1. Chat!Begin(r, u, "connect", {}, None, "scan")
  BY DEF Chat!Connect
<1>2. "connect" \in AllOps /\ "scan" \in Chat!Steps
  BY DEF AllOps, Chat!Steps
<1>3. /\ Becomes(r, asked'[r]) /\ asked'[r] \in Chat!Request
      /\ asked'[r].pc = "scan" /\ asked'[r].op = "connect" /\ asked'[r].user = u
      /\ asked'[r].who = {} /\ asked'[r].role = None
      /\ asked'[r].snap = <<>> /\ asked'[r].todo = {}
  BY <1>1, <1>2, Beginning
<1>4. Shape(asked'[r])
  BY <1>2, <1>3 DEF Shape, Stages
<1>5. steps' \in 0..MaxSteps /\ steps' > steps
  BY Assumed DEF Chat!Connect, Chat!Costs, Types, StoreTypes
<1>6. QED
  BY <1>3, <1>4, <1>5 DEF Chat!Connect, Chat!Free, Chat!Fine

\* What a request knows of itself, by its step.
LEMMA IdleShape ==
  Shape(Chat!Idle)
BY Assumed DEF Shape, Chat!Idle, AllOps

\* From its call to its end a request stays the same one.
Onward(q, p) ==
  /\ q.pc # "idle" /\ p.pc # "create"
  /\ p = Chat!Idle \/ (p.op = q.op /\ p.user = q.user)

\* A step of a request moves it, and it alone.
LEMMA StepShapes ==
  ASSUME Types, ShapeInv, NEW r \in Requests, Chat!Step(r)
  PROVE  Becomes(r, asked'[r]) /\ Shape(asked'[r]) /\ Onward(asked[r], asked'[r])
<1> DEFINE q == asked[r]
           G == Becomes(r, asked'[r]) /\ Shape(asked'[r]) /\ Onward(asked[r], asked'[r])
<1>1. q \in Chat!Request /\ Shape(q)
  BY DEF Types, ShapeInv
<1>2. asked \in [Requests -> Chat!Request]
  BY DEF Types
<1>3. ASSUME NEW pc \in Chat!Steps, Chat!Go(r, pc)
      PROVE  Becomes(r, asked'[r]) /\ asked'[r] = [q EXCEPT !.pc = pc]
  BY <1>2, <1>3, Going DEF Becomes
<1>4. ASSUME Chat!End(r), q.pc # "idle" PROVE G
  <2>1. Chat!Idle.pc = "idle"
    BY DEF Chat!Idle
  <2>2. Becomes(r, Chat!Idle) /\ asked'[r] = Chat!Idle
    BY <1>2, <1>4, Ending DEF Becomes
  <2>3. QED
    BY <1>4, <2>1, <2>2, IdleShape DEF Onward
<1> HIDE DEF q
<1>5. ASSUME Chat!Exists(r) PROVE G
  BY <1>1, <1>3, <1>4, <1>5 DEF Chat!Exists, Onward, Shape, Stages, Gate, Chat!Steps, Chat!Request, q
<1>6. ASSUME Chat!Prime(r) PROVE G
  BY <1>1, <1>3, <1>6 DEF Chat!Prime, Onward, Shape, Stages, Gate, Chat!Steps, Chat!Request, q
<1>7. ASSUME NEW pc \in {"unset", "unroom", "tellgone", "tellkept"}, Chat!Go(r, pc),
             q.pc \in {"promote", "delete", "unset", "unroom", "enqueue"}, pc \in Stages(q.op),
             q.pc = "enqueue" => pc = "tellkept" /\ q.op # "leave"
      PROVE  G
  <2> DEFINE p == [q EXCEPT !.pc = pc]
  <2>1. asked'[r] = p /\ Becomes(r, asked'[r])
    BY <1>3, <1>7 DEF Chat!Steps
  <2>2. /\ p.pc = pc /\ p.todo = q.todo /\ p.op = q.op /\ p.user = q.user
        /\ p.who = q.who /\ p.role = q.role /\ p.snap = q.snap
    BY <1>1 DEF Chat!Request
  <2> HIDE DEF p
  <2>3. Shape(p) /\ Onward(q, p)
    BY <1>1, <1>7, <2>2 DEF Shape, Onward
  <2>4. QED
    BY <2>1, <2>3 DEF q
<1>8. ASSUME \/ Chat!Promote(r) \/ Chat!Delete(r) \/ Chat!Unset(r) \/ Chat!Unroom(r)
             \/ Chat!Enqueue(r)
      PROVE  G
  <2>1. CASE Chat!Promote(r) \/ Chat!Delete(r)
    <3>1. Chat!Go(r, "unset") /\ q.pc \in {"promote", "delete"}
      BY <2>1 DEF Chat!Promote, Chat!Delete, q
    <3>2. "unset" \in Stages(q.op)
      BY <1>1, <3>1 DEF Shape, Stages, Gate
    <3>3. QED
      BY <1>7, <3>1, <3>2
  <2>2. CASE Chat!Unset(r)
    <3>1. Chat!Go(r, "unroom") /\ q.pc = "unset"
      BY <2>2 DEF Chat!Unset, q
    <3>2. "unroom" \in Stages(q.op)
      BY <1>1, <3>1 DEF Shape, Stages, Gate
    <3>3. QED
      BY <1>7, <3>1, <3>2
  <2>3. CASE Chat!Unroom(r)
    <3>1. Chat!Go(r, "tellgone") /\ q.pc = "unroom"
      BY <2>3 DEF Chat!Unroom, q
    <3>2. "tellgone" \in Stages(q.op)
      BY <1>1, <3>1 DEF Shape, Stages, Gate
    <3>3. QED
      BY <1>7, <3>1, <3>2
  <2>4. CASE Chat!Enqueue(r)
    <3>1. Chat!Go(r, "tellkept") /\ q.pc = "enqueue"
      BY <2>4 DEF Chat!Enqueue, q
    <3>2. "tellkept" \in Stages(q.op) /\ q.op # "leave"
      BY <1>1, <3>1 DEF Shape, Stages, Gate
    <3>3. QED
      BY <1>7, <3>1, <3>2
  <2>5. QED
    BY <1>8, <2>1, <2>2, <2>3, <2>4
<1>9. ASSUME Chat!TellGone(r) \/ Chat!TellKept(r) PROVE G
  BY <1>1, <1>3, <1>4, <1>9
  DEF Chat!TellGone, Chat!TellKept, Chat!Kept, Onward, Shape, Stages, Gate, Chat!Steps, Chat!Request, q
<1>10. ASSUME Chat!Scan(r) \/ Chat!Fill(r) \/ Chat!Flag(r) PROVE G
  <2>1. q.op \notin {"create", "leave", "kick", "add", "role", "edit", "pin", "clear"}
    BY <1>1, <1>10
    DEF Chat!Scan, Chat!Fill, Chat!Flag, Shape, Stages, Gate, q
  <2>2. CASE Chat!Scan(r)
    <3>1. q.pc = "scan" /\ (Chat!End(r) \/ \E pc \in {"fill", "flag"} : Chat!Go(r, pc))
      BY <2>2 DEF Chat!Scan, q
    <3>2. ASSUME NEW pc \in {"fill", "flag"}, Chat!Go(r, pc) PROVE G
      BY <1>1, <1>3, <2>1, <3>1, <3>2 DEF Onward, Shape, Stages, Chat!Steps, Chat!Request, q
    <3>3. QED
      BY <1>4, <3>1, <3>2
  <2>3. CASE Chat!Fill(r)
    BY <1>1, <1>3, <2>1, <2>3 DEF Chat!Fill, Onward, Shape, Stages, Chat!Steps, Chat!Request, q
  <2>4. CASE Chat!Flag(r)
    BY <1>4, <2>4 DEF Chat!Flag, q
  <2>5. QED
    BY <1>10, <2>2, <2>3, <2>4
<1>11. ASSUME Chat!Pull(r) PROVE G
  <2> DEFINE rest == Chat!Others(q.snap, q.user)
             leads == Chat!RoleIn(q.snap, q.user) = "admin" /\ Chat!AdminsOf(rest) = {}
  <2>1. q.snap \in Seq(Entry) /\ q.user \in Chat!UsersOf(q.snap) /\ q.pc = "pull"
    BY <1>1, <1>11 DEF Chat!Pull, Shape, Chat!Request, Entry, q
  <2>2. Len(rest) = Len(q.snap) - 1 /\ rest \in Seq(Entry)
    BY <2>1, OthersOf
  <2>3. rest = <<>> => Len(q.snap) = 1
    BY <2>1, <2>2
  <2>4. Chat!Go(r, CASE ~leads -> "unset"
                    [] leads /\ rest = <<>> -> "delete"
                    [] leads /\ rest # <<>> -> "promote")
    BY <1>11, Zenon DEF Chat!Pull, q
  <2> HIDE DEF rest, leads
  <2>5. CASE ~leads
    <3>1. Chat!Go(r, "unset")
      BY <2>4, <2>5
    <3>2. QED
      BY <1>1, <1>3, <2>1, <3>1 DEF Onward, Shape, Stages, Gate, Chat!Steps, Chat!Request, q
  <2>6. CASE leads /\ rest = <<>>
    <3>1. Chat!Go(r, "delete")
      BY <2>4, <2>6
    <3>2. QED
      BY <1>1, <1>3, <2>1, <2>3, <2>6, <3>1 DEF Onward, Shape, Stages, Gate, Chat!Steps, Chat!Request, q
  <2>7. CASE leads /\ rest # <<>>
    <3>1. Chat!Go(r, "promote")
      BY <2>4, <2>7
    <3>2. QED
      BY <1>1, <1>3, <2>1, <2>7, <3>1 DEF Onward, Shape, Stages, Gate, Chat!Steps, Chat!Request, rest, q
  <2>8. QED
    BY <2>5, <2>6, <2>7
<1>12. ASSUME NEW pc \in Chat!Steps, NEW write, Chat!Parallel(r, pc, write), q.pc # "idle",
              q.pc \in {"kick", "join"}, pc \in {"tellgone", "enqueue"}, pc \in Stages(q.op),
              q.op # "leave"
       PROVE  G
  <2>1. Becomes(r, [q EXCEPT !.todo = q.todo \ {write},
                      !.pc = IF q.todo = {write} THEN pc ELSE q.pc])
    BY <1>2, <1>12, Sharing DEF q
  <2>2. asked'[r] = [q EXCEPT !.todo = q.todo \ {write},
                       !.pc = IF q.todo = {write} THEN pc ELSE q.pc]
    BY <2>1 DEF Becomes
  <2>3. Becomes(r, asked'[r])
    BY <2>1, <2>2 DEF Becomes
  <2>4. /\ asked'[r].todo = q.todo \ {write} /\ asked'[r].op = q.op /\ asked'[r].user = q.user
        /\ asked'[r].who = q.who /\ asked'[r].snap = q.snap /\ asked'[r].role = q.role
        /\ asked'[r].pc = IF q.todo = {write} THEN pc ELSE q.pc
    BY <1>1, <2>2 DEF Chat!Request
  <2>5. asked'[r].pc \in {"kick", "join"} => asked'[r].todo # {}
    BY <1>1, <1>12, <2>4 DEF Shape
  <2>6. Shape(asked'[r]) /\ Onward(q, asked'[r])
    BY <1>1, <1>12, <2>4, <2>5 DEF Shape, Onward
  <2>7. QED
    BY <2>3, <2>6 DEF q
<1>13. ASSUME Chat!KickDoc(r) \/ Chat!KickSets(r) PROVE G
  <2>1. q.pc = "kick" /\ "tellgone" \in Stages(q.op) /\ q.op # "leave"
    BY <1>1, <1>13 DEF Chat!KickDoc, Chat!KickSets, Shape, Stages, Gate, q
  <2>2. PICK write : Chat!Parallel(r, "tellgone", write)
    BY <1>13 DEF Chat!KickDoc, Chat!KickSets
  <2>3. QED
    BY <1>12, <2>1, <2>2 DEF Chat!Steps
<1>14. ASSUME Chat!JoinDoc(r) \/ Chat!JoinSets(r) PROVE G
  <2>1. q.pc = "join" /\ "enqueue" \in Stages(q.op) /\ q.op # "leave"
    BY <1>1, <1>14 DEF Chat!JoinDoc, Chat!JoinSets, Shape, Stages, Gate, q
  <2>2. PICK write : Chat!Parallel(r, "enqueue", write)
    BY <1>14 DEF Chat!JoinDoc, Chat!JoinSets
  <2>3. QED
    BY <1>12, <2>1, <2>2 DEF Chat!Steps
<1>15. ASSUME NEW p \in Chat!Request, asked' = [asked EXCEPT ![r] = p], Shape(p), Onward(q, p)
       PROVE  G
  BY <1>2, <1>15 DEF Becomes, q
<1>16. ASSUME Chat!Create(r) PROVE G
  <2> DEFINE p == [q EXCEPT !.pc = "join", !.todo = {"sets"}]
  <2>1. p \in Chat!Request
    BY <1>1 DEF Chat!Request, Chat!Steps
  <2>2. asked' = [asked EXCEPT ![r] = p]
    BY <1>2, <1>16 DEF Chat!Create, q
  <2>3. q.pc = "create"
    BY <1>16 DEF Chat!Create, q
  <2>4. /\ p.pc = "join" /\ p.todo = {"sets"} /\ p.op = q.op /\ p.user = q.user
        /\ p.who = q.who /\ p.snap = q.snap /\ p.role = q.role
    BY <1>1 DEF Chat!Request
  <2>5. "join" \in Stages(q.op)
    BY <1>1, <2>3 DEF Shape, Stages, Gate
  <2> HIDE DEF p
  <2>6. Shape(p) /\ Onward(q, p)
    BY <1>1, <2>3, <2>4, <2>5 DEF Shape, Onward
  <2>7. QED
    BY <1>15, <2>1, <2>2, <2>6
<1>17. ASSUME Chat!ChangeRole(r) PROVE G
  <2> DEFINE p == [q EXCEPT !.pc = "tellkept", !.snap = room']
  <2>1. q.pc = "role" /\ q.role \in Chat!Roles
    BY <1>1, <1>17 DEF Chat!ChangeRole, Shape, Stages, Gate, q
  <2>2. CASE room = None
    BY <1>4, <1>17, <2>1, <2>2 DEF Chat!ChangeRole
  <2>3. CASE room # None
    <3>1. room' \in Seq(Entry)
      BY <1>17, <2>1, <2>3, Regrading DEF q
    <3>2. p \in Chat!Request
      BY <1>1, <3>1 DEF Chat!Request, Chat!Steps, Entry
    <3>3. asked' = [asked EXCEPT ![r] = p]
      BY <1>2, <1>17, <2>3 DEF Chat!ChangeRole, q
    <3>4. /\ p.pc = "tellkept" /\ p.todo = q.todo /\ p.op = q.op /\ p.user = q.user
          /\ p.who = q.who /\ p.role = q.role
      BY <1>1 DEF Chat!Request
    <3>5. "tellkept" \in Stages(q.op) /\ q.op # "leave"
      BY <1>1, <2>1 DEF Shape, Stages, Gate
    <3> HIDE DEF p
    <3>6. Shape(p) /\ Onward(q, p)
      BY <1>1, <2>1, <3>4, <3>5 DEF Shape, Onward
    <3>7. QED
      BY <1>15, <3>2, <3>3, <3>6
  <2>4. QED
    BY <2>2, <2>3
\* The steps that take a copy of the document.
<1>18. ASSUME room # None, NEW pc \in {"pull", "kick", "join", "tellkept"},
              NEW who \in SUBSET Guests, NEW todo \in SUBSET {"doc", "sets"},
              asked' = [asked EXCEPT ![r] = [q EXCEPT !.pc = pc, !.snap = room, !.who = who,
                                                      !.todo = todo]],
              q.pc # "idle", pc \in Stages(q.op), who \subseteq q.who,
              pc = "pull" => q.user \in Chat!UsersOf(room), pc = "tellkept" => q.op # "leave",
              pc \in {"kick", "join"} => todo # {},
              q.op = "create" => "doc" \notin todo
       PROVE  G
  <2> DEFINE p == [q EXCEPT !.pc = pc, !.snap = room, !.who = who, !.todo = todo]
  <2>1. room \in Seq(Entry)
    BY <1>18 DEF Types, StoreTypes
  <2>2. p \in Chat!Request
    BY <1>1, <2>1 DEF Chat!Request, Chat!Steps, Entry
  <2>3. /\ p.pc = pc /\ p.todo = todo /\ p.op = q.op /\ p.user = q.user
        /\ p.who = who /\ p.role = q.role /\ p.snap = room
    BY <1>1 DEF Chat!Request
  <2>4. asked' = [asked EXCEPT ![r] = p]
    BY <1>18
  <2> HIDE DEF p
  <2>5. Shape(p) /\ Onward(q, p)
    BY <1>1, <1>18, <2>3 DEF Shape, Onward
  <2>6. QED
    BY <1>15, <2>2, <2>4, <2>5
<1>19. /\ q.who \in SUBSET Guests /\ q.todo \in SUBSET {"doc", "sets"}
       /\ q = [q EXCEPT !.who = q.who, !.todo = q.todo]
  BY <1>1 DEF Chat!Request
<1>20. ASSUME Chat!Edit(r) PROVE G
  <2>1. q.pc = "edit" /\ "tellkept" \in Stages(q.op) /\ q.op \notin {"create", "leave"}
    BY <1>1, <1>20 DEF Chat!Edit, Shape, Stages, Gate, q
  <2>2. CASE Chat!End(r)
    BY <1>4, <2>1, <2>2
  <2>3. CASE room # None /\ asked' = [asked EXCEPT ![r].pc = "tellkept", ![r].snap = room]
    <3>1. asked' = [asked EXCEPT ![r] = [q EXCEPT !.pc = "tellkept", !.snap = room,
                                                  !.who = q.who, !.todo = q.todo]]
      <4>1. [q EXCEPT !.pc = "tellkept", !.snap = room]
              = [q EXCEPT !.pc = "tellkept", !.snap = room, !.who = q.who, !.todo = q.todo]
        BY <1>1 DEF Chat!Request
      <4>2. asked' = [asked EXCEPT ![r] = [q EXCEPT !.pc = "tellkept", !.snap = room]]
        BY <1>2, <2>3 DEF q
      <4>3. QED
        BY <4>1, <4>2
    <3>2. QED
      BY <1>18, <1>19, <2>1, <2>3, <3>1
  <2>4. QED
    BY <1>20, <2>2, <2>3, Zenon DEF Chat!Edit
<1>21. ASSUME Chat!Read(r) PROVE G
  <2>1. q.pc = "read" /\ q.pc # "idle" /\ q.op \in AllOps \ {"create", "connect"} /\ q.user \in Guests
    BY <1>1, <1>21 DEF Chat!Read, Shape, Stages, Gate, AllOps, q
  <2>2. CASE Chat!End(r)
    BY <1>4, <2>1, <2>2
  <2>3. CASE room # None /\ q.op = "leave" /\ ~ Chat!End(r)
    <3>1. Chat!Leaving(r, q)
      BY <1>21, <2>3 DEF Chat!Read, q
    <3>2. q.user \in Chat!UsersOf(room)
          /\ asked' = [asked EXCEPT ![r].pc = "pull", ![r].snap = room]
      BY <2>3, <3>1, Zenon DEF Chat!Leaving
    <3>3. asked' = [asked EXCEPT ![r] = [q EXCEPT !.pc = "pull", !.snap = room,
                                                  !.who = q.who, !.todo = q.todo]]
      <4>1. [q EXCEPT !.pc = "pull", !.snap = room]
              = [q EXCEPT !.pc = "pull", !.snap = room, !.who = q.who, !.todo = q.todo]
        BY <1>1 DEF Chat!Request
      <4>2. asked' = [asked EXCEPT ![r] = [q EXCEPT !.pc = "pull", !.snap = room]]
        BY <1>2, <3>2 DEF q
      <4>3. QED
        BY <4>1, <4>2
    <3>4. "pull" \in Stages(q.op)
      BY <2>3 DEF Stages
    <3>5. QED
      BY <1>18, <1>19, <2>1, <2>3, <3>2, <3>3, <3>4
  <2>4. CASE room # None /\ q.op = "kick" /\ ~ Chat!End(r)
    <3>1. Chat!Kicking(r, q)
      BY <1>21, <2>4 DEF Chat!Read, q
    <3>2. asked' = [asked EXCEPT ![r].pc = "kick", ![r].snap = room, ![r].todo = {"doc", "sets"}]
      BY <2>4, <3>1, Zenon DEF Chat!Kicking
    <3>3. asked' = [asked EXCEPT ![r] = [q EXCEPT !.pc = "kick", !.snap = room,
                                                  !.who = q.who, !.todo = {"doc", "sets"}]]
      <4>1. [q EXCEPT !.pc = "kick", !.snap = room, !.todo = {"doc", "sets"}]
              = [q EXCEPT !.pc = "kick", !.snap = room, !.who = q.who, !.todo = {"doc", "sets"}]
        BY <1>1 DEF Chat!Request
      <4>2. asked' = [asked EXCEPT ![r] = [q EXCEPT !.pc = "kick", !.snap = room,
                                                    !.todo = {"doc", "sets"}]]
        BY <1>2, <3>2 DEF q
      <4>3. QED
        BY <4>1, <4>2
    <3>4. "kick" \in Stages(q.op)
      BY <2>4 DEF Stages
    <3>5. QED
      BY <1>18, <1>19, <2>1, <2>4, <3>3, <3>4
  <2>5. CASE room # None /\ q.op = "add" /\ ~ Chat!End(r)
    <3> DEFINE new == q.who \ Chat!UsersOf(room)
    <3>1. Chat!Adding(r, q)
      BY <1>21, <2>5 DEF Chat!Read, q
    <3>2. asked' = [asked EXCEPT ![r].pc = "join", ![r].snap = room, ![r].who = new,
                                 ![r].todo = {"doc", "sets"}]
      BY <2>5, <3>1, Zenon DEF Chat!Adding
    <3> HIDE DEF new
    <3>3. asked' = [asked EXCEPT ![r] = [q EXCEPT !.pc = "join", !.snap = room,
                                                  !.who = new, !.todo = {"doc", "sets"}]]
      BY <1>2, <3>2 DEF q
    <3>4. "join" \in Stages(q.op)
      BY <2>5 DEF Stages
    <3>5. new \in SUBSET Guests /\ new \subseteq q.who
      BY <1>19 DEF new
    <3>6. QED
      BY <1>18, <2>1, <2>5, <3>3, <3>4, <3>5
  <2>6. CASE room # None /\ q.op \in {"role", "edit", "pin", "clear"} /\ ~ Chat!End(r)
    <3>1. PICK pc \in {"role", "edit", "tellkept", "tellgone"} : Chat!Go(r, pc) /\ pc \in Stages(q.op)
      BY <1>21, <2>6 DEF Chat!Read, Stages, q
    <3>2. asked'[r] = [q EXCEPT !.pc = pc] /\ Becomes(r, asked'[r])
      BY <1>3, <3>1 DEF Chat!Steps
    <3>3. QED
      BY <1>1, <2>1, <2>6, <3>1, <3>2 DEF Onward, Shape, Chat!Request, q
  <2>7. room = None => Chat!End(r)
    BY <1>21 DEF Chat!Read
  <2>8. QED
    BY <2>1, <2>2, <2>3, <2>4, <2>5, <2>6, <2>7 DEF AllOps
<1>22. QED
  BY <1>5, <1>6, <1>8, <1>9, <1>10, <1>11, <1>13, <1>14, <1>16, <1>17, <1>20, <1>21
  DEF Chat!Step

\* What it leaves of the rest: nothing but the document, the sets and the feed changes.
LEMMA StepTypes ==
  ASSUME Types, ShapeInv, NEW r \in Requests, Chat!Step(r)
  PROVE  StoreTypes' /\ steps' = steps
<1> DEFINE q == asked[r]
           G == StoreTypes' /\ steps' = steps
           RoomOk == room' = None \/ room' \in Seq(Entry)
<1>1. q \in Chat!Request /\ Shape(q) /\ StoreTypes
  BY DEF Types, ShapeInv
<1>2. q.pc # "idle" => q.user \in Guests
  BY <1>1 DEF Shape
<1>3. q.who \subseteq Guests
  BY <1>1 DEF Chat!Request
<1>4. ASSUME RoomOk, UNCHANGED <<members, pair, rooms, warm, synced, queued, feed, steps>> PROVE G
  BY <1>1, <1>4 DEF StoreTypes
<1>5. ASSUME UNCHANGED <<Chat!store, feed, steps>> PROVE G
  BY <1>1, <1>5 DEF StoreTypes, Chat!store
<1>6. ASSUME UNCHANGED <<Chat!store, steps>>, feed' \in [Guests -> {None, "upserted", "removed"}]
      PROVE  G
  BY <1>1, <1>6 DEF StoreTypes, Chat!store
<1>7. ASSUME Chat!Exists(r) \/ Chat!Read(r) \/ Chat!Edit(r) \/ Chat!Scan(r) PROVE G
  BY <1>5, <1>7 DEF Chat!Exists, Chat!Read, Chat!Edit, Chat!Scan
<1>8. ASSUME Chat!TellGone(r) \/ Chat!TellKept(r) PROVE G
  <2>1. feed' \in [Guests -> {None, "upserted", "removed"}]
    BY <1>1, <1>8 DEF Chat!TellGone, Chat!TellKept, StoreTypes
  <2>2. QED
    BY <1>6, <1>8, <2>1 DEF Chat!TellGone, Chat!TellKept
<1>9. ASSUME Chat!Pull(r) PROVE G
  <2>1. RoomOk
    BY <1>1, <1>9, Removing DEF Chat!Pull
  <2>2. QED
    BY <1>4, <1>9, <2>1 DEF Chat!Pull
<1>10. ASSUME Chat!Promote(r) PROVE G
  <2>1. RoomOk
    BY <1>1, <1>10, Promoting
  <2>2. QED
    BY <1>4, <1>10, <2>1 DEF Chat!Promote
<1>11. ASSUME Chat!Delete(r) PROVE G
  BY <1>4, <1>11 DEF Chat!Delete
<1>12. ASSUME Chat!KickDoc(r) PROVE G
  <2>1. RoomOk
    BY <1>1, <1>12, Removing DEF Chat!KickDoc
  <2>2. QED
    BY <1>4, <1>12, <2>1 DEF Chat!KickDoc
<1>13. ASSUME Chat!Create(r) PROVE G
  <2>1. q.pc = "create"
    BY <1>13 DEF Chat!Create
  <2>2. q.user \in Guests \ q.who
    BY <1>1, <2>1 DEF Shape, Stages, Gate
  <2>3. RoomOk
    BY <1>13, <2>2, Founding
  <2>4. QED
    BY <1>4, <1>13, <2>3 DEF Chat!Create
<1>14. ASSUME Chat!JoinDoc(r) PROVE G
  <2>1. RoomOk
    BY <1>14, Adding
  <2>2. QED
    BY <1>4, <1>14, <2>1 DEF Chat!JoinDoc
<1>15. ASSUME Chat!ChangeRole(r) PROVE G
  <2>1. q.pc = "role"
    BY <1>15 DEF Chat!ChangeRole
  <2>2. q.role \in Chat!Roles
    BY <1>1, <2>1 DEF Shape, Stages, Gate
  <2>3. RoomOk
    BY <1>15, <2>2, Regrading
  <2>4. QED
    BY <1>4, <1>15, <2>3 DEF Chat!ChangeRole
<1>16. ASSUME Chat!Prime(r) \/ Chat!Fill(r) \/ Chat!Flag(r) PROVE G
  BY <1>1, <1>2, <1>16 DEF Chat!Prime, Chat!Fill, Chat!Flag, StoreTypes
<1>17. ASSUME Chat!Unset(r) \/ Chat!Unroom(r) PROVE G
  BY <1>1, <1>17 DEF Chat!Unset, Chat!Unroom, StoreTypes
<1>18. ASSUME Chat!KickSets(r) PROVE G
  BY <1>1, <1>18 DEF Chat!KickSets, StoreTypes
<1>19. ASSUME Chat!JoinSets(r) PROVE G
  <2>1. q.pc = "join"
    BY <1>19 DEF Chat!JoinSets
  <2>2. Chat!Holds(q) \subseteq Guests /\ q.user \in Guests
    BY <1>2, <1>3, <2>1 DEF Chat!Holds
  <2>3. QED
    BY <1>1, <1>19, <2>2 DEF Chat!JoinSets, StoreTypes
<1>20. ASSUME Chat!Enqueue(r) PROVE G
  BY <1>1, <1>3, <1>20 DEF Chat!Enqueue, StoreTypes
<1>21. QED
  BY <1>7, <1>8, <1>9, <1>10, <1>11, <1>12, <1>13, <1>14, <1>15, <1>16, <1>17, <1>18, <1>19, <1>20
  DEF Chat!Step

\* Another step: a call, a failure, a job, a restart of Redis.
LEMMA OtherTypes ==
  ASSUME Types, ShapeInv
  PROVE  /\ \A r \in Requests : Chat!Abort(r) =>
              /\ asked[r].pc # "idle" /\ Becomes(r, Chat!Idle) /\ StoreTypes'
              /\ UNCHANGED <<Chat!store, feed>> /\ steps' > steps
         /\ \A i \in DOMAIN queued : Chat!RunJob(i) =>
              StoreTypes' /\ UNCHANGED <<room, members, synced, feed, asked, steps, unled>>
         /\ Chat!Flush =>
              StoreTypes' /\ room # None /\ steps' > steps /\ UNCHANGED <<room, feed, asked, unled>>
<1>1. ASSUME NEW r \in Requests, Chat!Abort(r)
      PROVE  /\ asked[r].pc # "idle" /\ Becomes(r, Chat!Idle) /\ StoreTypes'
             /\ UNCHANGED <<Chat!store, feed>> /\ steps' > steps
  <2>1. Chat!End(r) /\ steps' \in 0..MaxSteps /\ steps' > steps
        /\ UNCHANGED <<Chat!store, feed>> /\ asked[r].pc # "idle"
    BY <1>1, Assumed DEF Chat!Abort, Chat!Costs, Types, StoreTypes
  <2>2. Becomes(r, Chat!Idle)
    BY <2>1, Ending DEF Types
  <2>3. StoreTypes'
    BY <2>1 DEF Types, StoreTypes, Chat!store
  <2>4. QED
    BY <2>1, <2>2, <2>3
<1>2. ASSUME NEW i \in DOMAIN queued, Chat!RunJob(i)
      PROVE  StoreTypes' /\ UNCHANGED <<room, members, synced, feed, asked, steps, unled>>
  <2>1. queued \in Seq(SUBSET Guests) /\ queued[i] \in SUBSET Guests
    BY DEF Types, StoreTypes
  <2>2. queued' \in Seq(SUBSET Guests)
    BY <1>2, <2>1, TakenOut DEF Chat!RunJob
  <2>3. QED
    BY <1>2, <2>1, <2>2 DEF Chat!RunJob, Chat!Fine, Types, StoreTypes
<1>3. ASSUME Chat!Flush
      PROVE  StoreTypes' /\ room # None /\ steps' > steps /\ UNCHANGED <<room, feed, asked, unled>>
  <2>1. <<>> \in Seq(SUBSET Guests)
    OBVIOUS
  <2>2. QED
    BY <1>3, <2>1, Assumed DEF Chat!Flush, Chat!Costs, Types, StoreTypes
<1>4. QED
  BY <1>1, <1>2, <1>3

\* The users a request writes the entries of, or tells of the room, are guests.
LEMMA HoldsGuests ==
  ASSUME NEW q \in Chat!Request, Shape(q)
  PROVE  Chat!Holds(q) \subseteq Guests /\ Chat!Tells(q) \subseteq Guests
<1>1. q.who \subseteq Guests /\ q.snap \in Seq(Entry) /\ (q.pc # "idle" => q.user \in Guests)
  BY DEF Chat!Request, Shape, Entry
<1>2. Chat!UsersOf(q.snap) \subseteq Guests
  <2>1. \A i \in DOMAIN q.snap : q.snap[i] \in Entry
    BY <1>1
  <2>2. QED
    BY <2>1 DEF Chat!UsersOf, Entry, Chat!Member
<1>3. Chat!Holds(q) \subseteq Guests
  <2>1. CASE q.pc \in {"prime", "fill", "flag", "promote", "unset", "unroom"}
    BY <1>1, <2>1 DEF Chat!Holds
  <2>2. CASE q.pc \in {"pull", "delete"}
    BY <1>1, <2>2 DEF Chat!Holds
  <2>3. CASE q.pc = "kick"
    BY <1>1, <2>3 DEF Chat!Holds
  <2>4. CASE q.pc \in {"join", "enqueue"}
    BY <1>1, <2>4 DEF Chat!Holds
  <2>5. CASE q.pc \notin {"prime", "fill", "flag", "promote", "unset", "unroom", "pull",
                          "delete", "kick", "join", "enqueue"}
    BY <2>5 DEF Chat!Holds
  <2>6. QED
    BY <2>1, <2>2, <2>3, <2>4, <2>5
<1>4. CASE q.pc \in {"pull", "promote", "delete", "unset", "unroom", "kick", "join", "enqueue",
                     "tellgone", "tellkept"}
  <2>1. q.user \in Guests /\ Chat!Tells(q) = Chat!Gone(q) \union Chat!Kept(q)
    BY <1>1, <1>4 DEF Chat!Tells
  <2>2. Chat!Gone(q) \subseteq Guests
    BY <1>1, <1>2, <2>1 DEF Chat!Gone
  <2>3. q.op = "leave" => Chat!UsersOf(Chat!Others(q.snap, q.user)) \subseteq Guests
    <3>1. q.op = "leave" => q.user \in Chat!UsersOf(q.snap)
      BY <1>4 DEF Shape, Stages, Gate
    <3>2. QED
      BY <1>1, <1>2, <3>1, OthersOf
  <2>4. Chat!Kept(q) \subseteq Guests
    BY <1>1, <1>2, <2>1, <2>3 DEF Chat!Kept
  <2>5. QED
    BY <1>3, <2>1, <2>2, <2>4
<1>5. CASE q.pc \notin {"pull", "promote", "delete", "unset", "unroom", "kick", "join",
                        "enqueue", "tellgone", "tellkept"}
  BY <1>3, <1>5 DEF Chat!Tells
<1>6. QED
  BY <1>4, <1>5

\* Every step records who it harms, of the guests, and forgets nothing it recorded.
LEMMA Recorded ==
  ASSUME Types, ShapeInv, Chat!Next
  PROVE  /\ \E h, m \in SUBSET Guests : Chat!Record(h, m)
         /\ unled' \in BOOLEAN /\ (unled => unled')
<1> DEFINE G == /\ \E h, m \in SUBSET Guests : Chat!Record(h, m)
                /\ unled' \in BOOLEAN /\ (unled => unled')
<1>1. unled \in BOOLEAN
  BY DEF Types
<1>2. ASSUME Chat!Record({}, {}), NEW P, unled' = (unled \/ P) PROVE G
  BY <1>1, <1>2
<1>3. ASSUME Chat!Fine PROVE G
  BY <1>1, <1>3 DEF Chat!Fine
<1>4. ASSUME NEW r \in Requests, Chat!Step(r) PROVE G
  <2>1. CASE \/ Chat!Exists(r) \/ Chat!Delete(r) \/ Chat!Unset(r) \/ Chat!Unroom(r)
             \/ Chat!Create(r) \/ Chat!Enqueue(r) \/ Chat!Edit(r) \/ Chat!TellGone(r)
             \/ Chat!TellKept(r) \/ Chat!Scan(r) \/ Chat!Fill(r) \/ Chat!Flag(r)
             \/ Chat!Prime(r) \/ Chat!KickSets(r) \/ Chat!JoinSets(r)
    <3>1. Chat!Fine
      BY <2>1
      DEF Chat!Exists, Chat!Delete, Chat!Unset, Chat!Unroom, Chat!Create, Chat!Enqueue,
          Chat!Edit, Chat!TellGone, Chat!TellKept, Chat!Scan, Chat!Fill, Chat!Flag,
          Chat!Prime, Chat!KickSets, Chat!JoinSets
    <3>2. QED
      BY <1>3, <3>1
  <2>2. CASE Chat!Read(r)
    <3>1. PICK m : Chat!Record({}, m) /\ unled' = unled
                   /\ m = (IF asked[r].op = "pin" THEN {asked[r].user} \ Chat!InRoom ELSE {})
      BY <2>2 DEF Chat!Read
    <3>2. asked[r].pc = "read"
      BY <2>2 DEF Chat!Read
    <3>3. m \in SUBSET Guests
      BY <3>1, <3>2 DEF ShapeInv, Shape
    <3>4. QED
      BY <1>1, <3>1, <3>3
  <2>3. CASE Chat!Pull(r)
    BY <1>2, <2>3 DEF Chat!Pull
  <2>4. CASE Chat!Promote(r)
    BY <1>2, <2>4 DEF Chat!Promote
  <2>5. CASE Chat!KickDoc(r)
    BY <1>2, <2>5 DEF Chat!KickDoc
  <2>6. CASE Chat!JoinDoc(r)
    BY <1>2, <2>6 DEF Chat!JoinDoc
  <2>7. CASE Chat!ChangeRole(r)
    BY <1>2, <2>7 DEF Chat!ChangeRole
  <2>8. QED
    BY <1>4, <2>1, <2>2, <2>3, <2>4, <2>5, <2>6, <2>7 DEF Chat!Step
<1>5. ASSUME NEW r \in Requests, Chat!Abort(r) PROVE G
  <2>1. /\ Chat!Record(Chat!Holds(asked[r]), Chat!Tells(asked[r]))
        /\ unled' = (unled \/ asked[r].pc = "promote")
    BY <1>5 DEF Chat!Abort
  <2>2. Chat!Holds(asked[r]) \in SUBSET Guests /\ Chat!Tells(asked[r]) \in SUBSET Guests
    BY HoldsGuests DEF Types, ShapeInv
  <2>3. QED
    BY <1>1, <2>1, <2>2
<1>6. ASSUME Chat!Flush PROVE G
  <2>1. /\ Chat!Record(UNION {Chat!Holds(asked[r]) : r \in Requests}, {}) /\ unled' = unled
    BY <1>6 DEF Chat!Flush
  <2>2. UNION {Chat!Holds(asked[r]) : r \in Requests} \in SUBSET Guests
    BY HoldsGuests DEF Types, ShapeInv
  <2>3. QED
    BY <1>1, <2>1, <2>2
<1>7. ASSUME NEW i \in DOMAIN queued, Chat!RunJob(i) PROVE G
  BY <1>3, <1>7 DEF Chat!RunJob
<1>8. ASSUME NEW r \in Requests, NEW u \in Guests, Chat!CallCreate(r, u) \/ Chat!Connect(r, u)
      PROVE  G
  BY <1>1, <1>3, <1>8 DEF Chat!CallCreate, Chat!Connect
<1>9. ASSUME NEW r \in Requests, NEW u \in Guests, NEW op \in AllOps, Chat!Call(r, u, op)
      PROVE  G
  BY <1>1, <1>9 DEF Chat!Call
<1> HIDE DEF G
<1>10. QED
  <2>1. G
    BY <1>4, <1>5, <1>6, <1>7, <1>8, <1>9 DEF Chat!Next
  <2>2. QED
    BY <2>1 DEF G

\* Types and shapes are inductive.
LEMMA TypesKept ==
  ASSUME Types, ShapeInv, Chat!Next
  PROVE  Types' /\ ShapeInv'
<1> DEFINE G == StoreTypes' /\ asked' \in [Requests -> Chat!Request] /\ ShapeInv'
<1>1. StoreTypes /\ asked \in [Requests -> Chat!Request]
  BY DEF Types
<1>2. ASSUME NEW r \in Requests, Becomes(r, asked'[r]), Shape(asked'[r])
      PROVE  asked' \in [Requests -> Chat!Request] /\ ShapeInv'
  BY <1>2 DEF Becomes, ShapeInv
<1>3. ASSUME UNCHANGED asked PROVE asked' \in [Requests -> Chat!Request] /\ ShapeInv'
  BY <1>1, <1>3 DEF ShapeInv
<1>4. ASSUME UNCHANGED <<Chat!store, feed>>, steps' \in 0..MaxSteps PROVE StoreTypes'
  BY <1>1, <1>4 DEF StoreTypes, Chat!store
<1>5. ASSUME NEW r \in Requests, Chat!Step(r) PROVE G
  BY <1>2, <1>5, StepShapes, StepTypes
<1>6. ASSUME NEW r \in Requests, Chat!Abort(r) PROVE G
  <2>1. StoreTypes' /\ Becomes(r, Chat!Idle)
    BY <1>6, OtherTypes
  <2>2. Becomes(r, asked'[r]) /\ asked'[r] = Chat!Idle
    BY <2>1 DEF Becomes
  <2>3. QED
    BY <1>2, <2>1, <2>2, IdleShape
<1>7. ASSUME Chat!Flush PROVE G
  BY <1>3, <1>7, OtherTypes
<1>8. ASSUME NEW i \in DOMAIN queued, Chat!RunJob(i) PROVE G
  BY <1>3, <1>8, OtherTypes
<1>9. ASSUME NEW r \in Requests, NEW u \in Guests, Chat!CallCreate(r, u) PROVE G
  <2>1. /\ UNCHANGED <<Chat!store, feed, steps>>
        /\ Becomes(r, asked'[r]) /\ Shape(asked'[r])
    BY <1>9, Starting
  <2>2. steps' \in 0..MaxSteps
    BY <1>1, <2>1 DEF StoreTypes
  <2>3. QED
    BY <1>2, <1>4, <2>1, <2>2
<1>10. ASSUME NEW r \in Requests, NEW u \in Guests, Chat!Connect(r, u) PROVE G
  BY <1>2, <1>4, <1>10, Connecting
<1>11. ASSUME NEW r \in Requests, NEW u \in Guests, NEW op \in AllOps, Chat!Call(r, u, op) PROVE G
  BY <1>2, <1>4, <1>11, Calling
<1>12. G
  <2> HIDE DEF G
  <2>1. QED
    BY <1>5, <1>6, <1>7, <1>8, <1>9, <1>10, <1>11 DEF Chat!Next
<1>13. mixed' \subseteq Guests /\ feedMixed' \subseteq Guests
  <2>1. PICK h, m \in SUBSET Guests : Chat!Record(h, m)
    BY Recorded
  <2>2. \A r \in Requests : Chat!Holds(asked'[r]) \subseteq Guests /\ Chat!Tells(asked'[r]) \subseteq Guests
    BY <1>12, HoldsGuests DEF ShapeInv
  <2>3. Chat!Contested' \subseteq Guests /\ Chat!FeedContested' \subseteq Guests
    BY <2>2 DEF Chat!Contested, Chat!FeedContested
  <2>4. QED
    BY <2>1, <2>3 DEF Chat!Record, Types
<1>14. QED
  BY <1>12, <1>13, Recorded DEF Types

\* What Rooms calls its type invariant.
LEMMA TypesSay ==
  ASSUME Types, ShapeInv
  PROVE  Chat!TypeOK
BY DEF Types, StoreTypes, ShapeInv, Shape, Chat!TypeOK, Entry

-------------------------------------------------------------------------------
(* Until the room is there, nobody else is *)

Fresh ==
  /\ \A r \in Requests : asked[r].pc = "create" => room = None /\ steps = 0
  /\ steps = 0 => \A r \in Requests : asked[r].pc # "idle" => asked[r].op = "create"
  /\ room = None /\ steps = 0 =>
       /\ members = {} /\ rooms = {} /\ synced = {} /\ queued = <<>>
       /\ \A r \in Requests : asked[r].pc \in {"idle", "create"}
       /\ \A r, s \in Requests : asked[r].pc # "idle" /\ asked[s].pc # "idle" => r = s

\* Only Delete takes the document away.
LEMMA Deleting ==
  ASSUME Types, ShapeInv, NEW r \in Requests, Chat!Step(r), room # None, room' = None
  PROVE  Chat!Delete(r)
<1> DEFINE q == asked[r]
<1>1. StoreTypes /\ q \in Chat!Request /\ Shape(q)
  BY DEF Types, ShapeInv
<1>2. ~ (\/ Chat!Exists(r) \/ Chat!Read(r) \/ Chat!Unset(r) \/ Chat!Unroom(r) \/ Chat!Enqueue(r)
         \/ Chat!Edit(r) \/ Chat!TellGone(r) \/ Chat!TellKept(r) \/ Chat!Scan(r) \/ Chat!Fill(r)
         \/ Chat!Flag(r) \/ Chat!Prime(r) \/ Chat!KickSets(r) \/ Chat!JoinSets(r))
  <2>1. room' # room
    OBVIOUS
  <2>2. QED
    BY <2>1
    DEF Chat!Exists, Chat!Read, Chat!Unset, Chat!Unroom, Chat!Enqueue, Chat!Edit,
        Chat!TellGone, Chat!TellKept, Chat!Scan, Chat!Fill, Chat!Flag, Chat!Prime,
        Chat!KickSets, Chat!JoinSets, Chat!store
<1>3. ~ Chat!Pull(r)
  BY <1>1, Removing DEF Chat!Pull
<1>4. ~ Chat!KickDoc(r)
  BY <1>1, Removing DEF Chat!KickDoc
<1>5. ~ Chat!Promote(r)
  BY <1>1, Promoting
<1>6. ~ Chat!Create(r)
  <2>1. SUFFICES ASSUME Chat!Create(r) PROVE FALSE
    OBVIOUS
  <2>2. q.user \in Guests \ q.who
    BY <1>1, <2>1 DEF Chat!Create, Shape, Stages, Gate
  <2>3. QED
    BY <2>1, <2>2, Founding
<1>7. ~ Chat!JoinDoc(r)
  BY Adding
<1>8. ~ Chat!ChangeRole(r)
  <2>1. SUFFICES ASSUME Chat!ChangeRole(r) PROVE FALSE
    OBVIOUS
  <2>2. q.role \in Chat!Roles
    BY <1>1, <2>1 DEF Chat!ChangeRole, Shape, Stages, Gate
  <2>3. QED
    BY <2>1, <2>2, Regrading
<1>9. QED
  BY <1>2, <1>3, <1>4, <1>5, <1>6, <1>7, <1>8 DEF Chat!Step

LEMMA FreshKept ==
  ASSUME Types, ShapeInv, Fresh, Chat!Next
  PROVE  Fresh'
<1>1. steps \in Nat
  BY Assumed DEF Types, StoreTypes
<1>2. ASSUME NEW r \in Requests, Chat!Step(r) PROVE Fresh'
  <2>1. Becomes(r, asked'[r]) /\ Onward(asked[r], asked'[r]) /\ steps' = steps
    BY <1>2, StepShapes, StepTypes
  <2>2. \A s \in Requests : asked'[s].pc # "create"
    BY <2>1 DEF Becomes, Onward, Fresh
  <2>3. steps = 0 => \A s \in Requests : asked'[s].pc # "idle" => asked'[s].op = "create"
    <3>1. Chat!Idle.pc = "idle"
      BY DEF Chat!Idle
    <3>2. QED
      BY <2>1, <3>1 DEF Becomes, Onward, Fresh
  <2>4. ~ (room' = None /\ steps = 0)
    <3>1. SUFFICES ASSUME room' = None, steps = 0 PROVE FALSE
      OBVIOUS
    <3>2. asked[r].op = "create" /\ Shape(asked[r])
      BY <2>1, <3>1 DEF Onward, Fresh, ShapeInv
    <3>3. CASE room # None
      <4>1. asked[r].pc = "delete"
        BY <1>2, <3>1, <3>3, Deleting DEF Chat!Delete
      <4>2. QED
        BY <3>2, <4>1 DEF Shape, Stages
    <3>4. CASE room = None
      <4>1. asked[r].pc = "create"
        BY <2>1, <3>1, <3>4 DEF Onward, Fresh
      <4>2. Chat!Create(r)
        BY <1>2, <4>1
        DEF Chat!Step, Chat!Exists, Chat!Read, Chat!Pull, Chat!Promote, Chat!Delete, Chat!Unset,
            Chat!Unroom, Chat!Enqueue, Chat!ChangeRole, Chat!Edit, Chat!TellGone, Chat!TellKept,
            Chat!Scan, Chat!Fill, Chat!Flag, Chat!Prime, Chat!KickDoc, Chat!KickSets,
            Chat!JoinDoc, Chat!JoinSets
      <4>3. asked[r].user \in Guests \ asked[r].who
        BY <3>2, <4>1 DEF Shape
      <4>4. QED
        BY <3>1, <4>2, <4>3, Founding
    <3>5. QED
      BY <3>3, <3>4
  <2>5. QED
    BY <2>1, <2>2, <2>3, <2>4 DEF Fresh
<1>3. ASSUME steps' > steps, \A s \in Requests : asked'[s].pc # "create" PROVE Fresh'
  BY <1>1, <1>3 DEF Fresh
<1>4. ASSUME NEW r \in Requests, Chat!Abort(r) PROVE Fresh'
  <2>1. /\ asked[r].pc # "idle" /\ Becomes(r, Chat!Idle) /\ steps' > steps
    BY <1>4, OtherTypes
  <2>2. Chat!Idle.pc = "idle"
    BY DEF Chat!Idle
  <2>3. \A s \in Requests : asked'[s].pc # "create"
    BY <2>1, <2>2 DEF Becomes, Fresh
  <2>4. QED
    BY <1>3, <2>1, <2>3
<1>5. ASSUME Chat!Flush PROVE Fresh'
  BY <1>3, <1>5, OtherTypes DEF Fresh
<1>6. ASSUME NEW i \in DOMAIN queued, Chat!RunJob(i) PROVE Fresh'
  <2>1. UNCHANGED <<room, asked, steps>>
    BY <1>6, OtherTypes
  <2>2. queued # <<>>
    OBVIOUS
  <2>3. QED
    BY <2>1, <2>2 DEF Fresh
<1>7. ASSUME NEW r \in Requests, NEW u \in Guests, Chat!CallCreate(r, u) PROVE Fresh'
  <2>1. /\ room = None /\ steps = 0 /\ UNCHANGED <<Chat!store, steps>>
        /\ asked[r] = Chat!Idle /\ \A s \in Requests : asked[s].op # "create"
        /\ Becomes(r, asked'[r]) /\ asked'[r].op = "create" /\ asked'[r].pc = "create"
    BY <1>7, Starting
  <2>2. \A s \in Requests \ {r} : asked'[s].pc = "idle"
    BY <2>1 DEF Becomes, Fresh
  <2>3. QED
    BY <2>1, <2>2 DEF Fresh, Chat!store
<1>8. ASSUME NEW r \in Requests, NEW u \in Guests, Chat!Connect(r, u) PROVE Fresh'
  <2>1. /\ room # None /\ steps' > steps
        /\ Becomes(r, asked'[r]) /\ asked'[r].pc = "scan"
    BY <1>8, Connecting
  <2>2. QED
    BY <1>3, <2>1 DEF Becomes, Fresh
<1>9. ASSUME NEW r \in Requests, NEW u \in Guests, NEW op \in AllOps, Chat!Call(r, u, op) PROVE Fresh'
  <2>1. /\ room # None /\ steps' > steps
        /\ Becomes(r, asked'[r]) /\ asked'[r].pc \in {"read", "exists"}
    BY <1>9, Calling
  <2>2. QED
    BY <1>3, <2>1 DEF Becomes, Fresh
<1>10. QED
  BY <1>2, <1>4, <1>5, <1>6, <1>7, <1>8, <1>9 DEF Chat!Next

-------------------------------------------------------------------------------
(* What each step makes of its request *)

\* The request q goes on to pc with nothing else changed; with another copy.
With(q, p, pc, snap, who, todo) ==
  /\ p.pc = pc /\ p.op = q.op /\ p.user = q.user /\ p.role = q.role
  /\ p.snap = snap /\ p.who = who /\ p.todo = todo

To(q, p, pc) == With(q, p, pc, q.snap, q.who, q.todo)

LEMMA GoesTo ==
  ASSUME Types, NEW r \in Requests, NEW pc \in Chat!Steps, Chat!Go(r, pc)
  PROVE  To(asked[r], asked'[r], pc)
<1>1. asked[r] \in Chat!Request /\ asked'[r] = [asked[r] EXCEPT !.pc = pc]
  BY Going DEF Types, Becomes
<1>2. QED
  BY <1>1 DEF To, With, Chat!Request

LEMMA EndsIdle ==
  ASSUME Types, NEW r \in Requests, Chat!End(r)
  PROVE  asked'[r] = Chat!Idle
BY Ending DEF Types, Becomes

LEMMA SharesTo ==
  ASSUME Types, NEW r \in Requests, NEW pc \in Chat!Steps, NEW write, Chat!Parallel(r, pc, write)
  PROVE  With(asked[r], asked'[r], IF asked[r].todo = {write} THEN pc ELSE asked[r].pc,
              asked[r].snap, asked[r].who, asked[r].todo \ {write})
<1>1. asked[r] \in Chat!Request
      /\ asked'[r] = [asked[r] EXCEPT !.todo = asked[r].todo \ {write},
                        !.pc = IF asked[r].todo = {write} THEN pc ELSE asked[r].pc]
  BY Sharing DEF Types, Becomes
<1>2. QED
  BY <1>1 DEF With, Chat!Request

LEMMA ReadsTo ==
  ASSUME Types, ShapeInv, NEW r \in Requests, Chat!Read(r)
  PROVE  LET q == asked[r]
             p == asked'[r] IN
         /\ q.pc = "read"
         /\ \/ p = Chat!Idle
            \/ /\ room # None /\ q.op = "leave" /\ q.user \in Chat!UsersOf(room)
               /\ With(q, p, "pull", room, q.who, q.todo)
            \/ /\ room # None /\ q.op = "kick"
               /\ With(q, p, "kick", room, q.who, {"doc", "sets"})
            \/ /\ room # None /\ q.op = "add"
               /\ With(q, p, "join", room, q.who \ Chat!UsersOf(room), {"doc", "sets"})
            \/ /\ room # None /\ q.op \in {"role", "edit"} /\ To(q, p, q.op)
            \/ /\ room # None /\ q.op = "pin" /\ To(q, p, "tellkept")
            \/ /\ room # None /\ q.op = "clear" /\ To(q, p, "tellgone")
<1> DEFINE q == asked[r]
           p == asked'[r]
<1>1. q \in Chat!Request /\ Shape(q) /\ asked \in [Requests -> Chat!Request]
  BY DEF Types, ShapeInv
<1>2. q.pc = "read" /\ q.op \in AllOps \ {"create", "connect"}
  BY <1>1 DEF Chat!Read, Shape, Stages, Gate, AllOps
<1>3. CASE Chat!End(r)
  BY <1>2, <1>3, EndsIdle
<1>4. CASE q.op = "leave" /\ ~ Chat!End(r)
  <2>1. room # None /\ Chat!Leaving(r, q)
    BY <1>4 DEF Chat!Read
  <2>2. /\ q.user \in Chat!UsersOf(room)
        /\ asked' = [asked EXCEPT ![r].pc = "pull", ![r].snap = room]
    BY <1>4, <2>1, Zenon DEF Chat!Leaving
  <2>3. p = [q EXCEPT !.pc = "pull", !.snap = room]
    BY <1>1, <2>2
  <2> HIDE DEF q, p
  <2>4. With(q, p, "pull", room, q.who, q.todo)
    BY <1>1, <2>3 DEF With, Chat!Request
  <2>5. QED
    BY <1>2, <1>4, <2>1, <2>2, <2>4 DEF q, p
<1>5. CASE q.op = "kick" /\ ~ Chat!End(r)
  <2>1. room # None /\ Chat!Kicking(r, q)
    BY <1>5 DEF Chat!Read
  <2>2. asked' = [asked EXCEPT ![r].pc = "kick", ![r].snap = room, ![r].todo = {"doc", "sets"}]
    BY <1>5, <2>1, Zenon DEF Chat!Kicking
  <2>3. p = [q EXCEPT !.pc = "kick", !.snap = room, !.todo = {"doc", "sets"}]
    BY <1>1, <2>2
  <2> HIDE DEF q, p
  <2>4. With(q, p, "kick", room, q.who, {"doc", "sets"})
    BY <1>1, <2>3 DEF With, Chat!Request
  <2>5. QED
    BY <1>2, <1>5, <2>1, <2>4 DEF q, p
<1>6. CASE q.op = "add" /\ ~ Chat!End(r)
  <2>1. room # None /\ Chat!Adding(r, q)
    BY <1>6 DEF Chat!Read
  <2> DEFINE new == q.who \ Chat!UsersOf(room)
  <2>2. asked' = [asked EXCEPT ![r].pc = "join", ![r].snap = room, ![r].who = new,
                               ![r].todo = {"doc", "sets"}]
    BY <1>6, <2>1, Zenon DEF Chat!Adding
  <2> HIDE DEF new
  <2>3. p = [q EXCEPT !.pc = "join", !.snap = room, !.who = new, !.todo = {"doc", "sets"}]
    BY <1>1, <2>2
  <2> HIDE DEF q, p
  <2>4. With(q, p, "join", room, new, {"doc", "sets"})
    BY <1>1, <2>3 DEF With, Chat!Request
  <2>5. QED
    BY <1>2, <1>6, <2>1, <2>4 DEF q, p, new
<1>7. CASE q.op \in {"role", "edit", "pin", "clear"} /\ ~ Chat!End(r)
  <2>1. room # None
    BY <1>7 DEF Chat!Read
  <2>2. CASE q.op \in {"role", "edit"}
    <3>1. Chat!Go(r, q.op) /\ q.op \in Chat!Steps
      BY <1>7, <2>1, <2>2 DEF Chat!Read, Chat!Steps
    <3>2. To(q, p, q.op)
      BY <3>1, GoesTo
    <3>3. QED
      BY <1>2, <2>1, <2>2, <3>2
  <2>3. CASE q.op = "pin"
    <3>1. Chat!Go(r, "tellkept")
      BY <2>1, <2>3 DEF Chat!Read
    <3>2. QED
      BY <1>2, <2>1, <2>3, <3>1, GoesTo DEF Chat!Steps
  <2>4. CASE q.op = "clear"
    <3>1. Chat!Go(r, "tellgone")
      BY <2>1, <2>4 DEF Chat!Read
    <3>2. QED
      BY <1>2, <2>1, <2>4, <3>1, GoesTo DEF Chat!Steps
  <2>5. QED
    BY <1>7, <2>2, <2>3, <2>4
<1>8. QED
  BY <1>2, <1>3, <1>4, <1>5, <1>6, <1>7 DEF AllOps

LEMMA PullsTo ==
  ASSUME Types, ShapeInv, NEW r \in Requests, Chat!Pull(r)
  PROVE  LET q == asked[r]
             rest == Chat!Others(q.snap, q.user)
             leads == Chat!RoleIn(q.snap, q.user) = "admin" /\ Chat!AdminsOf(rest) = {} IN
         /\ q.pc = "pull" /\ q.op = "leave" /\ q.user \in Chat!UsersOf(q.snap)
         /\ q.snap \in Seq(Entry) /\ (rest = <<>> <=> Len(q.snap) = 1)
         /\ ~leads => To(q, asked'[r], "unset")
         /\ leads /\ rest = <<>> => To(q, asked'[r], "delete")
         /\ leads /\ rest # <<>> => To(q, asked'[r], "promote")
<1> DEFINE q == asked[r]
           rest == Chat!Others(q.snap, q.user)
           leads == Chat!RoleIn(q.snap, q.user) = "admin" /\ Chat!AdminsOf(rest) = {}
<1>1. q \in Chat!Request /\ Shape(q) /\ q.pc = "pull"
  BY DEF Types, ShapeInv, Chat!Pull
<1>2. q.op = "leave" /\ q.user \in Chat!UsersOf(q.snap) /\ q.snap \in Seq(Entry)
  BY <1>1 DEF Shape, Stages, Gate, Chat!Request, Entry
<1>3. Len(rest) = Len(q.snap) - 1 /\ rest \in Seq(Entry)
  BY <1>2, OthersOf
<1>4. Chat!Go(r, CASE ~leads -> "unset"
                  [] leads /\ rest = <<>> -> "delete"
                  [] leads /\ rest # <<>> -> "promote")
  BY Zenon DEF Chat!Pull
<1> HIDE DEF rest, leads
<1>5. rest = <<>> <=> Len(q.snap) = 1
  <2>1. rest = <<>> <=> Len(rest) = 0
    BY <1>3, EmptySeq
  <2>2. Len(q.snap) \in Nat
    BY <1>2
  <2> HIDE DEF q
  <2>3. QED
    BY <1>3, <2>1, <2>2
<1>6. CASE ~leads
  <2>1. Chat!Go(r, "unset")
    BY <1>4, <1>6
  <2>2. To(q, asked'[r], "unset")
    BY <2>1, GoesTo DEF Chat!Steps
  <2>3. QED
    BY <1>1, <1>2, <1>5, <1>6, <2>2 DEF rest, leads
<1>7. CASE leads /\ rest = <<>>
  <2>1. Chat!Go(r, "delete")
    BY <1>4, <1>7
  <2>2. To(q, asked'[r], "delete")
    BY <2>1, GoesTo DEF Chat!Steps
  <2>3. QED
    BY <1>1, <1>2, <1>5, <1>7, <2>2 DEF rest, leads
<1>8. CASE leads /\ rest # <<>>
  <2>1. Chat!Go(r, "promote")
    BY <1>4, <1>8
  <2>2. To(q, asked'[r], "promote")
    BY <2>1, GoesTo DEF Chat!Steps
  <2>3. QED
    BY <1>1, <1>2, <1>5, <1>8, <2>2 DEF rest, leads
<1>9. QED
  BY <1>6, <1>7, <1>8

-------------------------------------------------------------------------------
(* A group that has members has an admin *)

\* Nothing but the step of a request that deletes, and no one listed twice, tells
\* whether an admin is left: a leaver decides on its copy of the document.
LeadInv ==
  ~ unled =>
    /\ room # None => Distinct(room)
    /\ \A r \in Requests : asked[r].pc = "pull" => Distinct(asked[r].snap)
    /\ Chat!InRoom # {} /\ Chat!Admins = {} => \E r \in Requests : asked[r].pc = "promote"
    /\ \A r \in Requests : asked[r].pc = "delete" => Chat!InRoom = {}

\* The steps that leave the document alone, and where they lead.
LEMMA QuietSteps ==
  ASSUME Types, ShapeInv, NEW r \in Requests,
         \/ Chat!Exists(r) \/ Chat!Unset(r) \/ Chat!Unroom(r) \/ Chat!Enqueue(r)
         \/ Chat!Edit(r) \/ Chat!TellGone(r) \/ Chat!TellKept(r) \/ Chat!Scan(r)
         \/ Chat!Fill(r) \/ Chat!Flag(r) \/ Chat!Prime(r) \/ Chat!KickSets(r)
         \/ Chat!JoinSets(r)
  PROVE  /\ room' = room /\ unled' = unled
         /\ asked[r].pc \notin {"pull", "delete", "promote"}
         /\ asked'[r].pc \notin {"pull", "delete", "promote"}
<1> DEFINE Result == /\ room' = room /\ unled' = unled
                     /\ asked[r].pc \notin {"pull", "delete", "promote"}
                     /\ asked'[r].pc \notin {"pull", "delete", "promote"}
<1>1. \A pc \in Chat!Steps : Chat!Go(r, pc) => asked'[r].pc = pc
  BY GoesTo DEF To, With
<1>2. Chat!End(r) => asked'[r].pc = "idle"
  BY EndsIdle DEF Chat!Idle
<1>3. ASSUME Chat!Exists(r) PROVE Result
  <2>1. Chat!Go(r, "prime") \/ Chat!End(r)
    BY <1>3 DEF Chat!Exists
  <2>2. QED
    BY <1>1, <1>2, <1>3, <2>1 DEF Chat!Exists, Chat!Steps, Chat!store, Chat!Fine
<1>4. ASSUME Chat!Unset(r) PROVE Result
  BY <1>1, <1>4 DEF Chat!Unset, Chat!Steps, Chat!Fine
<1>5. ASSUME Chat!Unroom(r) PROVE Result
  BY <1>1, <1>5 DEF Chat!Unroom, Chat!Steps, Chat!Fine
<1>6. ASSUME Chat!Enqueue(r) PROVE Result
  BY <1>1, <1>6 DEF Chat!Enqueue, Chat!Steps, Chat!Fine
<1>7. ASSUME Chat!Edit(r) PROVE Result
  <2>1. CASE Chat!End(r)
    BY <1>2, <1>7, <2>1 DEF Chat!Edit, Chat!Steps, Chat!store, Chat!Fine
  <2>2. CASE asked' = [asked EXCEPT ![r].pc = "tellkept", ![r].snap = room]
    <3>1. asked[r] \in Chat!Request /\ asked'[r] = [asked[r] EXCEPT !.pc = "tellkept", !.snap = room]
      BY <2>2 DEF Types
    <3>2. asked'[r].pc = "tellkept"
      BY <3>1 DEF Chat!Request
    <3>3. QED
      BY <1>7, <3>2 DEF Chat!Edit, Chat!Steps, Chat!store, Chat!Fine
  <2>3. QED
    BY <1>7, <2>1, <2>2 DEF Chat!Edit
<1>8. ASSUME Chat!TellGone(r) PROVE Result
  <2>1. Chat!Go(r, "tellkept") \/ Chat!End(r)
    BY <1>8 DEF Chat!TellGone
  <2>2. QED
    BY <1>1, <1>2, <1>8, <2>1 DEF Chat!TellGone, Chat!Steps, Chat!store, Chat!Fine
<1>9. ASSUME Chat!TellKept(r) PROVE Result
  BY <1>2, <1>9 DEF Chat!TellKept, Chat!store, Chat!Fine
<1>10. ASSUME Chat!Scan(r) PROVE Result
  <2>1. Chat!Go(r, "fill") \/ Chat!Go(r, "flag") \/ Chat!End(r)
    BY <1>10 DEF Chat!Scan
  <2>2. QED
    BY <1>1, <1>2, <1>10, <2>1 DEF Chat!Scan, Chat!Steps, Chat!store, Chat!Fine
<1>11. ASSUME Chat!Fill(r) PROVE Result
  BY <1>1, <1>11 DEF Chat!Fill, Chat!Steps, Chat!Fine
<1>12. ASSUME Chat!Flag(r) PROVE Result
  BY <1>2, <1>12 DEF Chat!Flag, Chat!Fine
<1>13. ASSUME Chat!Prime(r) PROVE Result
  BY <1>1, <1>13 DEF Chat!Prime, Chat!Steps, Chat!Fine
<1>14. ASSUME Chat!KickSets(r) PROVE Result
  <2>1. asked'[r].pc \in {"tellgone", "kick"}
    BY <1>14, SharesTo DEF Chat!KickSets, With, Chat!Steps
  <2>2. QED
    BY <1>14, <2>1 DEF Chat!KickSets, Chat!Fine
<1>15. ASSUME Chat!JoinSets(r) PROVE Result
  <2>1. asked'[r].pc \in {"enqueue", "join"}
    BY <1>15, SharesTo DEF Chat!JoinSets, With, Chat!Steps
  <2>2. QED
    BY <1>15, <2>1 DEF Chat!JoinSets, Chat!Fine
<1>16. QED
  BY <1>3, <1>4, <1>5, <1>6, <1>7, <1>8, <1>9, <1>10, <1>11, <1>12, <1>13, <1>14, <1>15

\* A step that does not touch the document, nor decides on it.
LEMMA LeadQuiet ==
  ASSUME LeadInv, NEW r \in Requests, Becomes(r, asked'[r]), room' = room,
         unled => unled', asked[r].pc = "promote" => unled',
         asked'[r].pc \notin {"pull", "delete"}
  PROVE  LeadInv'
<1>1. Chat!InRoom' = Chat!InRoom /\ Chat!Admins' = Chat!Admins
  BY RoomAlone
<1>2. QED
  BY <1>1 DEF LeadInv, Becomes

LEMMA LeadPull ==
  ASSUME Types, Types', ShapeInv, LeadInv, NEW r \in Requests, Chat!Pull(r),
         Becomes(r, asked'[r])
  PROVE  LeadInv'
<1> DEFINE q == asked[r]
           rest == Chat!Others(q.snap, q.user)
           leads == Chat!RoleIn(q.snap, q.user) = "admin" /\ Chat!AdminsOf(rest) = {}
<1>1. /\ q.pc = "pull" /\ q.user \in Chat!UsersOf(q.snap) /\ q.snap \in Seq(Entry)
      /\ ~leads => asked'[r].pc = "unset"
      /\ leads /\ rest = <<>> => asked'[r].pc = "delete"
      /\ leads /\ rest # <<>> => asked'[r].pc = "promote"
  BY PullsTo DEF To, With
<1>2. /\ room' = IF room = None THEN None ELSE Chat!Without(room, {q.user})
      /\ unled' = (unled \/ <<Chat!UsersOf(q.snap), Chat!AdminsOf(q.snap)>> # <<Chat!InRoom, Chat!Admins>>)
  BY DEF Chat!Pull
<1>3. SUFFICES ASSUME ~ unled' PROVE LeadInv'
  BY DEF LeadInv
<1>4. /\ ~ unled /\ Chat!UsersOf(q.snap) = Chat!InRoom /\ Chat!AdminsOf(q.snap) = Chat!Admins
  BY <1>2, <1>3 DEF Types
<1>5. /\ room' = None <=> room = None
      /\ Chat!InRoom' = Chat!InRoom \ {q.user}
      /\ Chat!Admins' = Chat!Admins \ {q.user}
      /\ \A u : room # None /\ Once(room, u) => Once(room', u)
  BY <1>2, Removing DEF Types
<1>6. Distinct(q.snap) /\ (room # None => Distinct(room))
  BY <1>1, <1>4 DEF LeadInv
<1>7. q.user \in Guests
  BY <1>1 DEF ShapeInv, Shape
<1>8. /\ rest \in Seq(Entry)
      /\ Chat!UsersOf(q.snap) \ {q.user} \subseteq Chat!UsersOf(rest)
      /\ Chat!AdminsOf(rest) = Chat!AdminsOf(q.snap) \ {q.user}
      /\ Chat!RoleIn(q.snap, q.user) = "admin" <=> q.user \in Chat!AdminsOf(q.snap)
  BY <1>1, <1>6, <1>7, OthersOf DEF Distinct
<1>9. rest = <<>> => Chat!UsersOf(rest) = {}
  BY DEF Chat!UsersOf
<1> HIDE DEF q, rest
<1>10. room' # None => Distinct(room')
  BY <1>5, <1>6 DEF Distinct
<1>11. \A s \in Requests : asked'[s].pc = "pull" => Distinct(asked'[s].snap)
  <2>1. asked'[r].pc # "pull"
    BY <1>1
  <2>2. QED
    BY <1>4, <2>1 DEF LeadInv, Becomes
<1>12. Chat!InRoom' # {} /\ Chat!Admins' = {} => \E s \in Requests : asked'[s].pc = "promote"
  <2>1. SUFFICES ASSUME Chat!InRoom' # {}, Chat!Admins' = {}
                 PROVE  \E s \in Requests : asked'[s].pc = "promote"
    OBVIOUS
  <2>2. CASE leads
    <3>1. rest # <<>>
      BY <1>4, <1>5, <1>8, <1>9, <2>1
    <3>2. QED
      BY <1>1, <2>2, <3>1
  <2>3. CASE ~ leads
    <3>1. Chat!Admins = {}
      BY <1>4, <1>5, <1>8, <2>1, <2>3
    <3>2. PICK s \in Requests : asked[s].pc = "promote"
      BY <1>4, <1>5, <2>1, <3>1 DEF LeadInv
    <3>3. asked'[s].pc = "promote"
      BY <1>1, <3>2 DEF Becomes, q
    <3>4. QED
      BY <3>3
  <2>4. QED
    BY <2>2, <2>3
<1>13. \A s \in Requests : asked'[s].pc = "delete" => Chat!InRoom' = {}
  <2>1. SUFFICES ASSUME NEW s \in Requests, asked'[s].pc = "delete" PROVE Chat!InRoom' = {}
    OBVIOUS
  <2>2. CASE s = r
    <3>1. rest = <<>>
      BY <1>1, <2>1, <2>2
    <3>2. QED
      BY <1>4, <1>5, <1>8, <1>9, <3>1
  <2>3. CASE s # r
    BY <1>4, <1>5, <2>1, <2>3 DEF LeadInv, Becomes
  <2>4. QED
    BY <2>2, <2>3
<1>14. QED
  BY <1>10, <1>11, <1>12, <1>13 DEF LeadInv

\* A step that changes the document, but neither takes a copy nor decides to delete.
LEMMA LeadPromote ==
  ASSUME Types, ShapeInv, LeadInv, NEW r \in Requests, Chat!Promote(r), Becomes(r, asked'[r])
  PROVE  LeadInv'
<1> DEFINE next == Head(Chat!Others(asked[r].snap, asked[r].user)).user
<1>1. /\ room' = None <=> room = None
      /\ Chat!InRoom' = Chat!InRoom
      /\ next \in Chat!InRoom => next \in Chat!Admins'
      /\ \A u : room # None /\ Once(room, u) => Once(room', u)
  BY Promoting DEF Types
<1>2. asked'[r].pc = "unset"
  BY GoesTo DEF Chat!Promote, To, With, Chat!Steps
<1>3. unled' = (unled \/ next \notin Chat!InRoom)
  BY DEF Chat!Promote
<1> HIDE DEF next
<1>4. SUFFICES ASSUME ~ unled' PROVE LeadInv'
  BY DEF LeadInv
<1>5. ~ unled /\ Chat!Admins' # {}
  BY <1>1, <1>3, <1>4 DEF Types
<1>6. room' # None => Distinct(room')
  BY <1>1, <1>5 DEF Distinct, LeadInv
<1>7. QED
  BY <1>1, <1>2, <1>5, <1>6 DEF LeadInv, Becomes

LEMMA LeadDelete ==
  ASSUME Types, ShapeInv, LeadInv, NEW r \in Requests, Chat!Delete(r), Becomes(r, asked'[r])
  PROVE  LeadInv'
<1>1. room' = None /\ unled' = unled
  BY DEF Chat!Delete, Chat!Fine
<1>2. asked'[r].pc = "unset"
  BY GoesTo DEF Chat!Delete, To, With, Chat!Steps
<1>3. Chat!InRoom' = {}
  BY <1>1 DEF Chat!InRoom
<1>4. QED
  BY <1>1, <1>2, <1>3 DEF LeadInv, Becomes

LEMMA LeadKick ==
  ASSUME Types, ShapeInv, LeadInv, NEW r \in Requests, Chat!KickDoc(r), Becomes(r, asked'[r])
  PROVE  LeadInv'
<1> DEFINE q == asked[r]
<1>1. /\ q.pc = "kick" /\ asked'[r].pc \in {"kick", "tellgone"}
      /\ room' = IF room = None THEN None ELSE Chat!Without(room, q.who)
      /\ unled' = (unled \/ q.user \notin Chat!Admins)
  BY SharesTo DEF Chat!KickDoc, With, Chat!Steps
<1>2. q.op = "kick" /\ q.user \notin q.who
  <2>1. q.pc \in Stages(q.op) /\ Shape(q)
    BY <1>1 DEF ShapeInv, Shape
  <2>2. q.op = "kick"
    BY <1>1, <2>1 DEF Stages, Gate
  <2>3. QED
    BY <2>1, <2>2 DEF Shape
<1>3. /\ room' = None <=> room = None
      /\ Chat!InRoom' = Chat!InRoom \ q.who
      /\ Chat!Admins' = Chat!Admins \ q.who
      /\ \A u : room # None /\ Once(room, u) => Once(room', u)
  BY <1>1, Removing DEF Types
<1> HIDE DEF q
<1>4. SUFFICES ASSUME ~ unled' PROVE LeadInv'
  BY DEF LeadInv
<1>5. ~ unled /\ Chat!Admins' # {}
  BY <1>1, <1>2, <1>3, <1>4 DEF Types
<1>6. room' # None => Distinct(room')
  BY <1>3, <1>5 DEF Distinct, LeadInv
<1>7. QED
  BY <1>1, <1>3, <1>5, <1>6 DEF LeadInv, Becomes, q

LEMMA LeadCreate ==
  ASSUME Types, ShapeInv, Fresh, LeadInv, NEW r \in Requests, Chat!Create(r), Becomes(r, asked'[r])
  PROVE  LeadInv'
<1> DEFINE q == asked[r]
<1>1. q.pc = "create" /\ unled' = unled
  BY DEF Chat!Create, Chat!Fine
<1>2. asked'[r].pc = "join"
  <2>1. asked[r] \in Chat!Request /\ asked'[r] = [asked[r] EXCEPT !.pc = "join", !.todo = {"sets"}]
    BY DEF Types, Chat!Create
  <2>2. QED
    BY <2>1 DEF Chat!Request
<1>3. q.op = "create" /\ q.user \in Guests \ q.who
  <2>1. q.pc \in Stages(q.op) /\ q.user \in Guests /\ Shape(q)
    BY <1>1 DEF ShapeInv, Shape
  <2>2. q.op = "create"
    BY <1>1, <2>1 DEF Stages, Gate
  <2>3. QED
    BY <2>1, <2>2 DEF Shape
<1>4. room' # None /\ Chat!Admins' # {} /\ Distinct(room')
  BY <1>3, Founding
<1>5. \A s \in Requests \ {r} : asked[s].pc = "idle"
  BY <1>1 DEF Fresh, Types
<1>6. \A s \in Requests : asked'[s].pc \in {"idle", "join"}
  BY <1>2, <1>5 DEF Becomes
<1>7. QED
  BY <1>4, <1>6 DEF LeadInv

LEMMA LeadJoin ==
  ASSUME Types, ShapeInv, LeadInv, NEW r \in Requests, Chat!JoinDoc(r), Becomes(r, asked'[r])
  PROVE  LeadInv'
<1> DEFINE q == asked[r]
<1>1. /\ q.pc = "join" /\ asked'[r].pc \in {"join", "enqueue"}
      /\ unled' = (unled \/ q.user \notin Chat!InRoom \/ q.who \intersect Chat!InRoom # {})
  BY SharesTo DEF Chat!JoinDoc, With, Chat!Steps
<1>2. /\ room' = None <=> room = None
      /\ room # None => /\ Chat!InRoom' = Chat!InRoom \union q.who
                        /\ \A u : Once(room, u) /\ ~ (u \in Chat!InRoom /\ u \in q.who) => Once(room', u)
      /\ Chat!Admins' = Chat!Admins
  BY Adding
<1> HIDE DEF q
<1>3. SUFFICES ASSUME ~ unled' PROVE LeadInv'
  BY DEF LeadInv
<1>4. ~ unled /\ q.user \in Chat!InRoom /\ q.who \intersect Chat!InRoom = {}
  BY <1>1, <1>3 DEF Types
<1>5. room # None /\ room' # None /\ Chat!InRoom # {}
  BY <1>2, <1>4 DEF Chat!InRoom
<1>6. Distinct(room')
  BY <1>2, <1>4, <1>5 DEF Distinct, LeadInv
<1>7. Chat!InRoom' # {} /\ Chat!Admins' = {} => \E s \in Requests : asked'[s].pc = "promote"
  BY <1>1, <1>2, <1>4, <1>5 DEF LeadInv, Becomes, q
<1>8. \A s \in Requests : asked'[s].pc # "delete"
  BY <1>1, <1>4, <1>5 DEF LeadInv, Becomes
<1>9. \A s \in Requests : asked'[s].pc = "pull" => Distinct(asked'[s].snap)
  BY <1>1, <1>4 DEF LeadInv, Becomes
<1>10. QED
  BY <1>6, <1>7, <1>8, <1>9 DEF LeadInv

LEMMA LeadRole ==
  ASSUME Types, ShapeInv, LeadInv, NEW r \in Requests, Chat!ChangeRole(r), Becomes(r, asked'[r])
  PROVE  LeadInv'
<1>1. /\ asked[r].pc = "role"
      /\ unled' = (unled \/ (Chat!Admins # {} /\ Chat!Admins' = {}))
  BY DEF Chat!ChangeRole
<1>2. asked[r].role \in Chat!Roles
  <2>1. asked[r].pc \in Stages(asked[r].op) /\ Shape(asked[r])
    BY <1>1 DEF ShapeInv, Shape
  <2>2. asked[r].op = "role"
    BY <1>1, <2>1 DEF Stages, Gate
  <2>3. QED
    BY <2>1, <2>2 DEF Shape
<1>3. /\ room' = None <=> room = None
      /\ Chat!InRoom' = Chat!InRoom
      /\ \A u : room # None /\ Once(room, u) => Once(room', u)
  BY <1>2, Regrading
<1>4. asked'[r].pc \in {"idle", "tellkept"}
  <2>1. CASE room = None
    BY <2>1, EndsIdle DEF Chat!ChangeRole, Chat!Idle
  <2>2. CASE room # None
    <3>1. asked[r] \in Chat!Request /\ asked'[r] = [asked[r] EXCEPT !.pc = "tellkept", !.snap = room']
      BY <2>2 DEF Types, Chat!ChangeRole
    <3>2. QED
      BY <3>1 DEF Chat!Request
  <2>3. QED
    BY <2>1, <2>2
<1>5. SUFFICES ASSUME ~ unled' PROVE LeadInv'
  BY DEF LeadInv
<1>6. ~ unled /\ (Chat!Admins' = {} => Chat!Admins = {})
  BY <1>1, <1>5 DEF Types
<1>7. room' # None => Distinct(room')
  BY <1>3, <1>6 DEF Distinct, LeadInv
<1>8. Chat!InRoom' # {} /\ Chat!Admins' = {} => \E s \in Requests : asked'[s].pc = "promote"
  BY <1>1, <1>3, <1>6 DEF LeadInv, Becomes
<1>9. QED
  BY <1>3, <1>4, <1>6, <1>7, <1>8 DEF LeadInv, Becomes

LEMMA LeadRead ==
  ASSUME Types, ShapeInv, LeadInv, NEW r \in Requests, Chat!Read(r), Becomes(r, asked'[r])
  PROVE  LeadInv'
<1>1. /\ asked[r].pc = "read" /\ room' = room /\ unled' = unled
      /\ asked'[r].pc # "delete"
      /\ asked'[r].pc = "pull" => room # None /\ asked'[r].snap = room
  <2>1. room' = room /\ unled' = unled
    BY DEF Chat!Read, Chat!store
  <2>2. QED
    BY <2>1, ReadsTo DEF To, With, Chat!Idle
<1>2. Chat!InRoom' = Chat!InRoom /\ Chat!Admins' = Chat!Admins
  BY <1>1, RoomAlone
<1>3. QED
  BY <1>1, <1>2 DEF LeadInv, Becomes

\* Who leads the room is kept.
LEMMA LeadKept ==
  ASSUME Types, Types', ShapeInv, Fresh, LeadInv, Chat!Next
  PROVE  LeadInv'
<1>1. unled => unled'
  BY Recorded
<1>2. ASSUME NEW r \in Requests, Chat!Step(r) PROVE LeadInv'
  <2>1. Becomes(r, asked'[r])
    BY <1>2, StepShapes
  <2>2. CASE \/ Chat!Exists(r) \/ Chat!Unset(r) \/ Chat!Unroom(r) \/ Chat!Enqueue(r)
             \/ Chat!Edit(r) \/ Chat!TellGone(r) \/ Chat!TellKept(r) \/ Chat!Scan(r)
             \/ Chat!Fill(r) \/ Chat!Flag(r) \/ Chat!Prime(r) \/ Chat!KickSets(r)
             \/ Chat!JoinSets(r)
    <3>1. /\ room' = room /\ asked[r].pc # "promote" /\ asked'[r].pc \notin {"pull", "delete"}
      BY <2>2, QuietSteps
    <3>2. QED
      BY <1>1, <2>1, <3>1, LeadQuiet
  <2>3. QED
    BY <1>2, <2>1, <2>2, LeadPull, LeadPromote, LeadDelete, LeadKick, LeadCreate, LeadJoin,
       LeadRole, LeadRead DEF Chat!Step
<1>3. ASSUME NEW r \in Requests, Chat!Abort(r) PROVE LeadInv'
  <2>1. Becomes(r, asked'[r]) /\ asked'[r] = Chat!Idle /\ room' = room
    BY <1>3, OtherTypes DEF Becomes, Chat!store
  <2>2. asked[r].pc = "promote" => unled'
    BY <1>3 DEF Chat!Abort
  <2>3. asked'[r].pc = "idle"
    BY <2>1 DEF Chat!Idle
  <2>4. QED
    BY <1>1, <2>1, <2>2, <2>3, LeadQuiet
<1>4. ASSUME UNCHANGED <<room, asked>> PROVE LeadInv'
  BY <1>1, <1>4, RoomAlone DEF LeadInv
<1>5. ASSUME NEW i \in DOMAIN queued, Chat!RunJob(i) PROVE LeadInv'
  BY <1>4, <1>5, OtherTypes
<1>6. ASSUME Chat!Flush PROVE LeadInv'
  BY <1>4, <1>6, OtherTypes
<1>7. ASSUME NEW r \in Requests, Becomes(r, asked'[r]), room' = room, asked[r] = Chat!Idle,
             asked'[r].pc \in {"create", "scan", "read", "exists"}
      PROVE  LeadInv'
  <2>1. asked[r].pc = "idle"
    BY <1>7 DEF Chat!Idle
  <2>2. QED
    BY <1>1, <1>7, <2>1, LeadQuiet
<1>8. ASSUME NEW r \in Requests, NEW u \in Guests, Chat!CallCreate(r, u) PROVE LeadInv'
  BY <1>7, <1>8, Starting DEF Chat!store
<1>9. ASSUME NEW r \in Requests, NEW u \in Guests, Chat!Connect(r, u) PROVE LeadInv'
  BY <1>7, <1>9, Connecting DEF Chat!store
<1>10. ASSUME NEW r \in Requests, NEW u \in Guests, NEW op \in AllOps, Chat!Call(r, u, op) PROVE LeadInv'
  BY <1>7, <1>10, Calling DEF Chat!store
<1>11. QED
  BY <1>2, <1>3, <1>5, <1>6, <1>8, <1>9, <1>10 DEF Chat!Next

-------------------------------------------------------------------------------
(* The Redis sets follow the document *)

\* Two requests write a user's entries, or one moves a user another tells of the
\* room, only if the history says so.
Apart ==
  /\ \A r, s \in Requests : r # s =>
       Chat!Holds(asked[r]) \intersect Chat!Holds(asked[s]) \subseteq mixed
  /\ \A r \in Requests : Chat!Holds(asked[r]) \intersect Chat!Queued \subseteq mixed
  /\ \A r, s \in Requests : r # s =>
       Chat!Holds(asked[r]) \intersect Chat!Tells(asked[s]) \subseteq feedMixed

LEMMA ApartKept ==
  ASSUME Types, ShapeInv, Chat!Next
  PROVE  Apart' /\ mixed \subseteq mixed' /\ feedMixed \subseteq feedMixed'
<1>1. PICK h \in SUBSET Guests, m \in SUBSET Guests : Chat!Record(h, m)
  BY Recorded
<1>2. /\ mixed' = mixed \union h \union Chat!Contested'
      /\ feedMixed' = feedMixed \union m \union Chat!FeedContested'
  BY <1>1 DEF Chat!Record
<1>3. ASSUME NEW r \in Requests, NEW s \in Requests, r # s
      PROVE  /\ Chat!Holds(asked'[r]) \intersect Chat!Holds(asked'[s]) \subseteq mixed'
             /\ Chat!Holds(asked'[r]) \intersect Chat!Tells(asked'[s]) \subseteq feedMixed'
  <2>1. Chat!Holds(asked'[r]) \intersect Chat!Holds(asked'[s]) \subseteq Chat!Contested'
    BY <1>3 DEF Chat!Contested
  <2>2. Chat!Holds(asked'[r]) \intersect Chat!Tells(asked'[s]) \subseteq Chat!FeedContested'
    BY <1>3 DEF Chat!FeedContested
  <2>3. QED
    BY <1>2, <2>1, <2>2
<1>4. ASSUME NEW r \in Requests
      PROVE  Chat!Holds(asked'[r]) \intersect Chat!Queued' \subseteq mixed'
  <2>1. Chat!Holds(asked'[r]) \intersect Chat!Queued' \subseteq Chat!Contested'
    BY DEF Chat!Contested
  <2>2. QED
    BY <1>2, <2>1
<1>5. QED
  BY <1>2, <1>3, <1>4 DEF Apart

\* Who is a member by the sets is one by the document; a member whose rooms count
\* as loaded has the room among them.
Follows(u) == u \in members => u \in Chat!InRoom
Loaded(u) == u \in Chat!InRoom /\ u \in synced => u \in rooms

\* What is true of a user whose entries the request q has decided to write.
Keeps(q, u) ==
  /\ q.pc \in {"prime", "fill"} => u \in Chat!InRoom
  /\ q.pc = "flag" => (u \in members => u \in Chat!InRoom) /\ (u \in Chat!InRoom => u \in rooms)
  /\ q.pc \in {"pull", "delete"} /\ u # q.user => u \notin Chat!InRoom /\ u \notin members
  /\ q.pc \in {"promote", "delete", "unset", "unroom"} /\ u = q.user => u \notin Chat!InRoom
  /\ q.pc = "unroom" => u \notin members
  /\ q.pc = "kick" =>
       /\ "doc" \notin q.todo => u \notin Chat!InRoom
       /\ "sets" \notin q.todo \/ u \notin Chat!UsersOf(q.snap) => u \notin members
  /\ q.pc = "join" => room # None
  /\ q.pc = "enqueue" \/ (q.pc = "join" /\ "doc" \notin q.todo) => u \in Chat!InRoom
  /\ q.op = "create" /\ u = q.user
       /\ (q.pc = "enqueue" \/ (q.pc = "join" /\ "sets" \notin q.todo)) => u \in rooms

\* The entries of u, as far as the request r has them in hand.
Kempt(r, u) ==
  IF u \in Chat!Holds(asked[r]) THEN Keeps(asked[r], u)
  ELSE u \in Chat!Queued \/ (Follows(u) /\ Loaded(u))

SetInv ==
  \A u \in Guests \ mixed :
    /\ u \notin Chat!Held => Follows(u) /\ Loaded(u)
    /\ u \in Chat!Queued => u \in Chat!InRoom
    /\ \A r \in Requests : u \in Chat!Holds(asked[r]) => Keeps(asked[r], u)

\* A step leaves the entries of u, and whether u is a member, as they are.
Same(u) ==
  /\ u \in Chat!InRoom' <=> u \in Chat!InRoom
  /\ u \in members' <=> u \in members
  /\ u \in rooms' <=> u \in rooms
  /\ u \in synced' <=> u \in synced
  /\ u \in Chat!Queued' <=> u \in Chat!Queued
  /\ room' = None <=> room = None

\* The request r writes only the entries it holds, and leaves them in order; u is
\* not one the queue has yet to write.
Serves(r, u) ==
  /\ u \notin Chat!Holds(asked[r]) => Same(u)
  /\ Kempt(r, u) /\ u \notin Chat!Queued =>
       /\ Kempt(r, u)'
       /\ u \in Chat!Queued' => u \in Chat!InRoom'

LEMMA ServesIdly ==
  ASSUME NEW r \in Requests, NEW u \in Guests, Same(u),
         u \notin Chat!Holds(asked[r]), u \notin Chat!Holds(asked'[r])
  PROVE  Serves(r, u)
BY DEF Same, Serves, Kempt, Follows, Loaded

\* A membership-sync job comes, or goes.
LEMMA QueueGrows ==
  ASSUME StoreTypes, NEW w \in SUBSET Guests, queued' = Append(queued, w)
  PROVE  Chat!Queued' = Chat!Queued \union w
<1>1. /\ DOMAIN queued' = DOMAIN queued \union {Len(queued) + 1}
      /\ queued'[Len(queued) + 1] = w /\ \A i \in DOMAIN queued : queued'[i] = queued[i]
  BY AppendProperties DEF StoreTypes
<1>2. QED
  BY <1>1 DEF Chat!Queued

LEMMA QueueShrinks ==
  ASSUME StoreTypes, NEW n \in DOMAIN queued, queued' = Chat!RemoveAt(queued, n)
  PROVE  /\ Chat!Queued' \subseteq Chat!Queued
         /\ Chat!Queued \subseteq Chat!Queued' \union queued[n]
<1> DEFINE o == Chat!RemoveAt(queued, n)
<1>1. queued \in Seq(SUBSET Guests)
  BY DEF StoreTypes
<1>2. /\ o \in Seq(SUBSET Guests) /\ Len(o) = Len(queued) - 1
      /\ \A i \in DOMAIN o : \E j \in DOMAIN queued \ {n} : o[i] = queued[j]
      /\ \A j \in DOMAIN queued \ {n} : \E i \in DOMAIN o : o[i] = queued[j]
  BY <1>1, TakenOut
<1>3. queued' = o
  OBVIOUS
<1> HIDE DEF o
<1>4. QED
  BY <1>2, <1>3 DEF Chat!Queued

\* The steps of a request that change nothing but a user's entries, or nothing.
LEMMA ServesUser ==
  ASSUME Types, ShapeInv, NEW r \in Requests, NEW u \in Guests,
         \/ Chat!Exists(r) \/ Chat!Prime(r) \/ Chat!Scan(r) \/ Chat!Fill(r) \/ Chat!Flag(r)
         \/ Chat!Unset(r) \/ Chat!Unroom(r)
  PROVE  Serves(r, u)
<1> DEFINE q == asked[r]
           p == asked'[r]
<1>1. \A pc \in Chat!Steps : Chat!Go(r, pc) => To(q, p, pc)
  BY GoesTo
<1>2. Chat!End(r) => p = Chat!Idle
  BY EndsIdle
<1>3. ASSUME room' = room, queued' = queued
      PROVE  /\ Chat!InRoom' = Chat!InRoom /\ Chat!Queued' = Chat!Queued
  BY <1>3 DEF Chat!InRoom, Chat!Queued
<1>4. CASE Chat!Exists(r)
  <2>1. /\ q.pc = "exists" /\ UNCHANGED <<room, members, rooms, synced, queued>>
        /\ \/ To(q, p, "prime") /\ q.user \in Chat!InRoom
           \/ p = Chat!Idle
    <3>1. (Chat!Go(r, "prime") /\ q.user \in Chat!InRoom) \/ Chat!End(r)
      BY <1>4 DEF Chat!Exists
    <3>2. QED
      BY <1>1, <1>2, <1>4, <3>1 DEF Chat!Exists, Chat!store, Chat!Steps
  <2> HIDE DEF q, p
  <2>2. Same(u)
    BY <1>3, <2>1 DEF Same
  <2>3. u \notin Chat!Holds(q)
    BY <2>1 DEF Chat!Holds
  <2>4. u \in Chat!Holds(p) => Keeps(asked[r], u)'
    BY <1>3, <2>1 DEF Chat!Holds, Keeps, To, With, Chat!Idle, p, q
  <2>5. QED
    BY <2>2, <2>3, <2>4 DEF Same, Serves, Kempt, Follows, Loaded, q, p
<1>5. CASE Chat!Scan(r)
  <2>1. /\ q.pc = "scan" /\ UNCHANGED <<room, members, rooms, synced, queued>>
        /\ \/ To(q, p, "fill") /\ q.user \in Chat!InRoom
           \/ To(q, p, "flag") /\ q.user \notin Chat!InRoom
           \/ p = Chat!Idle
    <3>1. \/ Chat!Go(r, "fill") /\ q.user \in Chat!InRoom
          \/ Chat!Go(r, "flag") /\ q.user \notin Chat!InRoom
          \/ Chat!End(r)
      BY <1>5 DEF Chat!Scan
    <3>2. QED
      BY <1>1, <1>2, <1>5, <3>1 DEF Chat!Scan, Chat!store, Chat!Steps
  <2> HIDE DEF q, p
  <2>2. Same(u)
    BY <1>3, <2>1 DEF Same
  <2>3. u \notin Chat!Holds(q)
    BY <2>1 DEF Chat!Holds
  <2>4. Follows(u) /\ u \in Chat!Holds(p) => Keeps(asked[r], u)'
    BY <1>3, <2>1 DEF Chat!Holds, Keeps, To, With, Chat!Idle, Follows, p, q
  <2>5. QED
    BY <2>2, <2>3, <2>4 DEF Same, Serves, Kempt, Follows, Loaded, q, p
<1>6. CASE Chat!Prime(r)
  <2>1. /\ q.pc = "prime" /\ UNCHANGED <<room, synced, queued>> /\ To(q, p, "read")
        /\ members' = members \union {q.user} /\ rooms' = rooms \union {q.user}
    BY <1>1, <1>6 DEF Chat!Prime, Chat!Steps
  <2> HIDE DEF q, p
  <2>2. Chat!Holds(q) = {q.user} /\ Chat!Holds(p) = {}
    BY <2>1 DEF Chat!Holds, To, With
  <2>3. QED
    BY <1>3, <2>1, <2>2 DEF Same, Serves, Kempt, Keeps, Follows, Loaded, q, p
<1>7. CASE Chat!Fill(r)
  <2>1. /\ q.pc = "fill" /\ UNCHANGED <<room, members, synced, queued>> /\ To(q, p, "flag")
        /\ rooms' = rooms \union {q.user}
    BY <1>1, <1>7 DEF Chat!Fill, Chat!Steps
  <2> HIDE DEF q, p
  <2>2. Chat!Holds(q) = {q.user} /\ Chat!Holds(p) = {q.user} /\ p.pc = "flag"
    BY <2>1 DEF Chat!Holds, To, With
  <2>3. QED
    BY <1>3, <2>1, <2>2 DEF Same, Serves, Kempt, Keeps, Follows, Loaded, q, p
<1>8. CASE Chat!Flag(r)
  <2>1. /\ q.pc = "flag" /\ UNCHANGED <<room, members, rooms, queued>> /\ p = Chat!Idle
        /\ synced' = synced \union {q.user}
    BY <1>2, <1>8 DEF Chat!Flag
  <2> HIDE DEF q, p
  <2>2. Chat!Holds(q) = {q.user} /\ Chat!Holds(p) = {}
    BY <2>1 DEF Chat!Holds, Chat!Idle
  <2>3. QED
    BY <1>3, <2>1, <2>2 DEF Same, Serves, Kempt, Keeps, Follows, Loaded, q, p
<1>9. CASE Chat!Unset(r)
  <2>1. /\ q.pc = "unset" /\ UNCHANGED <<room, rooms, synced, queued>> /\ To(q, p, "unroom")
        /\ members' = members \ {q.user}
    BY <1>1, <1>9 DEF Chat!Unset, Chat!Steps
  <2> HIDE DEF q, p
  <2>2. Chat!Holds(q) = {q.user} /\ Chat!Holds(p) = {q.user} /\ p.pc = "unroom"
    BY <2>1 DEF Chat!Holds, To, With
  <2>3. QED
    BY <1>3, <2>1, <2>2 DEF Same, Serves, Kempt, Keeps, Follows, Loaded, q, p
<1>10. CASE Chat!Unroom(r)
  <2>1. /\ q.pc = "unroom" /\ UNCHANGED <<room, members, synced, queued>> /\ To(q, p, "tellgone")
        /\ rooms' = rooms \ {q.user}
    BY <1>1, <1>10 DEF Chat!Unroom, Chat!Steps
  <2> HIDE DEF q, p
  <2>2. Chat!Holds(q) = {q.user} /\ Chat!Holds(p) = {}
    BY <2>1 DEF Chat!Holds, To, With
  <2>3. QED
    BY <1>3, <2>1, <2>2 DEF Same, Serves, Kempt, Keeps, Follows, Loaded, q, p
<1>11. QED
  BY <1>4, <1>5, <1>6, <1>7, <1>8, <1>9, <1>10

\* The steps that write no user's entries, and decide on none.
LEMMA ServesNobody ==
  ASSUME Types, ShapeInv, NEW r \in Requests, NEW u \in Guests,
         Chat!ChangeRole(r) \/ Chat!Edit(r) \/ Chat!TellGone(r) \/ Chat!TellKept(r)
  PROVE  Serves(r, u)
<1> DEFINE q == asked[r]
           p == asked'[r]
<1>1. q \in Chat!Request /\ asked \in [Requests -> Chat!Request]
  BY DEF Types
<1>2. Chat!End(r) => p.pc = "idle"
  BY EndsIdle DEF Chat!Idle
<1>3. Chat!Go(r, "tellkept") => p.pc = "tellkept"
  BY GoesTo DEF To, With, Chat!Steps
<1>4. asked' = [asked EXCEPT ![r].pc = "tellkept", ![r].snap = room] => p.pc = "tellkept"
  <2>1. SUFFICES ASSUME p = [q EXCEPT !.pc = "tellkept", !.snap = room] PROVE p.pc = "tellkept"
    BY <1>1
  <2> HIDE DEF q, p
  <2>2. QED
    BY <1>1, <2>1 DEF Chat!Request
<1>5. asked' = [asked EXCEPT ![r].pc = "tellkept", ![r].snap = room'] => p.pc = "tellkept"
  <2>1. SUFFICES ASSUME p = [q EXCEPT !.pc = "tellkept", !.snap = room'] PROVE p.pc = "tellkept"
    BY <1>1
  <2> HIDE DEF q, p
  <2>2. QED
    BY <1>1, <2>1 DEF Chat!Request
<1> HIDE DEF p
<1>6. q.pc \in {"role", "edit", "tellgone", "tellkept"} /\ p.pc \in {"idle", "tellkept"}
  <2>1. CASE Chat!ChangeRole(r)
    BY <1>2, <1>5, <2>1 DEF Chat!ChangeRole
  <2>2. CASE Chat!Edit(r)
    BY <1>2, <1>4, <2>2 DEF Chat!Edit
  <2>3. CASE Chat!TellGone(r)
    BY <1>2, <1>3, <2>3 DEF Chat!TellGone
  <2>4. CASE Chat!TellKept(r)
    BY <1>2, <2>4 DEF Chat!TellKept
  <2>5. QED
    BY <2>1, <2>2, <2>3, <2>4
<1>7. u \notin Chat!Holds(q) /\ u \notin Chat!Holds(p)
  BY <1>6 DEF Chat!Holds
<1>8. Chat!InRoom' = Chat!InRoom /\ (room' = None <=> room = None)
  <2>1. CASE Chat!ChangeRole(r)
    <3>1. q.role \in Chat!Roles
      <4>1. q.pc = "role" /\ q.pc \in Stages(q.op) /\ Shape(q)
        BY <2>1 DEF ShapeInv, Shape, Chat!ChangeRole
      <4>2. q.op = "role"
        BY <4>1 DEF Stages, Gate
      <4>3. QED
        BY <4>1, <4>2 DEF Shape
    <3>2. QED
      BY <2>1, <3>1, Regrading
  <2>2. CASE Chat!Edit(r) \/ Chat!TellGone(r) \/ Chat!TellKept(r)
    <3>1. room' = room
      BY <2>2 DEF Chat!Edit, Chat!TellGone, Chat!TellKept, Chat!store
    <3>2. QED
      BY <3>1, RoomAlone
  <2>3. QED
    BY <2>1, <2>2
<1>9. UNCHANGED <<members, rooms, synced, queued>>
  BY DEF Chat!ChangeRole, Chat!Edit, Chat!TellGone, Chat!TellKept, Chat!store
<1>10. Same(u)
  BY <1>8, <1>9 DEF Same, Chat!Queued
<1>11. QED
  BY <1>7, <1>10, ServesIdly DEF p

LEMMA ServesPull ==
  ASSUME Types, ShapeInv, NEW r \in Requests, NEW u \in Guests, Chat!Pull(r)
  PROVE  Serves(r, u)
<1> DEFINE q == asked[r]
           p == asked'[r]
<1>1. /\ q.pc = "pull" /\ q.op = "leave"
      /\ p.pc \in {"unset", "delete", "promote"} /\ p.user = q.user /\ p.op = q.op /\ p.snap = q.snap
  <2>1. To(q, p, "unset") \/ To(q, p, "delete") \/ To(q, p, "promote")
    BY PullsTo, Zenon
  <2>2. q.pc = "pull" /\ q.op = "leave"
    BY PullsTo
  <2> HIDE DEF q, p
  <2>3. QED
    BY <2>1, <2>2 DEF To, With
<1>2. UNCHANGED <<members, rooms, synced, queued>>
  BY DEF Chat!Pull
<1>3. Chat!Queued' = Chat!Queued
  BY <1>2 DEF Chat!Queued
<1>4. Chat!InRoom' = Chat!InRoom \ {q.user} /\ (room' = None <=> room = None)
  <2>1. room' = IF room = None THEN None ELSE Chat!Without(room, {q.user})
    BY DEF Chat!Pull
  <2>2. QED
    BY <2>1, Removing DEF Types
<1> HIDE DEF q, p
<1>5. Chat!Holds(q) \in {{q.user}, Guests} /\ q.user \in Guests
  <2>1. q.user \in Guests
    BY <1>1 DEF q, ShapeInv, Shape
  <2>2. QED
    BY <1>1, <2>1 DEF Chat!Holds
<1>6. Chat!Holds(p) \in {{q.user}, Guests} /\ (u \in Chat!Holds(p) => u \in Chat!Holds(q))
  BY <1>1, <1>5 DEF Chat!Holds, Chat!LastOne
<1>7. u \notin Chat!Holds(q) => Same(u)
  BY <1>2, <1>3, <1>4, <1>5 DEF Same
<1>8. ASSUME u \in Chat!Holds(q), Keeps(q, u)
      PROVE  /\ u \notin Chat!InRoom' /\ (u # q.user => u \notin members')
  BY <1>1, <1>2, <1>4, <1>8 DEF Keeps
<1>9. ASSUME u \in Chat!Holds(q), Keeps(q, u), u \in Chat!Holds(p) PROVE Keeps(asked[r], u)'
  BY <1>1, <1>8, <1>9 DEF Keeps, p
<1>10. ASSUME u \in Chat!Holds(q), Keeps(q, u), u \notin Chat!Holds(p) PROVE Follows(u)' /\ Loaded(u)'
  BY <1>6, <1>8, <1>10 DEF Follows, Loaded
<1>11. ASSUME Kempt(r, u), u \notin Chat!Queued
       PROVE  Kempt(r, u)'
  <2>1. CASE u \in Chat!Holds(q)
    <3>1. Keeps(q, u)
      BY <1>11, <2>1 DEF Kempt, q
    <3>2. QED
      BY <1>9, <1>10, <2>1, <3>1 DEF Kempt, p
  <2>2. CASE u \notin Chat!Holds(q)
    <3>1. Follows(u) /\ Loaded(u)
      BY <1>11, <2>2 DEF Kempt, q
    <3>2. u \notin Chat!Holds(p) /\ Follows(u)' /\ Loaded(u)'
      BY <1>6, <1>7, <2>2, <3>1 DEF Same, Follows, Loaded
    <3>3. QED
      BY <3>2 DEF Kempt, p
  <2>3. QED
    BY <2>1, <2>2
<1>12. QED
  BY <1>3, <1>7, <1>11 DEF Serves, q

LEMMA ServesPromote ==
  ASSUME Types, ShapeInv, NEW r \in Requests, NEW u \in Guests, Chat!Promote(r)
  PROVE  Serves(r, u)
<1> DEFINE q == asked[r]
           p == asked'[r]
<1>1. q.pc = "promote" /\ To(q, p, "unset") /\ UNCHANGED <<members, rooms, synced, queued>>
  BY GoesTo DEF Chat!Promote, Chat!Steps
<1>2. Chat!InRoom' = Chat!InRoom /\ (room' = None <=> room = None)
  BY Promoting DEF Types
<1>3. Chat!Queued' = Chat!Queued
  BY <1>1 DEF Chat!Queued
<1> HIDE DEF q, p
<1>4. Chat!Holds(q) = {q.user} /\ Chat!Holds(p) = {q.user} /\ p.pc = "unset" /\ p.user = q.user
  BY <1>1 DEF Chat!Holds, To, With
<1>5. QED
  BY <1>1, <1>2, <1>3, <1>4 DEF Same, Serves, Kempt, Keeps, Follows, Loaded, q, p

LEMMA ServesDelete ==
  ASSUME Types, ShapeInv, NEW r \in Requests, NEW u \in Guests, Chat!Delete(r)
  PROVE  Serves(r, u)
<1> DEFINE q == asked[r]
           p == asked'[r]
<1>1. q.pc = "delete" /\ To(q, p, "unset") /\ UNCHANGED <<members, rooms, synced, queued>>
  BY GoesTo DEF Chat!Delete, Chat!Steps
<1>2. room' = None /\ Chat!InRoom' = {}
  BY DEF Chat!Delete, Chat!InRoom
<1>3. Chat!Queued' = Chat!Queued
  BY <1>1 DEF Chat!Queued
<1>4. Chat!LastOne(q)
  <2>1. q.pc \in Stages(q.op) /\ Shape(q)
    BY <1>1 DEF ShapeInv, Shape
  <2> HIDE DEF q
  <2>2. q.op = "leave"
    BY <1>1, <2>1 DEF Stages, Gate
  <2>3. QED
    BY <1>1, <2>1, <2>2 DEF Shape, Chat!LastOne
<1> HIDE DEF q, p
<1>5. Chat!Holds(q) = Guests /\ Chat!Holds(p) = {q.user} /\ p.pc = "unset" /\ p.user = q.user
  BY <1>1, <1>4 DEF Chat!Holds, To, With
<1>6. QED
  BY <1>1, <1>2, <1>3, <1>5 DEF Serves, Kempt, Keeps, Follows, Loaded, q, p

LEMMA ServesKick ==
  ASSUME Types, ShapeInv, NEW r \in Requests, NEW u \in Guests,
         Chat!KickDoc(r) \/ Chat!KickSets(r)
  PROVE  Serves(r, u)
<1> DEFINE q == asked[r]
           p == asked'[r]
<1>1. q.pc = "kick" /\ q.todo \in SUBSET {"doc", "sets"} /\ Shape(q)
  BY DEF Types, ShapeInv, Chat!Request, Chat!KickDoc, Chat!KickSets
<1>2. CASE Chat!KickDoc(r)
  <2>1. /\ With(q, p, IF q.todo = {"doc"} THEN "tellgone" ELSE q.pc, q.snap, q.who, q.todo \ {"doc"})
        /\ UNCHANGED <<members, rooms, synced, queued>> /\ "doc" \in q.todo
    BY <1>2, SharesTo DEF Chat!KickDoc, Chat!Steps
  <2>2. Chat!InRoom' = Chat!InRoom \ q.who /\ (room' = None <=> room = None)
    <3>1. room' = IF room = None THEN None ELSE Chat!Without(room, q.who)
      BY <1>2 DEF Chat!KickDoc
    <3>2. QED
      BY <3>1, Removing DEF Types
  <2>3. Chat!Queued' = Chat!Queued
    BY <2>1 DEF Chat!Queued
  <2> HIDE DEF q, p
  <2>4. /\ p.todo = q.todo \ {"doc"} /\ p.snap = q.snap /\ p.op = q.op /\ p.user = q.user
        /\ p.who = q.who
        /\ \/ p.pc = "tellgone" /\ q.todo = {"doc"}
           \/ p.pc = "kick"
    BY <1>1, <2>1 DEF With
  <2>5. Chat!Holds(q) = q.who /\ Chat!Holds(p) = IF p.pc = "kick" THEN q.who ELSE {}
    BY <1>1, <2>4 DEF Chat!Holds
  <2>6. u \in q.who /\ Keeps(q, u) /\ p.pc = "kick" => Keeps(asked[r], u)'
    BY <1>1, <2>1, <2>2, <2>4 DEF Keeps, p
  <2>7. u \in q.who /\ Keeps(q, u) /\ p.pc = "tellgone" => Follows(u)' /\ Loaded(u)'
    BY <1>1, <2>1, <2>2, <2>4 DEF Keeps, Follows, Loaded
  <2>8. u \notin q.who => Same(u)
    BY <2>1, <2>2, <2>3 DEF Same
  <2>9. Kempt(r, u) /\ u \notin Chat!Queued => Kempt(r, u)'
    BY <2>4, <2>5, <2>6, <2>7, <2>8 DEF Kempt, Same, Follows, Loaded, q, p
  <2>10. QED
    BY <2>3, <2>5, <2>8, <2>9 DEF Serves, q
<1>3. CASE Chat!KickSets(r)
  <2>1. /\ With(q, p, IF q.todo = {"sets"} THEN "tellgone" ELSE q.pc, q.snap, q.who, q.todo \ {"sets"})
        /\ UNCHANGED <<room, synced, queued>> /\ "sets" \in q.todo
        /\ members' = members \ (q.who \intersect Chat!UsersOf(q.snap))
        /\ rooms' = rooms \ (q.who \intersect Chat!UsersOf(q.snap))
    BY <1>3, SharesTo DEF Chat!KickSets, Chat!Steps
  <2>2. Chat!InRoom' = Chat!InRoom
    BY <2>1, RoomAlone
  <2>3. Chat!Queued' = Chat!Queued
    BY <2>1 DEF Chat!Queued
  <2> HIDE DEF q, p
  <2>4. /\ p.todo = q.todo \ {"sets"} /\ p.snap = q.snap /\ p.op = q.op /\ p.user = q.user
        /\ p.who = q.who
        /\ \/ p.pc = "tellgone" /\ q.todo = {"sets"}
           \/ p.pc = "kick"
    BY <1>1, <2>1 DEF With
  <2>5. Chat!Holds(q) = q.who /\ Chat!Holds(p) = IF p.pc = "kick" THEN q.who ELSE {}
    BY <1>1, <2>4 DEF Chat!Holds
  <2>6. u \in q.who /\ Keeps(q, u) /\ p.pc = "kick" => Keeps(asked[r], u)'
    BY <1>1, <2>1, <2>2, <2>4 DEF Keeps, p
  <2>7. u \in q.who /\ Keeps(q, u) /\ p.pc = "tellgone" => Follows(u)' /\ Loaded(u)'
    BY <1>1, <2>1, <2>2, <2>4 DEF Keeps, Follows, Loaded
  <2>8. u \notin q.who => Same(u)
    BY <2>1, <2>2, <2>3 DEF Same
  <2>9. Kempt(r, u) /\ u \notin Chat!Queued => Kempt(r, u)'
    BY <2>4, <2>5, <2>6, <2>7, <2>8 DEF Kempt, Same, Follows, Loaded, q, p
  <2>10. QED
    BY <2>3, <2>5, <2>8, <2>9 DEF Serves, q
<1>4. QED
  BY <1>2, <1>3

LEMMA ServesJoin ==
  ASSUME Types, ShapeInv, NEW r \in Requests, NEW u \in Guests,
         Chat!JoinDoc(r) \/ Chat!JoinSets(r)
  PROVE  Serves(r, u)
<1> DEFINE q == asked[r]
           p == asked'[r]
<1>1. /\ q.pc = "join" /\ q.todo \in SUBSET {"doc", "sets"} /\ q.op \in {"add", "create"}
      /\ q.op = "create" => "doc" \notin q.todo
  <2>1. q.pc = "join" /\ q.todo \in SUBSET {"doc", "sets"} /\ q.pc \in Stages(q.op) /\ Shape(q)
    BY DEF Types, ShapeInv, Shape, Chat!Request, Chat!JoinDoc, Chat!JoinSets
  <2>2. q.op \in {"add", "create"}
    BY <2>1 DEF Stages, Gate
  <2>3. QED
    BY <2>1, <2>2 DEF Shape
<1>2. CASE Chat!JoinDoc(r)
  <2>1. /\ With(q, p, IF q.todo = {"doc"} THEN "enqueue" ELSE q.pc, q.snap, q.who, q.todo \ {"doc"})
        /\ UNCHANGED <<members, rooms, synced, queued>> /\ "doc" \in q.todo
    BY <1>2, SharesTo DEF Chat!JoinDoc, Chat!Steps
  <2>2. /\ room # None => Chat!InRoom' = Chat!InRoom \union q.who
        /\ room' = None <=> room = None
    BY <1>2, Adding
  <2>3. Chat!Queued' = Chat!Queued
    BY <2>1 DEF Chat!Queued
  <2>4. room = None => Chat!InRoom' = Chat!InRoom
    BY <2>2 DEF Chat!InRoom
  <2> HIDE DEF q, p
  <2>5. /\ p.todo = q.todo \ {"doc"} /\ p.snap = q.snap /\ p.op = q.op /\ p.user = q.user
        /\ p.who = q.who /\ q.op = "add"
        /\ \/ p.pc = "enqueue" /\ q.todo = {"doc"}
           \/ p.pc = "join"
    BY <1>1, <2>1 DEF With
  <2>6. Chat!Holds(q) = q.who /\ Chat!Holds(p) = q.who
    BY <1>1, <2>5 DEF Chat!Holds
  <2>7. u \in q.who /\ Keeps(q, u) => Keeps(asked[r], u)'
    BY <1>1, <2>1, <2>2, <2>5 DEF Keeps, p
  <2>8. u \notin q.who => Same(u)
    BY <2>1, <2>2, <2>3, <2>4 DEF Same
  <2>9. Kempt(r, u) /\ u \notin Chat!Queued => Kempt(r, u)'
    BY <2>6, <2>7, <2>8 DEF Kempt, Same, Follows, Loaded, q, p
  <2>10. QED
    BY <2>3, <2>6, <2>8, <2>9 DEF Serves, q
<1>3. CASE Chat!JoinSets(r)
  <2>1. /\ With(q, p, IF q.todo = {"sets"} THEN "enqueue" ELSE q.pc, q.snap, q.who, q.todo \ {"sets"})
        /\ UNCHANGED <<room, synced, queued>> /\ "sets" \in q.todo
        /\ members' = members \union Chat!Holds(q)
        /\ rooms' = IF q.op = "create" THEN rooms \union {q.user} ELSE rooms
    BY <1>3, SharesTo DEF Chat!JoinSets, Chat!Steps
  <2>2. Chat!InRoom' = Chat!InRoom
    BY <2>1, RoomAlone
  <2>3. Chat!Queued' = Chat!Queued
    BY <2>1 DEF Chat!Queued
  <2> HIDE DEF q, p
  <2>4. /\ p.todo = q.todo \ {"sets"} /\ p.snap = q.snap /\ p.op = q.op /\ p.user = q.user
        /\ p.who = q.who
        /\ \/ p.pc = "enqueue" /\ q.todo = {"sets"}
           \/ p.pc = "join" /\ q.todo # {"sets"}
    BY <1>1, <2>1 DEF With
  <2>5. Chat!Holds(q) = q.who \union (IF q.op = "create" THEN {q.user} ELSE {})
        /\ Chat!Holds(p) = Chat!Holds(q)
    BY <1>1, <2>4 DEF Chat!Holds
  <2>6. u \in Chat!Holds(q) /\ Keeps(q, u) => Keeps(asked[r], u)'
    BY <1>1, <2>1, <2>2, <2>4 DEF Keeps, p
  <2>7. u \notin Chat!Holds(q) => Same(u)
    BY <2>1, <2>2, <2>3, <2>5 DEF Same
  <2>8. Kempt(r, u) /\ u \notin Chat!Queued => Kempt(r, u)'
    BY <2>5, <2>6, <2>7 DEF Kempt, Same, Follows, Loaded, q, p
  <2>9. QED
    BY <2>3, <2>7, <2>8 DEF Serves, q
<1>4. QED
  BY <1>2, <1>3

LEMMA ServesEnqueue ==
  ASSUME Types, ShapeInv, NEW r \in Requests, NEW u \in Guests, Chat!Enqueue(r)
  PROVE  Serves(r, u)
<1> DEFINE q == asked[r]
           p == asked'[r]
<1>1. /\ q.pc = "enqueue" /\ To(q, p, "tellkept") /\ UNCHANGED <<room, members, synced>>
      /\ \/ queued' = Append(queued, q.who) /\ rooms' = rooms
         \/ queued' = queued /\ rooms' = rooms \union q.who
  BY GoesTo DEF Chat!Enqueue, Chat!Steps
<1>2. q.op \in {"add", "create"} /\ q.who \in SUBSET Guests
  <2>1. q.pc \in Stages(q.op) /\ q.who \in SUBSET Guests
    BY <1>1 DEF Types, ShapeInv, Shape, Chat!Request
  <2>2. QED
    BY <1>1, <2>1 DEF Stages, Gate
<1>3. Chat!InRoom' = Chat!InRoom
  BY <1>1, RoomAlone
<1>4. \/ Chat!Queued' = Chat!Queued \union q.who /\ rooms' = rooms
      \/ Chat!Queued' = Chat!Queued /\ rooms' = rooms \union q.who
  <2>1. queued' = Append(queued, q.who) => Chat!Queued' = Chat!Queued \union q.who
    BY <1>2, QueueGrows DEF Types
  <2>2. queued' = queued => Chat!Queued' = Chat!Queued
    BY DEF Chat!Queued
  <2>3. QED
    BY <1>1, <2>1, <2>2
<1> HIDE DEF q, p
<1>5. /\ Chat!Holds(q) = q.who \union (IF q.op = "create" THEN {q.user} ELSE {})
      /\ Chat!Holds(p) = {}
  BY <1>1 DEF Chat!Holds, To, With
<1>6. u \notin Chat!Holds(q) => Same(u)
  BY <1>1, <1>3, <1>4, <1>5 DEF Same
<1>7. u \in Chat!Holds(q) /\ Keeps(q, u) => u \in Chat!InRoom /\ (u \notin q.who => u \in rooms)
  BY <1>1, <1>5 DEF Keeps
<1>8. ASSUME Kempt(r, u), u \notin Chat!Queued
      PROVE  Kempt(r, u)' /\ (u \in Chat!Queued' => u \in Chat!InRoom')
  <2>1. CASE u \in Chat!Holds(q)
    <3>1. Keeps(q, u)
      BY <1>8, <2>1 DEF Kempt, q
    <3>2. u \in Chat!InRoom' /\ Follows(u)' /\ (u \in Chat!Queued' \/ Loaded(u)')
      BY <1>1, <1>3, <1>4, <1>7, <2>1, <3>1 DEF Follows, Loaded
    <3>3. QED
      BY <1>5, <3>2 DEF Kempt, p
  <2>2. CASE u \notin Chat!Holds(q)
    BY <1>5, <1>6, <1>8, <2>2 DEF Kempt, Same, Follows, Loaded, q, p
  <2>3. QED
    BY <2>1, <2>2
<1>9. QED
  BY <1>6, <1>8 DEF Serves, q

LEMMA ServesRead ==
  ASSUME Types, ShapeInv, NEW r \in Requests, NEW u \in Guests, Chat!Read(r)
  PROVE  Serves(r, u)
<1> DEFINE q == asked[r]
           p == asked'[r]
<1>1. /\ q.pc = "read"
      /\ \/ p = Chat!Idle
         \/ /\ room # None /\ q.op = "leave" /\ q.user \in Chat!UsersOf(room)
            /\ With(q, p, "pull", room, q.who, q.todo)
         \/ /\ room # None /\ q.op = "kick"
            /\ With(q, p, "kick", room, q.who, {"doc", "sets"})
         \/ /\ room # None /\ q.op = "add"
            /\ With(q, p, "join", room, q.who \ Chat!UsersOf(room), {"doc", "sets"})
         \/ /\ room # None /\ q.op \in {"role", "edit"} /\ To(q, p, q.op)
         \/ /\ room # None /\ q.op = "pin" /\ To(q, p, "tellkept")
         \/ /\ room # None /\ q.op = "clear" /\ To(q, p, "tellgone")
  BY ReadsTo
<1>2. UNCHANGED <<room, members, rooms, synced, queued>>
  BY DEF Chat!Read, Chat!store
<1>3. Same(u) /\ Chat!Queued' = Chat!Queued /\ Chat!InRoom' = Chat!InRoom
  BY <1>2, RoomAlone DEF Same, Chat!Queued
<1> HIDE DEF q, p
<1>4. u \notin Chat!Holds(q)
  BY <1>1 DEF Chat!Holds
<1>5. SUFFICES ASSUME u \in Chat!Holds(p), Follows(u) PROVE Keeps(asked[r], u)'
  BY <1>3, <1>4 DEF Serves, Kempt, Same, Follows, Loaded, q, p
<1>6. CASE \/ p = Chat!Idle
           \/ q.op \in {"role", "edit"} /\ To(q, p, q.op)
           \/ To(q, p, "tellkept") \/ To(q, p, "tellgone")
  BY <1>5, <1>6 DEF Chat!Holds, To, With, Chat!Idle
<1>7. CASE /\ room # None /\ q.op = "leave" /\ q.user \in Chat!UsersOf(room)
           /\ With(q, p, "pull", room, q.who, q.todo)
  <2>1. /\ p.pc = "pull" /\ p.op = "leave" /\ p.user = q.user /\ p.snap = room
    BY <1>7 DEF With
  <2>2. u # p.user => Len(room) = 1
    BY <1>5, <2>1 DEF Chat!Holds, Chat!LastOne
  <2>3. Len(room) = 1 => Chat!UsersOf(room) = {room[1].user}
    BY <1>7 DEF Types, StoreTypes, Chat!UsersOf
  <2>4. u # p.user => u \notin Chat!InRoom
    BY <1>7, <2>1, <2>2, <2>3 DEF Chat!InRoom
  <2>5. u # p.user => u \notin members
    BY <1>5, <2>4 DEF Follows
  <2>6. QED
    BY <1>2, <1>3, <2>1, <2>4, <2>5 DEF Keeps, p
<1>8. CASE /\ room # None /\ q.op = "kick"
           /\ With(q, p, "kick", room, q.who, {"doc", "sets"})
  <2>1. /\ p.pc = "kick" /\ p.op = "kick" /\ p.snap = room /\ p.todo = {"doc", "sets"}
    BY <1>8 DEF With
  <2>2. u \notin Chat!UsersOf(room) => u \notin members
    BY <1>5, <1>8 DEF Follows, Chat!InRoom
  <2>3. QED
    BY <1>2, <1>3, <2>1, <2>2 DEF Keeps, p
<1>9. CASE /\ room # None /\ q.op = "add"
           /\ With(q, p, "join", room, q.who \ Chat!UsersOf(room), {"doc", "sets"})
  <2>1. /\ p.pc = "join" /\ p.op = "add" /\ p.todo = {"doc", "sets"} /\ room' # None
    BY <1>2, <1>9 DEF With
  <2>2. QED
    BY <2>1 DEF Keeps, p
<1>10. QED
  BY <1>1, <1>6, <1>7, <1>8, <1>9

\* The founding of the room writes the entries of all its first members.
LEMMA SetCreate ==
  ASSUME Types, ShapeInv, Fresh, NEW r \in Requests, Chat!Create(r), Becomes(r, asked'[r])
  PROVE  SetInv'
<1> DEFINE q == asked[r]
           p == asked'[r]
<1>1. q.pc = "create" /\ UNCHANGED <<members, rooms, synced, queued>>
  BY DEF Chat!Create
<1>2. p.pc = "join" /\ p.op = q.op /\ p.user = q.user /\ p.who = q.who /\ p.todo = {"sets"}
  <2>1. q \in Chat!Request /\ p = [q EXCEPT !.pc = "join", !.todo = {"sets"}]
    BY DEF Types, Chat!Create
  <2> HIDE DEF p, q
  <2>2. QED
    BY <2>1 DEF Chat!Request
<1>3. q.op = "create" /\ q.user \in Guests \ q.who
  <2>1. q.pc \in Stages(q.op) /\ q.user \in Guests /\ Shape(q)
    BY <1>1 DEF ShapeInv, Shape
  <2>2. q.op = "create"
    BY <1>1, <2>1 DEF Stages, Gate
  <2>3. QED
    BY <2>1, <2>2 DEF Shape
<1>4. room' # None /\ Chat!InRoom' = q.who \union {q.user}
  BY <1>3, Founding
<1>5. members = {} /\ rooms = {} /\ synced = {} /\ queued = <<>>
      /\ \A s \in Requests \ {r} : asked[s].pc = "idle"
  BY <1>1 DEF Fresh, Types
<1>6. members' = {} /\ rooms' = {} /\ Chat!Queued' = {}
  BY <1>1, <1>5 DEF Chat!Queued
<1> HIDE DEF p, q
<1>7. Chat!Holds(p) = q.who \union {q.user}
  BY <1>2, <1>3 DEF Chat!Holds
<1>8. \A s \in Requests \ {r} : Chat!Holds(asked'[s]) = {}
  BY <1>5 DEF Becomes, Chat!Holds
<1>9. ASSUME NEW u \in Guests, u \in Chat!Holds(p) PROVE Keeps(asked[r], u)'
  BY <1>2, <1>4, <1>7, <1>9 DEF Keeps, p
<1>10. ASSUME NEW u \in Guests, u \notin Chat!Held' PROVE Follows(u)' /\ Loaded(u)'
  <2>1. u \notin Chat!Holds(asked'[r])
    BY <1>10 DEF Chat!Held
  <2>2. u \notin Chat!InRoom'
    BY <1>4, <1>7, <2>1 DEF p
  <2>3. QED
    BY <1>6, <2>2 DEF Follows, Loaded
<1>11. ASSUME NEW u \in Guests, NEW s \in Requests, u \in Chat!Holds(asked'[s])
       PROVE  Keeps(asked[s], u)'
  <2>1. s = r
    BY <1>8, <1>11
  <2>2. QED
    BY <1>9, <1>11, <2>1 DEF p
<1>12. QED
  BY <1>6, <1>10, <1>11 DEF SetInv

\* What another request keeps in order for u stays so.
LEMMA SameKeeps ==
  ASSUME NEW s, NEW u, Same(u), asked'[s] = asked[s], Keeps(asked[s], u)
  PROVE  Keeps(asked[s], u)'
BY DEF Same, Keeps

\* A step of one request, and what it makes of a user's entries.
LEMMA SetMoves ==
  ASSUME SetInv, Apart, Apart', mixed \subseteq mixed', NEW r \in Requests, Becomes(r, asked'[r]),
         NEW u \in Guests \ mixed', Serves(r, u)
  PROVE  /\ u \notin Chat!Held' => Follows(u)' /\ Loaded(u)'
         /\ u \in Chat!Queued' => u \in Chat!InRoom'
         /\ \A s \in Requests : u \in Chat!Holds(asked'[s]) => Keeps(asked[s], u)'
<1>1. /\ u \notin Chat!Held => Follows(u) /\ Loaded(u)
      /\ u \in Chat!Queued => u \in Chat!InRoom
      /\ \A s \in Requests : u \in Chat!Holds(asked[s]) => Keeps(asked[s], u)
  BY DEF SetInv
<1>2. /\ \A s \in Requests : asked'[s] = asked[s] \/ s = r
      /\ \A s \in Requests \ {r} : asked'[s] = asked[s]
  BY DEF Becomes
<1>3. /\ \A s, t \in Requests : s # t => ~ (u \in Chat!Holds(asked[s]) /\ u \in Chat!Holds(asked[t]))
      /\ \A s, t \in Requests : s # t => ~ (u \in Chat!Holds(asked'[s]) /\ u \in Chat!Holds(asked'[t]))
      /\ \A s \in Requests : ~ (u \in Chat!Holds(asked[s]) /\ u \in Chat!Queued)
      /\ \A s \in Requests : ~ (u \in Chat!Holds(asked'[s]) /\ u \in Chat!Queued')
  BY DEF Apart
<1>4. /\ u \in Chat!Held <=> (u \in Chat!Queued \/ \E s \in Requests : u \in Chat!Holds(asked[s]))
      /\ u \in Chat!Held' <=> (u \in Chat!Queued' \/ \E s \in Requests : u \in Chat!Holds(asked'[s]))
  BY DEF Chat!Held
<1>5. CASE u \in Chat!Holds(asked[r]) \/ u \in Chat!Holds(asked'[r])
  <2>1. \A s \in Requests \ {r} : u \notin Chat!Holds(asked[s]) /\ u \notin Chat!Holds(asked'[s])
    BY <1>2, <1>3, <1>5
  <2>2. u \notin Chat!Queued
    <3>1. CASE u \in Chat!Holds(asked[r])
      BY <1>3, <3>1
    <3>2. CASE u \notin Chat!Holds(asked[r])
      BY <1>3, <1>5, <3>2 DEF Serves, Same
    <3>3. QED
      BY <3>1, <3>2
  <2>3. Kempt(r, u)
    <3>1. u \notin Chat!Holds(asked[r]) => u \notin Chat!Held
      BY <1>4, <2>1, <2>2
    <3>2. QED
      BY <1>1, <3>1 DEF Kempt
  <2>4. Kempt(r, u)' /\ (u \in Chat!Queued' => u \in Chat!InRoom')
    BY <2>2, <2>3 DEF Serves
  <2>5. /\ u \in Chat!Holds(asked'[r]) => Keeps(asked[r], u)'
        /\ u \notin Chat!Holds(asked'[r]) => u \in Chat!Queued' \/ (Follows(u)' /\ Loaded(u)')
    BY <2>4 DEF Kempt
  <2>6. \A s \in Requests : u \in Chat!Holds(asked'[s]) => Keeps(asked[s], u)'
    <3>1. SUFFICES ASSUME NEW s \in Requests, u \in Chat!Holds(asked'[s]) PROVE Keeps(asked[s], u)'
      OBVIOUS
    <3>2. s = r
      BY <2>1, <3>1
    <3>3. QED
      BY <2>5, <3>1, <3>2
  <2>7. u \notin Chat!Held' => Follows(u)' /\ Loaded(u)'
    BY <1>4, <2>5
  <2>8. QED
    BY <2>4, <2>6, <2>7
<1>6. CASE u \notin Chat!Holds(asked[r]) /\ u \notin Chat!Holds(asked'[r])
  <2>1. Same(u)
    BY <1>6 DEF Serves
  <2>2. \A s \in Requests : u \in Chat!Holds(asked'[s]) => Keeps(asked[s], u)'
    <3>1. SUFFICES ASSUME NEW s \in Requests, u \in Chat!Holds(asked'[s]) PROVE Keeps(asked[s], u)'
      OBVIOUS
    <3>2. s # r /\ asked'[s] = asked[s] /\ Keeps(asked[s], u)
      BY <1>1, <1>2, <1>6, <3>1
    <3>3. QED
      BY <2>1, <3>2, SameKeeps
  <2>3. u \notin Chat!Held' => u \notin Chat!Held
    BY <1>2, <1>4, <1>6, <2>1 DEF Same
  <2>4. u \notin Chat!Held' => Follows(u)' /\ Loaded(u)'
    BY <1>1, <2>1, <2>3 DEF Same, Follows, Loaded
  <2>5. u \in Chat!Queued' => u \in Chat!InRoom'
    BY <1>1, <2>1 DEF Same
  <2>6. QED
    BY <2>2, <2>4, <2>5
<1>7. QED
  BY <1>5, <1>6

LEMMA SetKept ==
  ASSUME Types, Types', ShapeInv, Fresh, Apart, SetInv, Chat!Next
  PROVE  SetInv'
<1>1. Apart' /\ mixed \subseteq mixed'
  BY ApartKept
<1>2. ASSUME NEW r \in Requests, Becomes(r, asked'[r]), \A u \in Guests \ mixed' : Serves(r, u)
      PROVE  SetInv'
  <2>1. ASSUME NEW u \in Guests \ mixed'
        PROVE  /\ u \notin Chat!Held' => Follows(u)' /\ Loaded(u)'
               /\ u \in Chat!Queued' => u \in Chat!InRoom'
               /\ \A s \in Requests : u \in Chat!Holds(asked'[s]) => Keeps(asked[s], u)'
    <3>1. Serves(r, u)
      BY <1>2, Zenon
    <3>2. QED
      BY <1>1, <1>2, <3>1, SetMoves
  <2>2. QED
    BY <2>1 DEF SetInv
<1>3. ASSUME NEW r \in Requests, Chat!Step(r) PROVE SetInv'
  <2>1. Becomes(r, asked'[r])
    BY <1>3, StepShapes
  <2>2. CASE Chat!Create(r)
    BY <2>1, <2>2, SetCreate
  <2>3. CASE ~ Chat!Create(r)
    <3>1. ASSUME NEW u \in Guests PROVE Serves(r, u)
      BY <1>3, <2>3, ServesUser, ServesNobody, ServesPull, ServesPromote, ServesDelete,
         ServesKick, ServesJoin, ServesEnqueue, ServesRead DEF Chat!Step
    <3>2. QED
      BY <1>2, <2>1, <3>1
  <2>4. QED
    BY <2>2, <2>3
<1>4. ASSUME NEW r \in Requests, Becomes(r, asked'[r]), UNCHANGED Chat!store,
             \A u \in Guests \ mixed' : u \notin Chat!Holds(asked[r]), Chat!Holds(asked'[r]) = {}
      PROVE  SetInv'
  <2>1. UNCHANGED <<room, members, rooms, synced, queued>>
    BY <1>4 DEF Chat!store
  <2>2. ASSUME NEW u \in Guests \ mixed' PROVE Serves(r, u)
    <3>1. Same(u)
      BY <2>1, RoomAlone DEF Same, Chat!Queued
    <3>2. QED
      BY <1>4, <3>1, ServesIdly
  <2>3. QED
    BY <1>2, <1>4, <2>2
<1>5. ASSUME NEW r \in Requests, Chat!Abort(r) PROVE SetInv'
  <2>1. Becomes(r, asked'[r]) /\ asked'[r] = Chat!Idle /\ UNCHANGED Chat!store
    BY <1>5, OtherTypes DEF Becomes
  <2>2. Chat!Holds(asked[r]) \subseteq mixed'
    BY <1>5 DEF Chat!Abort, Chat!Record
  <2>3. Chat!Holds(asked'[r]) = {}
    BY <2>1 DEF Chat!Holds, Chat!Idle
  <2>4. QED
    BY <1>4, <2>1, <2>2, <2>3
<1>6. ASSUME NEW r \in Requests, Becomes(r, asked'[r]), UNCHANGED Chat!store,
             asked[r] = Chat!Idle, asked'[r].pc \in {"create", "scan", "read", "exists"}
      PROVE  SetInv'
  <2>1. Chat!Holds(asked[r]) = {} /\ Chat!Holds(asked'[r]) = {}
    BY <1>6 DEF Chat!Holds, Chat!Idle
  <2>2. QED
    BY <1>4, <1>6, <2>1
<1>7. ASSUME NEW r \in Requests, NEW u \in Guests, Chat!CallCreate(r, u) PROVE SetInv'
  BY <1>6, <1>7, Starting
<1>8. ASSUME NEW r \in Requests, NEW u \in Guests, Chat!Connect(r, u) PROVE SetInv'
  BY <1>6, <1>8, Connecting
<1>9. ASSUME NEW r \in Requests, NEW u \in Guests, NEW op \in AllOps, Chat!Call(r, u, op) PROVE SetInv'
  BY <1>6, <1>9, Calling
<1>10. ASSUME NEW i \in DOMAIN queued, Chat!RunJob(i) PROVE SetInv'
  <2>1. /\ UNCHANGED <<room, members, synced, asked>> /\ Chat!InRoom' = Chat!InRoom
        /\ rooms' = rooms \union queued[i] /\ queued' = Chat!RemoveAt(queued, i)
    BY <1>10, RoomAlone DEF Chat!RunJob
  <2>2. /\ Chat!Queued' \subseteq Chat!Queued /\ Chat!Queued \subseteq Chat!Queued' \union queued[i]
        /\ queued[i] \subseteq Chat!Queued
    BY <2>1, QueueShrinks DEF Types, Chat!Queued
  <2>3. ASSUME NEW u \in Guests \ mixed'
        PROVE  /\ u \notin Chat!Held' => Follows(u)' /\ Loaded(u)'
               /\ u \in Chat!Queued' => u \in Chat!InRoom'
               /\ \A s \in Requests : u \in Chat!Holds(asked'[s]) => Keeps(asked[s], u)'
    <3>1. u \in Guests \ mixed
      BY <1>1
    <3>2. u \in Chat!Queued => u \in Chat!InRoom
      BY <3>1 DEF SetInv
    <3>3. \A s \in Requests : u \in Chat!Holds(asked[s]) => u \notin Chat!Queued /\ Keeps(asked[s], u)
      BY <3>1 DEF SetInv, Apart
    <3>4. ASSUME NEW s \in Requests, u \in Chat!Holds(asked'[s]) PROVE Keeps(asked[s], u)'
      <4>1. asked'[s] = asked[s] /\ Keeps(asked[s], u) /\ u \notin Chat!Queued
        BY <2>1, <3>3, <3>4
      <4>2. Same(u)
        BY <2>1, <2>2, <4>1 DEF Same
      <4>3. QED
        BY <4>1, <4>2, SameKeeps
    <3>5. ASSUME u \notin Chat!Held' PROVE Follows(u)' /\ Loaded(u)'
      <4>1. u \notin Chat!Queued' /\ \A s \in Requests : u \notin Chat!Holds(asked[s])
        BY <2>1, <3>5 DEF Chat!Held
      <4>2. CASE u \in queued[i]
        BY <2>1, <2>2, <3>2, <4>2 DEF Follows, Loaded
      <4>3. CASE u \notin queued[i]
        <5>1. u \notin Chat!Held
          BY <2>2, <4>1, <4>3 DEF Chat!Held
        <5>2. Follows(u) /\ Loaded(u)
          BY <3>1, <5>1 DEF SetInv
        <5>3. QED
          BY <2>1, <4>3, <5>2 DEF Follows, Loaded
      <4>4. QED
        BY <4>2, <4>3
    <3>6. QED
      BY <2>1, <2>2, <3>2, <3>4, <3>5
  <2>4. QED
    BY <2>3 DEF SetInv
<1>11. ASSUME Chat!Flush PROVE SetInv'
  <2>1. /\ members' = {} /\ synced' = {} /\ queued' = <<>> /\ asked' = asked
        /\ UNION {Chat!Holds(asked[r]) : r \in Requests} \subseteq mixed'
    BY <1>11 DEF Chat!Flush, Chat!Record
  <2>2. Chat!Queued' = {}
    BY <2>1 DEF Chat!Queued
  <2>3. \A u \in Guests \ mixed' : \A s \in Requests : u \notin Chat!Holds(asked'[s])
    BY <2>1
  <2>4. \A u \in Guests : Follows(u)' /\ Loaded(u)'
    BY <2>1 DEF Follows, Loaded
  <2>5. QED
    BY <2>2, <2>3, <2>4 DEF SetInv
<1>12. QED
  BY <1>3, <1>5, <1>7, <1>8, <1>9, <1>10, <1>11 DEF Chat!Next

-------------------------------------------------------------------------------
(* The last word a user gets *)

\* What is true of a user whose entries q holds: whom it does not tell, it moves not.
Tellable(q, u) ==
  /\ q.pc \in {"pull", "delete"} /\ Chat!LastOne(q) /\ u \notin Chat!UsersOf(q.snap) => u \notin Chat!InRoom
  /\ q.pc = "kick" /\ u \in q.who /\ u \notin Chat!UsersOf(q.snap) => u \notin Chat!InRoom

\* What is true of a user that q tells of the room, or will.
Telling(q, u) ==
  /\ u \in Chat!Kept(q) =>
       /\ q.pc \in {"kick", "enqueue", "tellkept", "tellgone"} => u \in Chat!InRoom
       /\ q.pc = "join" =>
            room # None /\ (u \in Chat!InRoom <=> ~ (u \in q.who /\ "doc" \in q.todo))
       /\ q.pc \in {"pull", "promote", "delete", "unset", "unroom"} => u # q.user /\ u \in Chat!InRoom
  /\ u \in Chat!Gone(q) =>
       /\ q.pc \in {"promote", "delete", "unset", "unroom"} => u \notin Chat!InRoom
       /\ q.pc = "kick" /\ "doc" \notin q.todo => u \notin Chat!InRoom
       /\ q.pc = "tellgone" /\ q.op # "clear" => u \notin Chat!InRoom
       /\ q.pc = "tellkept" => u \notin Chat!InRoom /\ feed[u] # "upserted"

\* What request r and the document know of u.
Local(r, u) ==
  /\ room # None => Once(room, u)
  /\ u \in Chat!Holds(asked[r]) => Tellable(asked[r], u)
  /\ u \in Chat!Tells(asked[r]) => Telling(asked[r], u)

FeedInv ==
  \A u \in Guests \ feedMixed :
    /\ feed[u] = "upserted" => u \in Chat!InRoom \/ \E r \in Requests : u \in Chat!Tells(asked[r])
    /\ room # None => Once(room, u)
    /\ \A r \in Requests : Local(r, u)

\* A step of r moves no one it does not tell, and takes back no word of its own.
Reports(r, u) ==
  /\ ~ (u \in Chat!InRoom' <=> u \in Chat!InRoom) => u \in Chat!Holds(asked[r]) /\ u \in Chat!Tells(asked[r])
  /\ room # None /\ room' = None => u \in Chat!Holds(asked[r])
  /\ Local(r, u)'
  /\ feed'[u] = "upserted" =>
       \/ u \in Chat!InRoom' \/ u \in Chat!Tells(asked'[r])
       \/ feed[u] = "upserted" /\ u \notin Chat!InRoom /\ u \notin Chat!Tells(asked[r])
  /\ feed'[u] = "upserted" => feed[u] = "upserted" \/ u \in Chat!InRoom

\* The steps of those who tell, by the operation.
Tellers == {"pull", "promote", "delete", "unset", "unroom", "kick", "join", "enqueue",
            "tellgone", "tellkept"}

LEMMA ToldBy ==
  ASSUME NEW q
  PROVE  Chat!Tells(q) = IF q.pc \in Tellers THEN Chat!Gone(q) \union Chat!Kept(q) ELSE {}
BY DEF Chat!Tells, Tellers

LEMMA SameTold ==
  ASSUME NEW q, NEW p, p.op = q.op, p.user = q.user, p.who = q.who, p.snap = q.snap
  PROVE  /\ Chat!Kept(p) = Chat!Kept(q) /\ Chat!Gone(p) = Chat!Gone(q)
         /\ Chat!LastOne(p) = Chat!LastOne(q)
BY DEF Chat!Kept, Chat!Gone, Chat!LastOne

\* A step of a request that tells nobody.
LEMMA ReportsIdly ==
  ASSUME NEW r \in Requests, NEW u \in Guests, UNCHANGED <<room, feed>>, Local(r, u),
         asked[r].pc \notin Tellers, asked'[r].pc \notin Tellers
  PROVE  Reports(r, u)
<1>1. Chat!InRoom' = Chat!InRoom
  BY RoomAlone
<1>2. Chat!Tells(asked[r]) = {} /\ Chat!Tells(asked'[r]) = {}
  BY ToldBy
<1>3. Tellable(asked[r], u)'
  BY DEF Tellable, Tellers
<1>4. Local(r, u)'
  BY <1>2, <1>3 DEF Local, Once
<1>5. QED
  BY <1>1, <1>2, <1>4 DEF Reports

\* A step of a request that tells whom it told before, and moves nobody.
LEMMA ReportsOn ==
  ASSUME NEW r \in Requests, NEW u \in Guests, UNCHANGED feed, Local(r, u),
         Chat!InRoom' = Chat!InRoom, room' = None <=> room = None,
         room' # None /\ Once(room, u) => Once(room', u),
         asked[r].pc \in Tellers, asked'[r].pc \in Tellers,
         asked'[r].op = asked[r].op, asked'[r].user = asked[r].user,
         asked'[r].who = asked[r].who, asked'[r].snap = asked[r].snap,
         u \in Chat!Holds(asked'[r]) => Tellable(asked[r], u)',
         Telling(asked[r], u) => Telling(asked[r], u)'
  PROVE  Reports(r, u)
<1>1. Chat!Tells(asked'[r]) = Chat!Tells(asked[r])
  BY ToldBy, SameTold
<1>2. Local(r, u)'
  BY <1>1 DEF Local
<1>3. QED
  BY <1>1, <1>2 DEF Reports

LEMMA ReportsQuietly ==
  ASSUME Types, ShapeInv, NEW r \in Requests, NEW u \in Guests, Local(r, u),
         \/ Chat!Exists(r) \/ Chat!Prime(r) \/ Chat!Scan(r) \/ Chat!Fill(r) \/ Chat!Flag(r)
  PROVE  Reports(r, u)
<1>1. \A pc \in Chat!Steps : Chat!Go(r, pc) => asked'[r].pc = pc
  BY GoesTo DEF To, With
<1>2. Chat!End(r) => asked'[r].pc = "idle"
  BY EndsIdle DEF Chat!Idle
<1>3. UNCHANGED <<room, feed>>
  BY DEF Chat!Exists, Chat!Prime, Chat!Scan, Chat!Fill, Chat!Flag, Chat!store
<1>4. asked[r].pc \in {"exists", "prime", "scan", "fill", "flag"}
  BY DEF Chat!Exists, Chat!Prime, Chat!Scan, Chat!Fill, Chat!Flag
<1>5. \/ Chat!Go(r, "prime") \/ Chat!Go(r, "read") \/ Chat!Go(r, "fill") \/ Chat!Go(r, "flag")
      \/ Chat!End(r)
  BY Zenon DEF Chat!Exists, Chat!Prime, Chat!Scan, Chat!Fill, Chat!Flag
<1>6. asked'[r].pc \in {"idle", "prime", "read", "fill", "flag"}
  BY <1>1, <1>2, <1>5 DEF Chat!Steps
<1>7. QED
  BY <1>3, <1>4, <1>6, ReportsIdly DEF Tellers

\* The steps of a leave that move nobody.
LEMMA ReportsLeave ==
  ASSUME Types, ShapeInv, NEW r \in Requests, NEW u \in Guests, Local(r, u),
         \/ Chat!Promote(r) \/ Chat!Unset(r) \/ Chat!Unroom(r)
  PROVE  Reports(r, u)
<1> DEFINE q == asked[r]
           p == asked'[r]
<1>1. \A pc \in Chat!Steps : Chat!Go(r, pc) => To(q, p, pc)
  BY GoesTo
<1>2. UNCHANGED feed
  BY DEF Chat!Promote, Chat!Unset, Chat!Unroom
<1>3. \/ q.pc = "promote" /\ To(q, p, "unset")
      \/ q.pc = "unset" /\ To(q, p, "unroom")
      \/ q.pc = "unroom" /\ To(q, p, "tellgone")
  BY <1>1 DEF Chat!Promote, Chat!Unset, Chat!Unroom, Chat!Steps
<1>4. /\ Chat!InRoom' = Chat!InRoom /\ (room' = None <=> room = None)
      /\ room' # None /\ Once(room, u) => Once(room', u)
  <2>1. CASE Chat!Promote(r)
    BY <2>1, Promoting DEF Types
  <2>2. CASE Chat!Unset(r) \/ Chat!Unroom(r)
    <3>1. room' = room
      BY <2>2 DEF Chat!Unset, Chat!Unroom
    <3>2. QED
      BY <3>1, RoomAlone DEF Once
  <2>3. QED
    BY <2>1, <2>2
<1> HIDE DEF q, p
<1>5. /\ p.op = q.op /\ p.user = q.user /\ p.who = q.who /\ p.snap = q.snap /\ p.todo = q.todo
      /\ \/ q.pc = "promote" /\ p.pc = "unset"
         \/ q.pc = "unset" /\ p.pc = "unroom"
         \/ q.pc = "unroom" /\ p.pc = "tellgone"
  BY <1>3 DEF To, With
<1>6. Tellable(asked[r], u)'
  BY <1>5 DEF Tellable, p
<1>7. Chat!Kept(p) = Chat!Kept(q) /\ Chat!Gone(p) = Chat!Gone(q)
  BY <1>5, SameTold
<1>8. Telling(asked[r], u) => Telling(asked[r], u)'
  BY <1>4, <1>5, <1>7 DEF Telling, p, q
<1>9. QED
  BY <1>2, <1>4, <1>5, <1>6, <1>8, ReportsOn DEF Tellers, p, q

LEMMA ReportsPull ==
  ASSUME Types, ShapeInv, NEW r \in Requests, NEW u \in Guests, Local(r, u), Chat!Pull(r)
  PROVE  Reports(r, u)
<1> DEFINE q == asked[r]
           p == asked'[r]
<1>1. /\ q.pc = "pull" /\ q.op = "leave"
      /\ p.pc \in {"unset", "delete", "promote"} /\ p.user = q.user /\ p.op = q.op /\ p.snap = q.snap
      /\ p.who = q.who
  <2>1. To(q, p, "unset") \/ To(q, p, "delete") \/ To(q, p, "promote")
    BY PullsTo, Zenon
  <2>2. q.pc = "pull" /\ q.op = "leave"
    BY PullsTo
  <2> HIDE DEF q, p
  <2>3. QED
    BY <2>1, <2>2 DEF To, With
<1>2. feed' = feed
  BY DEF Chat!Pull
<1>3. /\ Chat!InRoom' = Chat!InRoom \ {q.user} /\ (room' = None <=> room = None)
      /\ room # None /\ Once(room, u) => Once(room', u)
  <2>1. room' = IF room = None THEN None ELSE Chat!Without(room, {q.user})
    BY DEF Chat!Pull
  <2>2. QED
    BY <2>1, Removing DEF Types
<1> HIDE DEF q, p
<1>4. /\ Chat!Kept(p) = Chat!Kept(q) /\ Chat!Gone(p) = Chat!Gone(q) /\ Chat!Gone(q) = {q.user}
      /\ Chat!LastOne(p) <=> Chat!LastOne(q)
  BY <1>1, SameTold DEF Chat!Gone
<1>5. /\ Chat!Tells(q) = {q.user} \union Chat!Kept(q)
      /\ Chat!Tells(p) = {q.user} \union Chat!Kept(q)
  BY <1>1, <1>4, ToldBy DEF Tellers
<1>6. Chat!Holds(q) = IF Chat!LastOne(q) THEN Guests ELSE {q.user}
  BY <1>1 DEF Chat!Holds
<1>7. q.user \in Chat!Holds(q)
  BY <1>1, <1>6 DEF ShapeInv, Shape, q
<1>8. /\ room # None => Once(room, u)
      /\ u \in Chat!Holds(q) => Tellable(q, u)
      /\ u \in Chat!Tells(q) => Telling(q, u)
  BY DEF Local, q
<1>9. u \in Chat!Holds(p) => Tellable(asked[r], u)'
  BY <1>1, <1>3, <1>4, <1>6, <1>8 DEF Tellable, p
<1>10. u \in Chat!Tells(p) => Telling(asked[r], u)'
  BY <1>1, <1>3, <1>4, <1>5, <1>8 DEF Telling, p
<1>11. Local(r, u)'
  BY <1>3, <1>8, <1>9, <1>10 DEF Local, p
<1>12. QED
  BY <1>2, <1>3, <1>5, <1>7, <1>11 DEF Reports, p, q

LEMMA ReportsDelete ==
  ASSUME Types, ShapeInv, NEW r \in Requests, NEW u \in Guests, Local(r, u), Chat!Delete(r)
  PROVE  Reports(r, u)
<1> DEFINE q == asked[r]
           p == asked'[r]
<1>1. q.pc = "delete" /\ To(q, p, "unset") /\ feed' = feed /\ room' = None
  BY GoesTo DEF Chat!Delete, Chat!Steps
<1>2. Chat!InRoom' = {}
  BY <1>1 DEF Chat!InRoom
<1>3. /\ Chat!LastOne(q) /\ q.op = "leave" /\ Len(q.snap) = 1 /\ q.snap \in Seq(Entry)
      /\ q.user \in Chat!UsersOf(q.snap)
  <2>1. q.pc \in Stages(q.op) /\ Shape(q) /\ q.snap \in Seq(Entry)
    BY <1>1 DEF Types, ShapeInv, Shape, Chat!Request, Entry
  <2> HIDE DEF q
  <2>2. q.op = "leave"
    BY <1>1, <2>1 DEF Stages, Gate
  <2>3. QED
    BY <1>1, <2>1, <2>2 DEF Shape, Chat!LastOne
<1> HIDE DEF q, p
<1>4. Chat!UsersOf(q.snap) = {q.user}
  BY <1>3 DEF Chat!UsersOf
<1>5. p.pc = "unset" /\ p.op = q.op /\ p.user = q.user /\ p.who = q.who /\ p.snap = q.snap
  BY <1>1 DEF To, With
<1>6. /\ Chat!Gone(q) = {q.user} /\ Chat!Kept(q) = {} /\ Chat!Gone(p) = {q.user} /\ Chat!Kept(p) = {}
  BY <1>3, <1>5, SameTold DEF Chat!Gone, Chat!Kept
<1>7. Chat!Tells(q) = {q.user} /\ Chat!Tells(p) = {q.user}
  BY <1>1, <1>5, <1>6, ToldBy DEF Tellers
<1>8. Chat!Holds(q) = Guests
  BY <1>1, <1>3 DEF Chat!Holds
<1>9. u \notin Chat!InRoom
  <2>1. Tellable(q, u) /\ (u \in Chat!Tells(q) => Telling(q, u))
    BY <1>8 DEF Local, q
  <2>2. QED
    BY <1>1, <1>3, <1>4, <1>6, <1>7, <2>1 DEF Tellable, Telling
<1>10. Tellable(asked[r], u)' /\ Telling(asked[r], u)'
  BY <1>2, <1>5, <1>6 DEF Tellable, Telling, p
<1>11. Local(r, u)'
  BY <1>1, <1>10 DEF Local
<1>12. QED
  BY <1>1, <1>2, <1>7, <1>8, <1>9, <1>11 DEF Reports, p, q

LEMMA ReportsKick ==
  ASSUME Types, ShapeInv, NEW r \in Requests, NEW u \in Guests, Local(r, u),
         Chat!KickDoc(r) \/ Chat!KickSets(r)
  PROVE  Reports(r, u)
<1> DEFINE q == asked[r]
           p == asked'[r]
<1>1. q.pc = "kick" /\ q.op = "kick" /\ q.todo \in SUBSET {"doc", "sets"}
  <2>1. q.pc = "kick" /\ q.todo \in SUBSET {"doc", "sets"} /\ q.pc \in Stages(q.op)
    BY DEF Types, ShapeInv, Shape, Chat!Request, Chat!KickDoc, Chat!KickSets
  <2>2. QED
    BY <2>1 DEF Stages, Gate
<1>2. CASE Chat!KickDoc(r)
  <2>1. /\ With(q, p, IF q.todo = {"doc"} THEN "tellgone" ELSE q.pc, q.snap, q.who, q.todo \ {"doc"})
        /\ feed' = feed
    BY <1>2, SharesTo DEF Chat!KickDoc, Chat!Steps
  <2>2. /\ Chat!InRoom' = Chat!InRoom \ q.who /\ (room' = None <=> room = None)
        /\ room # None /\ Once(room, u) => Once(room', u)
    <3>1. room' = IF room = None THEN None ELSE Chat!Without(room, q.who)
      BY <1>2 DEF Chat!KickDoc
    <3>2. QED
      BY <3>1, Removing DEF Types
  <2> HIDE DEF q, p
  <2>3. /\ p.todo = q.todo \ {"doc"} /\ p.snap = q.snap /\ p.op = q.op /\ p.user = q.user
        /\ p.who = q.who /\ p.pc \in {"tellgone", "kick"}
    BY <1>1, <2>1 DEF With
  <2>4. /\ Chat!Kept(p) = Chat!Kept(q) /\ Chat!Gone(p) = Chat!Gone(q)
        /\ Chat!Gone(q) = q.who \intersect Chat!UsersOf(q.snap)
        /\ Chat!Kept(q) \intersect q.who = {}
    BY <1>1, <2>3, SameTold DEF Chat!Gone, Chat!Kept
  <2>5. Chat!Tells(q) = Chat!Gone(q) \union Chat!Kept(q) /\ Chat!Tells(p) = Chat!Tells(q)
    BY <1>1, <2>3, <2>4, ToldBy DEF Tellers
  <2>6. Chat!Holds(q) = q.who /\ (u \in Chat!Holds(p) => u \in q.who)
    BY <1>1, <2>3 DEF Chat!Holds
  <2>7. /\ room # None => Once(room, u)
        /\ u \in Chat!Holds(q) => Tellable(q, u)
        /\ u \in Chat!Tells(q) => Telling(q, u)
    BY DEF Local, q
  <2>8. u \in Chat!Holds(p) => Tellable(asked[r], u)'
    BY <1>1, <2>2, <2>3, <2>6, <2>7 DEF Tellable, p
  <2>9. u \in Chat!Tells(p) => Telling(asked[r], u)'
    BY <1>1, <2>2, <2>3, <2>4, <2>5, <2>7 DEF Telling, p
  <2>10. Local(r, u)'
    BY <2>2, <2>7, <2>8, <2>9 DEF Local, p
  <2>11. u \in q.who /\ u \in Chat!InRoom => u \in Chat!Tells(q)
    BY <1>1, <2>4, <2>5, <2>6, <2>7 DEF Tellable
  <2>12. QED
    BY <2>1, <2>2, <2>5, <2>6, <2>10, <2>11 DEF Reports, p, q
<1>3. CASE Chat!KickSets(r)
  <2>1. /\ With(q, p, IF q.todo = {"sets"} THEN "tellgone" ELSE q.pc, q.snap, q.who, q.todo \ {"sets"})
        /\ feed' = feed /\ room' = room
    BY <1>3, SharesTo DEF Chat!KickSets, Chat!Steps
  <2>2. Chat!InRoom' = Chat!InRoom
    BY <2>1, RoomAlone
  <2> HIDE DEF q, p
  <2>3. /\ p.todo = q.todo \ {"sets"} /\ p.snap = q.snap /\ p.op = q.op /\ p.user = q.user
        /\ p.who = q.who
        /\ \/ p.pc = "tellgone" /\ q.todo = {"sets"}
           \/ p.pc = "kick"
    BY <1>1, <2>1 DEF With
  <2>4. Chat!Kept(p) = Chat!Kept(q) /\ Chat!Gone(p) = Chat!Gone(q)
    BY <2>3, SameTold
  <2>5. u \in Chat!Holds(p) => u \in Chat!Holds(q)
    BY <1>1, <2>3 DEF Chat!Holds
  <2>6. u \in Chat!Holds(q) => Tellable(q, u)
    BY DEF Local, q
  <2>7. u \in Chat!Holds(p) => Tellable(asked[r], u)'
    BY <1>1, <2>2, <2>3, <2>5, <2>6 DEF Tellable, p
  <2>8. Telling(asked[r], u) => Telling(asked[r], u)'
    BY <1>1, <2>1, <2>2, <2>3, <2>4 DEF Telling, p, q
  <2>9. QED
    BY <1>1, <2>1, <2>2, <2>3, <2>7, <2>8, ReportsOn DEF Tellers, Once, p, q
<1>4. QED
  BY <1>2, <1>3

LEMMA ReportsJoin ==
  ASSUME Types, ShapeInv, NEW r \in Requests, NEW u \in Guests, Local(r, u),
         Chat!JoinDoc(r) \/ Chat!JoinSets(r) \/ Chat!Enqueue(r)
  PROVE  Reports(r, u)
<1> DEFINE q == asked[r]
           p == asked'[r]
<1>1. /\ q.pc \in {"join", "enqueue"} /\ q.todo \in SUBSET {"doc", "sets"} /\ q.op \in {"add", "create"}
      /\ q.op = "create" => "doc" \notin q.todo
  <2>1. /\ q.pc \in {"join", "enqueue"} /\ q.todo \in SUBSET {"doc", "sets"} /\ q.pc \in Stages(q.op)
        /\ Shape(q)
    BY DEF Types, ShapeInv, Shape, Chat!Request, Chat!JoinDoc, Chat!JoinSets, Chat!Enqueue
  <2>2. q.op \in {"add", "create"}
    BY <2>1 DEF Stages, Gate
  <2>3. QED
    BY <2>1, <2>2 DEF Shape
<1>2. CASE Chat!JoinDoc(r)
  <2>1. /\ With(q, p, IF q.todo = {"doc"} THEN "enqueue" ELSE q.pc, q.snap, q.who, q.todo \ {"doc"})
        /\ feed' = feed /\ "doc" \in q.todo /\ q.pc = "join"
    BY <1>2, SharesTo DEF Chat!JoinDoc, Chat!Steps
  <2>2. /\ room' = None <=> room = None
        /\ room # None => /\ Chat!InRoom' = Chat!InRoom \union q.who
                          /\ Once(room, u) /\ ~ (u \in Chat!InRoom /\ u \in q.who) => Once(room', u)
    BY <1>2, Adding
  <2>3. room = None => Chat!InRoom' = Chat!InRoom
    BY <2>2 DEF Chat!InRoom
  <2> HIDE DEF q, p
  <2>4. /\ p.todo = q.todo \ {"doc"} /\ p.snap = q.snap /\ p.op = q.op /\ p.user = q.user
        /\ p.who = q.who /\ q.op = "add"
        /\ \/ p.pc = "enqueue" /\ q.todo = {"doc"}
           \/ p.pc = "join"
    BY <1>1, <2>1 DEF With
  <2>5. /\ Chat!Kept(p) = Chat!Kept(q) /\ Chat!Gone(p) = {} /\ Chat!Gone(q) = {}
        /\ q.who \subseteq Chat!Kept(q)
    BY <2>4, SameTold DEF Chat!Gone, Chat!Kept
  <2>6. Chat!Tells(q) = Chat!Kept(q) /\ Chat!Tells(p) = Chat!Kept(q)
    BY <2>1, <2>4, <2>5, ToldBy DEF Tellers
  <2>7. Chat!Holds(q) = q.who /\ Chat!Holds(p) = q.who
    BY <2>1, <2>4 DEF Chat!Holds
  <2>8. /\ room # None => Once(room, u)
        /\ u \in Chat!Kept(q) => Telling(q, u)
    BY <2>6 DEF Local, q
  <2>9. Tellable(asked[r], u)'
    BY <2>4 DEF Tellable, p
  <2>10. u \in Chat!Kept(q) => Telling(asked[r], u)'
    BY <2>1, <2>2, <2>4, <2>5, <2>8 DEF Telling, p
  <2>11. room' # None => Once(room', u)
    BY <2>1, <2>2, <2>5, <2>8 DEF Telling
  <2>12. Local(r, u)'
    BY <2>6, <2>9, <2>10, <2>11 DEF Local, p
  <2>13. QED
    BY <2>1, <2>2, <2>3, <2>5, <2>6, <2>7, <2>12 DEF Reports, p, q
<1>3. CASE Chat!JoinSets(r) \/ Chat!Enqueue(r)
  <2>1. /\ feed' = feed /\ room' = room
        /\ \/ /\ With(q, p, IF q.todo = {"sets"} THEN "enqueue" ELSE q.pc, q.snap, q.who, q.todo \ {"sets"})
              /\ q.pc = "join"
           \/ To(q, p, "tellkept") /\ q.pc = "enqueue"
    <3>1. CASE Chat!JoinSets(r)
      BY <3>1, SharesTo DEF Chat!JoinSets, Chat!Steps
    <3>2. CASE Chat!Enqueue(r)
      BY <3>2, GoesTo DEF Chat!Enqueue, Chat!Steps
    <3>3. QED
      BY <1>3, <3>1, <3>2
  <2>2. Chat!InRoom' = Chat!InRoom
    BY <2>1, RoomAlone
  <2> HIDE DEF q, p
  <2>3. /\ p.snap = q.snap /\ p.op = q.op /\ p.user = q.user /\ p.who = q.who
        /\ \/ p.pc = "enqueue" /\ "doc" \notin q.todo /\ q.pc = "join"
           \/ p.pc = "join" /\ p.todo = q.todo \ {"sets"} /\ q.pc = "join"
           \/ p.pc = "tellkept" /\ q.pc = "enqueue"
    BY <1>1, <2>1 DEF With, To
  <2>4. Chat!Kept(p) = Chat!Kept(q) /\ Chat!Gone(p) = {} /\ Chat!Gone(q) = {}
    BY <1>1, <2>3, SameTold DEF Chat!Gone
  <2>5. Tellable(asked[r], u)'
    BY <2>3 DEF Tellable, p
  <2>6. Telling(asked[r], u) => Telling(asked[r], u)'
    BY <1>1, <2>1, <2>2, <2>3, <2>4 DEF Telling, p, q
  <2>7. QED
    BY <1>1, <2>1, <2>2, <2>3, <2>5, <2>6, ReportsOn DEF Tellers, Once, p, q
<1>4. QED
  BY <1>2, <1>3

\* A changed role, name or nickname is announced to those the new copy shows.
LEMMA ReportsEdit ==
  ASSUME Types, ShapeInv, NEW r \in Requests, NEW u \in Guests, Local(r, u),
         Chat!ChangeRole(r) \/ Chat!Edit(r)
  PROVE  Reports(r, u)
<1> DEFINE q == asked[r]
           p == asked'[r]
<1>1. q \in Chat!Request /\ asked \in [Requests -> Chat!Request] /\ Shape(q) /\ q.pc \in Stages(q.op)
      /\ \/ q.pc = "role" /\ Chat!ChangeRole(r)
         \/ q.pc = "edit" /\ Chat!Edit(r)
  BY DEF Types, ShapeInv, Shape, Chat!ChangeRole, Chat!Edit
<1>2. q.op \in {"role", "edit"} /\ (q.pc = "role" => q.role \in Chat!Roles)
  <2> HIDE DEF q
  <2>1. q.op = q.pc
    BY <1>1 DEF Stages, Gate
  <2>2. QED
    BY <1>1, <2>1 DEF Shape
<1>3. /\ Chat!InRoom' = Chat!InRoom /\ (room' = None <=> room = None)
      /\ room' # None /\ Once(room, u) => Once(room', u)
  <2>1. CASE Chat!ChangeRole(r)
    BY <1>2, <2>1, Regrading DEF Chat!ChangeRole
  <2>2. CASE Chat!Edit(r)
    <3>1. room' = room
      BY <2>2 DEF Chat!Edit, Chat!store
    <3>2. QED
      BY <3>1, RoomAlone DEF Once
  <2>3. QED
    BY <1>1, <2>1, <2>2
<1>4. feed' = feed
  BY <1>1 DEF Chat!ChangeRole, Chat!Edit
<1>5. \/ p = Chat!Idle
      \/ room' # None /\ p = [q EXCEPT !.pc = "tellkept", !.snap = room']
  <2>1. CASE Chat!ChangeRole(r)
    BY <1>1, <1>3, <2>1, EndsIdle DEF Chat!ChangeRole
  <2>2. CASE Chat!Edit(r)
    <3>1. room' = room
      BY <2>2 DEF Chat!Edit, Chat!store
    <3>2. QED
      BY <1>1, <2>2, <3>1, EndsIdle DEF Chat!Edit
  <2>3. QED
    BY <1>1, <2>1, <2>2
<1> HIDE DEF q, p
<1>6. \/ p.pc = "idle"
      \/ room' # None /\ p.pc = "tellkept" /\ p.op = q.op /\ p.snap = room'
  <2>1. CASE p = Chat!Idle
    BY <2>1 DEF Chat!Idle
  <2>2. CASE room' # None /\ p = [q EXCEPT !.pc = "tellkept", !.snap = room']
    BY <1>1, <2>2 DEF Chat!Request
  <2>3. QED
    BY <1>5, <2>1, <2>2
<1>7. Chat!Tells(q) = {}
  BY <1>1, ToldBy DEF Tellers
<1>8. Tellable(asked[r], u)'
  BY <1>6 DEF Tellable, p
<1>9. CASE p.pc = "idle"
  <2>1. Chat!Tells(p) = {}
    BY <1>9, ToldBy DEF Tellers
  <2>2. Local(r, u)'
    BY <1>3, <1>8, <2>1 DEF Local, p
  <2>3. QED
    BY <1>3, <1>4, <1>7, <2>2 DEF Reports, q
<1>10. CASE room' # None /\ p.pc = "tellkept" /\ p.op = q.op /\ p.snap = room'
  <2>1. Chat!Kept(p) = Chat!InRoom /\ Chat!Gone(p) = {}
    BY <1>2, <1>3, <1>10 DEF Chat!Kept, Chat!Gone, Chat!InRoom
  <2>2. Telling(asked[r], u)'
    BY <1>3, <1>10, <2>1 DEF Telling, p
  <2>3. Local(r, u)'
    BY <1>3, <1>8, <2>2 DEF Local
  <2>4. QED
    BY <1>3, <1>4, <1>7, <2>3 DEF Reports, q
<1>11. QED
  BY <1>6, <1>9, <1>10

\* The words themselves.
LEMMA ReportsTell ==
  ASSUME Types, ShapeInv, NEW r \in Requests, NEW u \in Guests, Local(r, u),
         Chat!TellGone(r) \/ Chat!TellKept(r)
  PROVE  Reports(r, u)
<1> DEFINE q == asked[r]
           p == asked'[r]
<1>1. /\ room' = room /\ q.pc \in Stages(q.op)
      /\ \/ q.pc = "tellgone" /\ Chat!TellGone(r)
         \/ q.pc = "tellkept" /\ Chat!TellKept(r)
  BY DEF ShapeInv, Shape, Chat!TellGone, Chat!TellKept, Chat!store
<1>2. Chat!InRoom' = Chat!InRoom
  BY <1>1, RoomAlone
<1>3. Chat!Tells(q) = Chat!Gone(q) \union Chat!Kept(q)
  BY <1>1, ToldBy DEF Tellers
<1>4. u \in Chat!Tells(q) => Telling(q, u)
  BY DEF Local
<1>5. CASE Chat!TellGone(r)
  <2>1. /\ feed'[u] = IF u \in Chat!Gone(q) THEN "removed" ELSE feed[u]
        /\ \/ Chat!Kept(q) = {} /\ p = Chat!Idle
           \/ Chat!Kept(q) # {} /\ To(q, p, "tellkept")
    BY <1>5, EndsIdle, GoesTo DEF Chat!TellGone, Chat!Steps
  <2>2. q.pc = "tellgone"
    BY <1>5 DEF Chat!TellGone
  <2> HIDE DEF q, p
  <2>3. q.op \in {"leave", "kick", "clear"} /\ (q.op = "clear" => Chat!Kept(q) = {})
    BY <1>1, <2>2 DEF Stages, Gate, Chat!Kept
  <2>4. CASE Chat!Kept(q) = {} /\ p = Chat!Idle
    <3>1. p.pc = "idle" /\ Chat!Tells(p) = {}
      BY <2>4, ToldBy DEF Chat!Idle, Tellers
    <3>2. Tellable(asked[r], u)'
      BY <3>1 DEF Tellable, p
    <3>3. Local(r, u)'
      BY <1>1, <3>1, <3>2 DEF Local, Once, q, p
    <3>4. QED
      BY <1>1, <1>2, <1>3, <2>1, <2>4, <3>3 DEF Reports, q, p
  <2>5. CASE Chat!Kept(q) # {} /\ To(q, p, "tellkept")
    <3>1. p.pc = "tellkept" /\ p.op = q.op /\ p.user = q.user /\ p.who = q.who /\ p.snap = q.snap
      BY <2>5 DEF To, With
    <3>2. Chat!Kept(p) = Chat!Kept(q) /\ Chat!Gone(p) = Chat!Gone(q)
      BY <3>1, SameTold
    <3>3. Chat!Tells(p) = Chat!Tells(q)
      BY <1>3, <3>1, <3>2, ToldBy DEF Tellers
    <3>4. Tellable(asked[r], u)'
      BY <3>1 DEF Tellable, p
    <3>5. u \in Chat!Tells(q) => Telling(asked[r], u)'
      BY <1>2, <1>4, <2>1, <2>2, <2>3, <2>5, <3>1, <3>2 DEF Telling, p
    <3>6. Local(r, u)'
      BY <1>1, <3>3, <3>4, <3>5 DEF Local, Once, q, p
    <3>7. QED
      BY <1>1, <1>2, <1>3, <2>1, <3>3, <3>6 DEF Reports, q, p
  <2>6. QED
    BY <2>1, <2>4, <2>5
<1>6. CASE Chat!TellKept(r)
  <2>1. /\ feed'[u] = IF u \in Chat!Kept(q) THEN "upserted" ELSE feed[u]
        /\ p = Chat!Idle /\ q.pc = "tellkept"
    BY <1>6, EndsIdle DEF Chat!TellKept
  <2>2. p.pc = "idle" /\ Chat!Tells(p) = {}
    BY <2>1, ToldBy DEF Chat!Idle, Tellers
  <2> HIDE DEF q, p
  <2>3. Tellable(asked[r], u)'
    BY <2>2 DEF Tellable, p
  <2>4. Local(r, u)'
    BY <1>1, <2>2, <2>3 DEF Local, Once, q, p
  <2>5. feed'[u] = "upserted" => u \in Chat!InRoom \/ (feed[u] = "upserted" /\ u \notin Chat!Tells(q))
    BY <1>3, <1>4, <2>1 DEF Telling
  <2>6. QED
    BY <1>1, <1>2, <2>4, <2>5 DEF Reports, q
<1>7. QED
  BY <1>1, <1>5, <1>6

\* The copy a request takes shows whom it moves and tells.
LEMMA ReportsRead ==
  ASSUME Types, ShapeInv, NEW r \in Requests, NEW u \in Guests, Local(r, u),
         Chat!Read(r), u \notin feedMixed'
  PROVE  Reports(r, u)
<1> DEFINE q == asked[r]
           p == asked'[r]
<1>1. /\ q.pc = "read" /\ Shape(q)
      /\ \/ p = Chat!Idle
         \/ /\ room # None /\ q.op = "leave" /\ q.user \in Chat!UsersOf(room)
            /\ With(q, p, "pull", room, q.who, q.todo)
         \/ /\ room # None /\ q.op = "kick"
            /\ With(q, p, "kick", room, q.who, {"doc", "sets"})
         \/ /\ room # None /\ q.op = "add"
            /\ With(q, p, "join", room, q.who \ Chat!UsersOf(room), {"doc", "sets"})
         \/ /\ room # None /\ q.op \in {"role", "edit"} /\ To(q, p, q.op)
         \/ /\ room # None /\ q.op = "pin" /\ To(q, p, "tellkept")
         \/ /\ room # None /\ q.op = "clear" /\ To(q, p, "tellgone")
  BY ReadsTo DEF ShapeInv
<1>2. /\ room' = room /\ feed' = feed
      /\ q.op = "pin" => {q.user} \ Chat!InRoom \subseteq feedMixed'
  BY DEF Chat!Read, Chat!store, Chat!Record
<1>3. /\ Chat!InRoom' = Chat!InRoom
      /\ room # None => Chat!InRoom = Chat!UsersOf(room) /\ room \in Seq(Entry) /\ Once(room, u)
  BY <1>2, RoomAlone DEF Chat!InRoom, Types, StoreTypes, Local
<1> HIDE DEF q, p
<1>4. Chat!Tells(q) = {}
  BY <1>1, ToldBy DEF Tellers
<1>5. Chat!Tells(p) = IF p.pc \in Tellers THEN Chat!Gone(p) \union Chat!Kept(p) ELSE {}
  BY ToldBy
<1>6. SUFFICES (u \in Chat!Holds(p) => Tellable(asked[r], u)')
               /\ (u \in Chat!Tells(p) => Telling(asked[r], u)')
  <2>1. ASSUME u \in Chat!Holds(p) => Tellable(asked[r], u)',
               u \in Chat!Tells(p) => Telling(asked[r], u)'
        PROVE  Reports(r, u)
    <3>1. Local(r, u)'
      BY <1>2, <1>3, <2>1 DEF Local, Once, p
    <3>2. QED
      BY <1>2, <1>3, <1>4, <3>1 DEF Reports, q
  <2>2. QED
    BY <2>1
<1>7. CASE p = Chat!Idle
  <2>1. p.pc = "idle"
    BY <1>7 DEF Chat!Idle
  <2>2. QED
    BY <1>5, <2>1 DEF Tellable, Tellers, p
<1>8. CASE /\ room # None /\ q.op = "leave" /\ q.user \in Chat!UsersOf(room)
           /\ With(q, p, "pull", room, q.who, q.todo)
  <2>1. /\ p.pc = "pull" /\ p.op = "leave" /\ p.user = q.user /\ p.snap = room
    BY <1>8 DEF With
  <2>2. Tellable(asked[r], u)'
    BY <1>3, <1>8, <2>1 DEF Tellable, p
  <2>3. Chat!Kept(p) \subseteq Chat!UsersOf(Chat!Others(room, q.user))
    BY <2>1 DEF Chat!Kept
  <2>4. /\ Chat!UsersOf(Chat!Others(room, q.user)) \subseteq Chat!UsersOf(room)
        /\ Once(room, q.user) => q.user \notin Chat!UsersOf(Chat!Others(room, q.user))
    BY <1>3, <1>8, OthersOf
  <2>5. u \in Chat!Kept(p) => u # q.user /\ u \in Chat!InRoom
    BY <1>3, <1>8, <2>3, <2>4
  <2>6. Telling(asked[r], u)'
    BY <1>3, <2>1, <2>5 DEF Telling, p
  <2>7. QED
    BY <2>2, <2>6
<1>9. CASE /\ room # None /\ q.op = "kick"
           /\ With(q, p, "kick", room, q.who, {"doc", "sets"})
  <2>1. p.pc = "kick" /\ p.op = "kick" /\ p.snap = room /\ p.todo = {"doc", "sets"}
    BY <1>9 DEF With
  <2>2. Chat!Kept(p) \subseteq Chat!UsersOf(room)
    BY <2>1 DEF Chat!Kept
  <2>3. QED
    BY <1>3, <1>9, <2>1, <2>2 DEF Tellable, Telling, p
<1>10. CASE /\ room # None /\ q.op = "add"
            /\ With(q, p, "join", room, q.who \ Chat!UsersOf(room), {"doc", "sets"})
  <2>1. /\ p.pc = "join" /\ p.op = "add" /\ p.snap = room /\ p.todo = {"doc", "sets"}
        /\ p.who = q.who \ Chat!UsersOf(room)
    BY <1>10 DEF With
  <2>2. Chat!Kept(p) = Chat!UsersOf(room) \union p.who /\ Chat!Gone(p) = {}
    BY <2>1 DEF Chat!Kept, Chat!Gone
  <2>3. QED
    BY <1>2, <1>3, <1>10, <2>1, <2>2 DEF Tellable, Telling, p
<1>11. CASE room # None /\ q.op \in {"role", "edit"} /\ To(q, p, q.op)
  <2>1. p.pc \in {"role", "edit"}
    BY <1>11 DEF To, With
  <2>2. QED
    BY <1>5, <2>1 DEF Tellable, Tellers, p
<1>12. CASE room # None /\ q.op = "pin" /\ To(q, p, "tellkept")
  <2>1. p.pc = "tellkept" /\ p.op = "pin" /\ p.user = q.user
    BY <1>12 DEF To, With
  <2>2. Chat!Kept(p) = {q.user} /\ Chat!Gone(p) = {}
    BY <2>1 DEF Chat!Kept, Chat!Gone
  <2>3. u = q.user => u \in Chat!InRoom
    BY <1>2, <1>12
  <2>4. QED
    BY <1>3, <2>1, <2>2, <2>3 DEF Tellable, Telling, p
<1>13. CASE room # None /\ q.op = "clear" /\ To(q, p, "tellgone")
  <2>1. p.pc = "tellgone" /\ p.op = "clear"
    BY <1>13 DEF To, With
  <2>2. Chat!Kept(p) = {}
    BY <2>1 DEF Chat!Kept
  <2>3. QED
    BY <2>1, <2>2 DEF Tellable, Telling, p
<1>14. QED
  BY <1>1, <1>7, <1>8, <1>9, <1>10, <1>11, <1>12, <1>13

\* The founding of the room tells its first members.
LEMMA FeedCreate ==
  ASSUME Types, Types', ShapeInv, Fresh, FeedInv, feedMixed \subseteq feedMixed',
         NEW r \in Requests, Chat!Create(r), Becomes(r, asked'[r])
  PROVE  FeedInv'
<1> DEFINE q == asked[r]
           p == asked'[r]
<1>1. q.pc = "create" /\ feed' = feed
  BY DEF Chat!Create
<1>2. p.pc = "join" /\ p.op = q.op /\ p.user = q.user /\ p.who = q.who /\ p.todo = {"sets"}
  <2>1. q \in Chat!Request /\ p = [q EXCEPT !.pc = "join", !.todo = {"sets"}]
    BY DEF Types, Chat!Create
  <2> HIDE DEF p, q
  <2>2. QED
    BY <2>1 DEF Chat!Request
<1>3. q.op = "create" /\ q.user \in Guests \ q.who
  <2>1. q.pc \in Stages(q.op) /\ q.user \in Guests /\ Shape(q)
    BY <1>1 DEF ShapeInv, Shape
  <2>2. q.op = "create"
    BY <1>1, <2>1 DEF Stages, Gate
  <2>3. QED
    BY <2>1, <2>2 DEF Shape
<1>4. room' # None /\ Chat!InRoom' = q.who \union {q.user} /\ Distinct(room')
  BY <1>3, Founding
<1>5. room = None /\ \A s \in Requests : asked[s].pc \in {"idle", "create"}
  BY <1>1 DEF Fresh, Types
<1>6. \A s \in Requests : Chat!Tells(asked[s]) = {}
  BY <1>5, ToldBy DEF Tellers
<1>7. \A s \in Requests \ {r} : asked'[s].pc \in {"idle", "create"} /\ Chat!Tells(asked'[s]) = {}
  BY <1>5, <1>6 DEF Becomes
<1> HIDE DEF p, q
<1>8. Chat!Kept(p) = q.who \union {q.user} /\ Chat!Gone(p) = {}
  BY <1>2, <1>3 DEF Chat!Kept, Chat!Gone
<1>9. ASSUME NEW u \in Guests \ feedMixed'
      PROVE  /\ feed'[u] # "upserted"
             /\ \A s \in Requests : Local(s, u)'
  <2>1. feed'[u] # "upserted"
    <3>1. Chat!InRoom = {}
      BY <1>5 DEF Chat!InRoom
    <3>2. QED
      BY <1>1, <1>6, <3>1 DEF FeedInv
  <2>2. Once(room', u)
    BY <1>4 DEF Distinct
  <2>3. ASSUME NEW s \in Requests PROVE Local(s, u)'
    <3>1. CASE s = r
      <4>1. Tellable(asked[r], u)'
        BY <1>2 DEF Tellable, p
      <4>2. Telling(asked[r], u)'
        BY <1>2, <1>4, <1>8 DEF Telling, p
      <4>3. QED
        BY <2>2, <3>1, <4>1, <4>2 DEF Local, Once
    <3>2. CASE s # r
      <4>1. Tellable(asked[s], u)'
        BY <1>7, <3>2 DEF Tellable
      <4>2. Chat!Tells(asked'[s]) = {}
        BY <1>7, <3>2
      <4>3. QED
        BY <2>2, <4>1, <4>2 DEF Local, Once
    <3>3. QED
      BY <3>1, <3>2
  <2>4. QED
    BY <2>1, <2>3
<1>10. \A u \in Guests \ feedMixed' : Once(room', u)
  BY <1>4 DEF Distinct
<1>11. QED
  BY <1>9, <1>10 DEF FeedInv, Once

\* A step of one request, and what it makes of the words the others tell.
LEMMA FeedMoves ==
  ASSUME FeedInv, Apart, Apart', feedMixed \subseteq feedMixed', NEW r \in Requests,
         Becomes(r, asked'[r]), NEW u \in Guests \ feedMixed', Reports(r, u)
  PROVE  /\ feed'[u] = "upserted" => u \in Chat!InRoom' \/ \E s \in Requests : u \in Chat!Tells(asked'[s])
         /\ room' # None => Once(room', u)
         /\ \A s \in Requests : Local(s, u)'
<1>1. /\ feed[u] = "upserted" => u \in Chat!InRoom \/ \E s \in Requests : u \in Chat!Tells(asked[s])
      /\ \A s \in Requests : Local(s, u)
  BY DEF FeedInv
<1>2. \A s \in Requests \ {r} : asked'[s] = asked[s]
  BY DEF Becomes
<1>3. \A s, t \in Requests : s # t => ~ (u \in Chat!Holds(asked[s]) /\ u \in Chat!Tells(asked[t]))
  BY DEF Apart
<1>4. room' # None => Once(room', u)
  BY DEF Reports, Local, Once
<1>5. ASSUME NEW s \in Requests \ {r} PROVE Local(s, u)'
  <2>1. asked'[s] = asked[s] /\ Local(s, u)
    BY <1>1, <1>2
  <2>2. ASSUME u \in Chat!Holds(asked[s]) PROVE Tellable(asked[s], u)'
    <3>1. u \in Chat!InRoom' <=> u \in Chat!InRoom
      BY <1>3, <2>2 DEF Reports
    <3>2. QED
      BY <2>1, <2>2, <3>1 DEF Local, Tellable
  <2>3. ASSUME u \in Chat!Tells(asked[s]) PROVE Telling(asked[s], u)'
    <3>1. /\ u \in Chat!InRoom' <=> u \in Chat!InRoom
          /\ room # None => room' # None
      BY <1>3, <2>3 DEF Reports
    <3>2. u \notin Chat!InRoom /\ feed'[u] = "upserted" => feed[u] = "upserted"
      BY DEF Reports
    <3>3. Telling(asked[s], u)
      BY <2>1, <2>3 DEF Local
    <3>4. QED
      BY <2>1, <3>1, <3>2, <3>3 DEF Telling
  <2>4. QED
    BY <1>4, <2>1, <2>2, <2>3 DEF Local, Once
<1>6. Local(r, u)'
  BY DEF Reports
<1>7. ASSUME feed'[u] = "upserted", u \notin Chat!InRoom', u \notin Chat!Tells(asked'[r])
      PROVE  \E s \in Requests : u \in Chat!Tells(asked'[s])
  <2>1. feed[u] = "upserted" /\ u \notin Chat!InRoom /\ u \notin Chat!Tells(asked[r])
    BY <1>7 DEF Reports
  <2>2. PICK s \in Requests : u \in Chat!Tells(asked[s])
    BY <1>1, <2>1
  <2>3. s # r
    BY <2>1, <2>2
  <2>4. QED
    BY <1>2, <2>2, <2>3
<1>8. QED
  BY <1>4, <1>5, <1>6, <1>7

LEMMA FeedKept ==
  ASSUME Types, Types', ShapeInv, Fresh, Apart, FeedInv, Chat!Next
  PROVE  FeedInv'
<1>1. Apart' /\ feedMixed \subseteq feedMixed'
  BY ApartKept
<1>2. ASSUME NEW r \in Requests, Becomes(r, asked'[r]), \A u \in Guests \ feedMixed' : Reports(r, u)
      PROVE  FeedInv'
  <2>1. ASSUME NEW u \in Guests \ feedMixed'
        PROVE  /\ feed'[u] = "upserted" => u \in Chat!InRoom' \/ \E s \in Requests : u \in Chat!Tells(asked'[s])
               /\ room' # None => Once(room', u)
               /\ \A s \in Requests : Local(s, u)'
    <3>1. Reports(r, u)
      BY <1>2, Zenon
    <3>2. QED
      BY <1>1, <1>2, <3>1, FeedMoves
  <2>2. QED
    BY <2>1 DEF FeedInv, Once
<1>3. ASSUME NEW r \in Requests, Chat!Step(r) PROVE FeedInv'
  <2>1. Becomes(r, asked'[r])
    BY <1>3, StepShapes
  <2>2. CASE Chat!Create(r)
    BY <1>1, <2>1, <2>2, FeedCreate
  <2>3. CASE ~ Chat!Create(r)
    <3>1. ASSUME NEW u \in Guests \ feedMixed' PROVE Reports(r, u)
      <4>1. Local(r, u)
        BY <1>1 DEF FeedInv
      <4>2. QED
        BY <1>3, <2>3, <4>1, ReportsQuietly, ReportsLeave, ReportsPull, ReportsDelete, ReportsKick,
           ReportsJoin, ReportsEdit, ReportsTell, ReportsRead DEF Chat!Step
    <3>2. QED
      BY <1>2, <2>1, <3>1
  <2>4. QED
    BY <2>2, <2>3
<1>4. ASSUME NEW r \in Requests, Becomes(r, asked'[r]), UNCHANGED <<room, feed>>,
             \A u \in Guests \ feedMixed' : u \notin Chat!Tells(asked[r]),
             asked'[r].pc \in {"idle", "create", "scan", "read", "exists"}
      PROVE  FeedInv'
  <2>1. ASSUME NEW u \in Guests \ feedMixed' PROVE Reports(r, u)
    <3>1. Chat!InRoom' = Chat!InRoom /\ u \notin Chat!Tells(asked[r]) /\ Chat!Tells(asked'[r]) = {}
      BY <1>4, RoomAlone, ToldBy DEF Tellers
    <3>2. Local(r, u)
      BY <1>1 DEF FeedInv
    <3>3. Tellable(asked[r], u)'
      BY <1>4 DEF Tellable
    <3>4. Local(r, u)'
      BY <1>4, <3>1, <3>2, <3>3 DEF Local, Once
    <3>5. QED
      BY <1>4, <3>1, <3>4 DEF Reports
  <2>2. QED
    BY <1>2, <1>4, <2>1
<1>5. ASSUME NEW r \in Requests, Chat!Abort(r) PROVE FeedInv'
  <2>1. Becomes(r, asked'[r]) /\ asked'[r].pc = "idle" /\ UNCHANGED <<room, feed>>
    BY <1>5, OtherTypes DEF Becomes, Chat!store, Chat!Idle
  <2>2. Chat!Tells(asked[r]) \subseteq feedMixed'
    BY <1>5 DEF Chat!Abort, Chat!Record
  <2>3. QED
    BY <1>4, <2>1, <2>2
<1>6. ASSUME NEW r \in Requests, Becomes(r, asked'[r]), UNCHANGED <<room, feed>>,
             asked[r] = Chat!Idle, asked'[r].pc \in {"create", "scan", "read", "exists"}
      PROVE  FeedInv'
  <2>1. Chat!Tells(asked[r]) = {}
    BY <1>6, ToldBy DEF Chat!Idle, Tellers
  <2>2. QED
    BY <1>4, <1>6, <2>1
<1>7. ASSUME NEW r \in Requests, NEW u \in Guests, Chat!CallCreate(r, u) PROVE FeedInv'
  BY <1>6, <1>7, Starting DEF Chat!store
<1>8. ASSUME NEW r \in Requests, NEW u \in Guests, Chat!Connect(r, u) PROVE FeedInv'
  BY <1>6, <1>8, Connecting DEF Chat!store
<1>9. ASSUME NEW r \in Requests, NEW u \in Guests, NEW op \in AllOps, Chat!Call(r, u, op) PROVE FeedInv'
  BY <1>6, <1>9, Calling DEF Chat!store
<1>10. ASSUME UNCHANGED <<room, feed, asked>> PROVE FeedInv'
  <2>1. Chat!InRoom' = Chat!InRoom
    BY <1>10, RoomAlone
  <2>2. ASSUME NEW u \in Guests \ feedMixed, NEW r \in Requests, Local(r, u) PROVE Local(r, u)'
    BY <1>10, <2>1, <2>2 DEF Local, Once, Tellable, Telling
  <2>3. \A u \in Guests \ feedMixed, r \in Requests : Local(r, u)
    BY DEF FeedInv
  <2>4. \A u \in Guests \ feedMixed, r \in Requests : Local(r, u)'
    BY <2>2, <2>3
  <2>5. QED
    BY <1>1, <1>10, <2>1, <2>4 DEF FeedInv, Once
<1>11. ASSUME NEW i \in DOMAIN queued, Chat!RunJob(i) PROVE FeedInv'
  BY <1>10, <1>11, OtherTypes
<1>12. ASSUME Chat!Flush PROVE FeedInv'
  BY <1>10, <1>12, OtherTypes
<1>13. QED
  BY <1>3, <1>5, <1>7, <1>8, <1>9, <1>11, <1>12 DEF Chat!Next

-------------------------------------------------------------------------------
(* The theorems *)

\* The inductive invariant: what the requests know of themselves, and what they and
\* the document, the sets and the feed know of each other.
Parts == Types /\ ShapeInv /\ Fresh /\ LeadInv /\ Apart /\ SetInv /\ FeedInv

IInv == part = "chat" => Parts

LEMMA PartsInit ==
  ASSUME Chat!Init
  PROVE  Parts
<1>1. /\ room = None /\ members = {} /\ pair = {} /\ rooms = {} /\ warm = {} /\ synced = {}
      /\ queued = <<>> /\ feed = [u \in Guests |-> None] /\ asked = [r \in Requests |-> Chat!Idle]
      /\ steps = 0 /\ mixed = {} /\ feedMixed = {} /\ unled = FALSE
  BY DEF Chat!Init
<1>2. \A r \in Requests : asked[r] = Chat!Idle
  BY <1>1
<1>3. Chat!Idle \in Chat!Request
  <2>1. <<>> \in Seq(Chat!Member)
    OBVIOUS
  <2>2. QED
    BY <2>1 DEF Chat!Idle, Chat!Request, Chat!Steps
<1>4. Types
  <2>1. asked \in [Requests -> Chat!Request]
    BY <1>1, <1>3
  <2>2. feed \in [Guests -> {None, "upserted", "removed"}]
    BY <1>1
  <2>3. queued \in Seq(SUBSET Guests) /\ steps \in 0..MaxSteps
    BY <1>1, Assumed
  <2>4. QED
    BY <1>1, <2>1, <2>2, <2>3 DEF Types, StoreTypes
<1>5. ShapeInv
  BY <1>2, IdleShape DEF ShapeInv
<1>6. /\ Chat!Idle.pc = "idle" /\ Chat!Holds(Chat!Idle) = {} /\ Chat!Tells(Chat!Idle) = {}
  BY ToldBy DEF Chat!Idle, Chat!Holds, Tellers
<1>7. Chat!InRoom = {} /\ Chat!Queued = {}
  BY <1>1 DEF Chat!InRoom, Chat!Queued
<1>8. Fresh
  BY <1>1, <1>2, <1>6 DEF Fresh
<1>9. LeadInv
  BY <1>1, <1>2, <1>6, <1>7 DEF LeadInv
<1>10. Apart
  BY <1>2, <1>6 DEF Apart
<1>11. SetInv
  BY <1>1, <1>2, <1>6, <1>7 DEF SetInv, Follows, Loaded
<1>12. FeedInv
  <2>1. \A u \in Guests : feed[u] # "upserted"
    BY <1>1, Assumed
  <2>2. QED
    BY <1>1, <1>2, <1>6, <2>1 DEF FeedInv, Local
<1>13. QED
  BY <1>4, <1>5, <1>8, <1>9, <1>10, <1>11, <1>12 DEF Parts

LEMMA PartsKept ==
  ASSUME Parts, Chat!Next
  PROVE  Parts'
<1>1. Types' /\ ShapeInv'
  BY TypesKept DEF Parts
<1>2. QED
  BY <1>1, FreshKept, LeadKept, ApartKept, SetKept, FeedKept DEF Parts

LEMMA PartsRest ==
  ASSUME Parts, UNCHANGED chat
  PROVE  Parts'
<1>1. /\ room' = room /\ members' = members /\ pair' = pair /\ rooms' = rooms /\ warm' = warm
      /\ synced' = synced /\ queued' = queued /\ feed' = feed /\ asked' = asked
      /\ steps' = steps /\ mixed' = mixed /\ feedMixed' = feedMixed /\ unled' = unled
  BY DEF chat
<1>2. Chat!InRoom' = Chat!InRoom /\ Chat!Admins' = Chat!Admins
  BY <1>1, RoomAlone
<1>3. Chat!Queued' = Chat!Queued
  BY <1>1 DEF Chat!Queued
<1>4. Chat!Held' = Chat!Held
  BY <1>1, <1>3 DEF Chat!Held
<1>5. Types' /\ ShapeInv' /\ Fresh'
  BY <1>1 DEF Parts, Types, StoreTypes, ShapeInv, Fresh
<1>6. LeadInv' /\ Apart'
  BY <1>1, <1>2, <1>3 DEF Parts, LeadInv, Distinct, Once, Apart
<1>7. SetInv'
  BY <1>1, <1>2, <1>3, <1>4 DEF Parts, SetInv, Follows, Loaded, Keeps
<1>8. FeedInv'
  BY <1>1, <1>2 DEF Parts, FeedInv, Local, Once, Tellable, Telling
<1>9. QED
  BY <1>5, <1>6, <1>7, <1>8 DEF Parts

LEMMA RoomsInvariant == AllSpec => []IInv
<1>1. AllInit => IInv
  BY PartsInit DEF AllInit, IInv
<1>2. IInv /\ [AllNext]_allVars => IInv'
  <2>1. ASSUME IInv, part = "chat" /\ Chat!Next, UNCHANGED part PROVE IInv'
    BY <2>1, PartsKept DEF IInv
  <2>2. ASSUME IInv, UNCHANGED chat, UNCHANGED part PROVE IInv'
    BY <2>2, PartsRest DEF IInv
  <2>3. QED
    BY <2>1, <2>2 DEF AllNext, allVars
<1>3. QED
  BY <1>1, <1>2, PTL DEF AllSpec

\* A group with members has an admin, whatever requests run side by side: it loses
\* its last one only to a demotion, a failure or a leaver's outdated copy.
THEOREM GroupIsLed == AllSpec => []AdminKept
<1>1. IInv => AdminKept
  BY DEF IInv, Parts, LeadInv, AdminKept, Chat!AdminKept
<1>2. QED
  BY <1>1, RoomsInvariant, PTL

\* Every variable has its type; ROOM_MEMBERS holds nobody the document does not, and
\* USER_ROOMS of a loaded user lacks no room, but while a request or a job is about
\* to write them or after two requests wrote the same user's entries.
THEOREM SetsAreRight == AllSpec => []SetsFollow
<1>1. IInv => SetsFollow
  <2>1. SUFFICES ASSUME IInv, part = "chat"
                 PROVE  Chat!TypeOK /\ Chat!SetFollowsRoom /\ Chat!LoadedRoomsAreComplete
    BY DEF SetsFollow
  <2>2. Types /\ ShapeInv /\ SetInv
    BY <2>1 DEF IInv, Parts
  <2>3. Chat!TypeOK
    BY <2>2, TypesSay
  <2>4. Chat!SetFollowsRoom
    BY <2>2 DEF Types, StoreTypes, SetInv, Follows, Chat!SetFollowsRoom
  <2>5. Chat!LoadedRoomsAreComplete
    BY <2>2 DEF Types, StoreTypes, SetInv, Loaded, Chat!LoadedRoomsAreComplete
  <2>6. QED
    BY <2>3, <2>4, <2>5
<1>2. QED
  BY <1>1, RoomsInvariant, PTL

\* Nobody who is out of the room was last told of having it, once the requests that
\* tell are done, unless one told what another was changing.
THEOREM LastWordTold == AllSpec => []LastWordIsRemoved
<1>1. IInv => LastWordIsRemoved
  BY DEF IInv, Parts, FeedInv, LastWordIsRemoved, Chat!LastWordIsRemoved
<1>2. QED
  BY <1>1, RoomsInvariant, PTL

\* The document goes only when no member is left in it, unless a leaver decided on an
\* outdated copy.
THEOREM NobodyDeleted == AllSpec => DeletesNobody
<1>1. IInv /\ [AllNext]_allVars
        => [room # None /\ room' = None => Chat!InRoom = {} \/ unled]_(Chat!vars)
  <2>1. ASSUME UNCHANGED chat PROVE UNCHANGED Chat!vars
    BY <2>1 DEF chat, Chat!vars, Chat!store, Chat!history
  <2>2. ASSUME Parts, Chat!Next, room # None, room' = None PROVE Chat!InRoom = {} \/ unled
    <3>1. ASSUME NEW r \in Requests, Chat!Step(r) PROVE Chat!InRoom = {} \/ unled
      <4>1. Chat!Delete(r)
        BY <2>2, <3>1, Deleting DEF Parts
      <4>2. QED
        BY <2>2, <4>1 DEF Parts, LeadInv, Chat!Delete
    <3>2. \A r \in Requests : ~ Chat!Abort(r)
      BY <2>2 DEF Chat!Abort, Chat!store
    <3>3. \A r \in Requests, u \in Guests : ~ Chat!CallCreate(r, u) /\ ~ Chat!Connect(r, u)
      BY <2>2 DEF Chat!CallCreate, Chat!Connect, Chat!store
    <3>4. \A r \in Requests, u \in Guests, op \in AllOps : ~ Chat!Call(r, u, op)
      BY <2>2 DEF Chat!Call, Chat!store
    <3>5. \A i \in DOMAIN queued : ~ Chat!RunJob(i)
      BY <2>2 DEF Chat!RunJob
    <3>6. ~ Chat!Flush
      BY <2>2 DEF Chat!Flush
    <3>7. QED
      BY <2>2, <3>1, <3>2, <3>3, <3>4, <3>5, <3>6 DEF Chat!Next
  <2>3. QED
    BY <2>1, <2>2 DEF IInv, AllNext, allVars
<1>2. QED
  BY <1>1, RoomsInvariant, PTL DEF AllSpec, DeletesNobody, Chat!DeletesNobody

-------------------------------------------------------------------------------
(* The search index (Embeddings): what a request holds while it is in progress. *)

\* At each step a request knows its item, and from the summary on its text.
Briefed(q) ==
  \/ q = Index!NoJob
  \/ /\ q.item \in Index!Items
     /\ q.pc \in {"saved", "asked"} /\ (q.item \in Files <=> q.text = None)
  \/ q.item \in Index!Replaced /\ q.pc \in {"clear", "vector", "store"} /\ q.text # None
  \/ q.item \in Msgs /\ q.pc \in {"exists", "vector", "hash", "store"} /\ q.text # None
  \/ q.item \in Files /\ q.pc \in {"tell", "send"}

\* Of an item whose requests never met there is one at most, and it has the item's
\* last text; between its Clear and its Store the item has no vector.
Led(q, i) ==
  /\ q.pc \in {"clear", "vector", "store"} => q.text = last[i]
  /\ q.pc \in {"saved", "asked"} /\ i \in Docs => q.text = last[i]
  /\ q.pc \in {"vector", "store"} /\ i \notin failed => Index!IndexOf(i) = {}
  /\ q.pc \in {"tell", "send"} /\ i \notin failed => Index!IndexOf(i) = {last[i]}
  /\ q.pc = "send" /\ i \notin failed => q.text = last[i]

Lone(i) ==
  /\ \A j, k \in Index!Open(i) : j = k
  /\ \A j \in Index!Open(i) : Led(task[j], i)

\* At rest it is found under that text.
Found(i) ==
  Index!Open(i) = {} /\ i \notin failed /\ last[i] # None
    => Index!IndexOf(i) = {last[i]} /\ (i \in Files => shown[i] = last[i])

\* An item without a vector waits for one that some request is about to store.
Coming(i) == \E j \in Index!Open(i) : task[j].pc \in {"saved", "asked", "clear", "vector", "store"}
Kept(i) == i \in failed \/ last[i] = None \/ Index!IndexOf(i) # {} \/ Coming(i)

SearchInv ==
  /\ Index!TypeOK
  /\ \A j \in Requests : Briefed(task[j])
  /\ \A i \in Index!Replaced \ met : Lone(i) /\ Found(i)
  /\ \A i \in Index!Replaced : Kept(i)

LEMMA IndexAssumed ==
  /\ Docs \intersect Files = {} /\ Docs \intersect Msgs = {} /\ Files \intersect Msgs = {}
  /\ None \notin Docs \union Files \union Msgs \union Texts
  /\ Short \subseteq Texts
  /\ MaxAsked \in Nat /\ MaxFaults \in Nat
BY InstancesAssumption DEF Index!ConstantsAssumption

LEMMA SearchInit == Index!Init => SearchInv
BY IndexAssumed
   DEF Index!Init, SearchInv, Index!TypeOK, Briefed, Lone, Found, Kept, Index!Open, Index!NoJob,
       Index!Job, Index!Items, Index!Replaced

\* A job goes on with another text.
LEMMA Rewritten ==
  ASSUME task \in [Requests -> Index!Job], NEW j \in Requests,
         NEW t \in Texts \union {None}, NEW p \in {"asked", "send"}
  PROVE  [task EXCEPT ![j].pc = p, ![j].text = t] \in [Requests -> Index!Job]
<1> DEFINE T == Texts \union {None}
           I == Index!Items \union {None}
<1> HIDE DEF T, I
<1>1. Index!Job = [pc : {"idle", "saved", "asked", "clear", "exists", "vector", "hash", "store",
                         "tell", "send"}, item : I, text : T]
  BY DEF Index!Job, T, I
<1>2. t \in T
  BY DEF T
<1>3. QED
  BY <1>1, <1>2

LEMMA SearchTypes ==
  ASSUME SearchInv, Index!Next
  PROVE  Index!TypeOK' /\ \A j \in Requests : Briefed(task[j])'
<1> USE IndexAssumed DEF Index!Items, Index!Replaced
<1>1. ASSUME NEW j \in Requests, NEW i \in Index!Items, NEW t \in Texts \union {None},
             Index!Ask(j, i, t)
      PROVE  Index!TypeOK' /\ \A k \in Requests : Briefed(task[k])'
  <2> DEFINE q == [pc |-> "saved", item |-> i, text |-> t]
  <2>1. task' = [task EXCEPT ![j] = q]
    BY <1>1 DEF Index!Ask, Index!NoJob
  <2>2. \A k \in Requests : task'[k] = IF k = j THEN q ELSE task[k]
    BY <1>1, <2>1 DEF SearchInv, Index!TypeOK, Index!Job
  <2>3. Briefed(q) /\ q \in [pc : {"saved"}, item : Index!Items, text : Texts \union {None}]
    BY <1>1 DEF Index!Ask, Briefed
  <2>4. \A k \in Requests : Briefed(task[k])'
    BY <1>1, <2>2, <2>3 DEF SearchInv, Briefed, Index!NoJob
  <2>5. last' \in [Index!Items -> Texts \union {None}] /\ met' \subseteq Index!Items
        /\ sought' \in 0..MaxAsked
    BY <1>1 DEF SearchInv, Index!TypeOK, Index!Job, Index!Ask
  <2> HIDE DEF q
  <2>6. task' \in [Requests -> Index!Job]
    BY <1>1, <2>1, <2>3 DEF SearchInv, Index!TypeOK, Index!Job
  <2>7. QED
    BY <1>1, <2>4, <2>5, <2>6 DEF SearchInv, Index!TypeOK, Index!Job, Index!Ask
<1>2. ASSUME NEW j \in Requests, Index!Step(j)
      PROVE  Index!TypeOK' /\ \A k \in Requests : Briefed(task[k])'
  <2> USE DEF SearchInv, Index!TypeOK, Index!Job, Briefed, Index!NoJob, Index!Finish, Index!Goto, Index!After
  <2>1. CASE Index!Summarise(j)  BY <2>1 DEF Index!Summarise
  <2>2. CASE Index!TooShort(j)  BY <2>2 DEF Index!TooShort
  <2>3. CASE Index!Screen(j)  BY <2>3 DEF Index!Screen
  <2>4. CASE Index!Take(j)  BY <2>4 DEF Index!Take
  <2>5. CASE Index!Clear(j)  BY <2>5 DEF Index!Clear, Index!Cleared, Index!Without
  <2>6. CASE Index!Exists(j)  BY <2>6 DEF Index!Exists
  <2>7. CASE Index!Embed(j)  BY <2>7 DEF Index!Embed
  <2>8. CASE Index!CheckHash(j)  BY <2>8 DEF Index!CheckHash
  <2>9. CASE Index!Store(j)  BY <2>9 DEF Index!Store
  <2>10. CASE Index!ReadSummary(j)
    <3>1. PICK t \in Texts \union {None} :
            task' = [task EXCEPT ![j].pc = "send", ![j].text = t]
      BY <2>10 DEF Index!ReadSummary, Index!IndexOf
    <3>2. Briefed(task[j])'
      BY <2>10, <3>1 DEF Index!ReadSummary
    <3>3. \A k \in Requests : k # j => task'[k] = task[k]
      BY <2>10, <3>1
    <3>4. task' \in [Requests -> Index!Job]
      BY <1>2, <3>1, Rewritten
    <3>5. Index!TypeOK'
      BY <2>10, <3>1, <3>3, <3>4 DEF Index!ReadSummary
    <3>6. QED
      BY <3>2, <3>3, <3>5
  <2>11. CASE Index!Broadcast(j)  BY <2>11 DEF Index!Broadcast
  <2>12. CASE Index!Fail(j)  BY <2>12 DEF Index!Fail
  <2>13. CASE Index!Redeliver(j)
    <3> DEFINE t == IF task[j].item \in Files THEN None ELSE task[j].text
    <3>1. task' = [task EXCEPT ![j].pc = "asked", ![j].text = t]
      BY <2>13 DEF Index!Redeliver
    <3>2. t \in Texts \union {None} /\ (task[j].item \in Files <=> t = None)
      BY <2>13 DEF Index!Redeliver
    <3> HIDE DEF t
    <3>3. Briefed(task[j])'
      BY <2>13, <3>1, <3>2 DEF Index!Redeliver
    <3>4. \A k \in Requests : k # j => task'[k] = task[k]
      BY <2>13, <3>1
    <3>5. task' \in [Requests -> Index!Job]
      BY <1>2, <3>1, <3>2, Rewritten
    <3>6. Index!TypeOK'
      BY <2>13, <3>1, <3>2, <3>5 DEF Index!Redeliver
    <3>7. QED
      BY <3>3, <3>4, <3>6
  <2>14. CASE Index!Emit(j)  BY <2>14 DEF Index!Emit
  <2>15. CASE Index!LoseEvent(j)  BY <2>15 DEF Index!LoseEvent
  <2>16. CASE Index!Untold(j)  BY <2>16 DEF Index!Untold
  <2>17. QED
    BY <1>2, <2>1, <2>2, <2>3, <2>4, <2>5, <2>6, <2>7, <2>8, <2>9, <2>10, <2>11, <2>12, <2>13,
       <2>14, <2>15, <2>16
       DEF Index!Step
<1>3. ASSUME Index!ClearAll PROVE Index!TypeOK' /\ \A k \in Requests : Briefed(task[k])'
  BY <1>3 DEF SearchInv, Index!TypeOK, Index!Job, Briefed, Index!ClearAll
<1>4. QED
  BY <1>1, <1>2, <1>3 DEF Index!Next

\* The vectors of an item change with its own requests alone, and when all are cleared.
LEMMA OthersStay ==
  ASSUME SearchInv, NEW j \in Requests, Index!Step(j), NEW i \in Index!Items, task[j].item # i
  PROVE  /\ \A k \in Requests : k # j => task'[k] = task[k]
         /\ task'[j].item # i
         /\ Index!Open(i)' = Index!Open(i) /\ Index!IndexOf(i)' = Index!IndexOf(i)
         /\ last'[i] = last[i] /\ (i \in Files => shown'[i] = shown[i])
         /\ (i \in failed' <=> i \in failed) /\ met' = met
<1> USE IndexAssumed DEF Index!Items, Index!Replaced
<1>1. /\ \A k \in Requests : k # j => task'[k] = task[k]
      /\ task'[j].item # i
  BY DEF Index!Step, SearchInv, Index!TypeOK, Index!Job, Index!NoJob, Index!Finish, Index!Goto, Index!After,
         Index!Summarise, Index!TooShort, Index!Screen, Index!Take, Index!Clear, Index!Exists,
         Index!Embed, Index!CheckHash, Index!Store, Index!ReadSummary, Index!Broadcast,
         Index!Fail, Index!Redeliver, Index!Emit, Index!LoseEvent, Index!Untold
<1>2. Index!Open(i)' = Index!Open(i)
  BY <1>1 DEF Index!Open
<1>3. Index!IndexOf(i)' = Index!IndexOf(i)
  BY DEF Index!Step, SearchInv, Index!TypeOK, Index!IndexOf, Index!Cleared, Index!Without,
         Index!Taken, Briefed,
         Index!Summarise, Index!TooShort, Index!Screen, Index!Take, Index!Clear, Index!Exists,
         Index!Embed, Index!CheckHash, Index!Store, Index!ReadSummary, Index!Broadcast,
         Index!Fail, Index!Redeliver, Index!Emit, Index!LoseEvent, Index!Untold
<1>4. /\ last'[i] = last[i] /\ (i \in Files => shown'[i] = shown[i])
      /\ (i \in failed' <=> i \in failed) /\ met' = met
  BY DEF Index!Step, SearchInv, Index!TypeOK, Index!Summarise, Index!TooShort, Index!Screen,
         Index!Take, Index!Clear, Index!Exists, Index!Embed, Index!CheckHash, Index!Store,
         Index!ReadSummary, Index!Broadcast, Index!Fail, Index!Redeliver, Index!Emit, Index!LoseEvent, Index!Untold
<1>5. QED
  BY <1>1, <1>2, <1>3, <1>4

\* One step of a request for an item, and what it does to that item.
LEMMA OwnStep ==
  ASSUME SearchInv, NEW j \in Requests, Index!Step(j), NEW i \in Index!Replaced, task[j].item = i
  PROVE  /\ \A k \in Requests : k # j => task'[k] = task[k]
         /\ task'[j].item = i \/ task'[j].item = None
         /\ i \in failed => i \in failed'
         /\ Kept(i)'
         /\ i \notin met /\ Lone(i) /\ Found(i) => Lone(i)' /\ Found(i)'
<1> USE IndexAssumed DEF Index!Items, Index!Replaced
<1> DEFINE Does == /\ \A k \in Requests : k # j => task'[k] = task[k]
                   /\ task'[j].item = i \/ task'[j].item = None
                   /\ i \in failed => i \in failed'
                   /\ Kept(i)'
                   /\ i \notin met /\ Lone(i) /\ Found(i) => Lone(i)' /\ Found(i)'
<1>0. /\ Index!TypeOK /\ Briefed(task[j]) /\ Kept(i) /\ j \in Index!Open(i)
      /\ i # None
  BY DEF SearchInv, Index!Open
<1> USE DEF Index!TypeOK, Index!Job, Briefed, Index!NoJob, Index!Finish, Index!Goto, Index!After,
            Kept, Coming, Lone, Found, Led, Index!Open, Index!IndexOf
<1>1. CASE Index!Summarise(j)  BY <1>0, <1>1 DEF Index!Summarise
<1>2. CASE Index!TooShort(j)  BY <1>0, <1>2 DEF Index!TooShort
<1>3. CASE Index!Screen(j)  BY <1>0, <1>3 DEF Index!Screen
<1>4. CASE Index!Take(j)  BY <1>0, <1>4 DEF Index!Take
<1>5. CASE Index!Clear(j)  BY <1>0, <1>5 DEF Index!Clear, Index!Cleared, Index!Without
<1>6. CASE Index!Exists(j)  BY <1>0, <1>6 DEF Index!Exists
<1>7. CASE Index!Embed(j)  BY <1>0, <1>7 DEF Index!Embed
<1>8. CASE Index!CheckHash(j)  BY <1>0, <1>8 DEF Index!CheckHash
<1>9. CASE Index!Store(j)
  <2>1. /\ \A k \in Requests : k # j => task'[k] = task[k]
        /\ task'[j].item = i \/ task'[j].item = None
        /\ task'[j].item = i => i \in Files /\ task'[j].pc = "tell"
        /\ task'[j].item = None => i \notin Files
        /\ i \in failed => i \in failed'
        /\ last' = last /\ shown' = shown
    BY <1>0, <1>9 DEF Index!Store
  <2>2. /\ task[j].text \in Texts
        /\ i \in failed' \/ Index!IndexOf(i)' = Index!IndexOf(i) \union {task[j].text}
    BY <1>0, <1>9 DEF Index!Store, Index!Taken
  <2>3. Kept(i)'
    BY <2>2
  <2>4. ASSUME i \notin met, Lone(i), Found(i) PROVE Lone(i)' /\ Found(i)'
    <3>0. task[j].pc = "store" /\ j \in Index!Open(i) /\ Led(task[j], i)
          /\ \A k \in Index!Open(i) : k = j
      BY <1>0, <1>9, <2>4 DEF Index!Store
    <3>1. (\A k \in Requests : task[k].item = i => k = j) /\ task[j].text = last[i]
      BY <3>0
    <3>2. i \notin failed => Index!IndexOf(i) = {}
      BY <1>0, <1>9, <2>4 DEF Index!Store
    <3>3. i \notin failed' => Index!IndexOf(i)' = {last'[i]}
      BY <2>1, <2>2, <3>1, <3>2
    <3>4. \A k \in Requests : task'[k].item = i => k = j
      BY <2>1, <3>1
    <3>5. Lone(i)'
      BY <2>1, <3>3, <3>4
    <3>6. Found(i)'
      BY <1>0, <2>1, <3>3
    <3>7. QED
      BY <3>5, <3>6
  <2>5. QED
    BY <2>1, <2>3, <2>4
<1>10. CASE Index!ReadSummary(j)  BY <1>0, <1>10 DEF Index!ReadSummary
<1>11. CASE Index!Broadcast(j)  BY <1>0, <1>11 DEF Index!Broadcast
<1>12. CASE Index!Fail(j)  BY <1>0, <1>12 DEF Index!Fail
<1>13. CASE Index!Redeliver(j)  BY <1>0, <1>13 DEF Index!Redeliver
<1>14. CASE Index!Emit(j)  BY <1>0, <1>14 DEF Index!Emit
<1>15. CASE Index!LoseEvent(j)  BY <1>0, <1>15 DEF Index!LoseEvent
<1>16. CASE Index!Untold(j)  BY <1>0, <1>16 DEF Index!Untold
<1>17. QED
  BY <1>1, <1>2, <1>3, <1>4, <1>5, <1>6, <1>7, <1>8, <1>9, <1>10, <1>11, <1>12, <1>13,
     <1>14, <1>15, <1>16
     DEF Index!Step

LEMMA SearchAsk ==
  ASSUME SearchInv, NEW j \in Requests, NEW i \in Index!Items, NEW t \in Texts \union {None},
         Index!Ask(j, i, t), NEW d \in Index!Replaced
  PROVE  Kept(d)' /\ (d \notin met' => Lone(d)' /\ Found(d)')
<1> USE IndexAssumed DEF Index!Items, Index!Replaced
<1>1. /\ \A k \in Requests : k # j => task'[k] = task[k]
      /\ task'[j] = [pc |-> "saved", item |-> i, text |-> t]
      /\ task[j].item = None
      /\ last' = IF i \in Files THEN last ELSE [last EXCEPT ![i] = t]
      /\ met' = IF Index!Open(i) = {} THEN met ELSE met \union {i}
      /\ index' = index /\ shown' = shown /\ failed' = failed
  BY DEF Index!Ask, SearchInv, Index!TypeOK, Index!Job, Briefed, Index!NoJob
<1>2. Kept(d) /\ (d \notin met => Lone(d) /\ Found(d)) /\ Index!TypeOK
  BY DEF SearchInv
<1>3. i \in Files <=> t = None
  BY DEF Index!Ask
<1>4. CASE d = i
  BY <1>1, <1>2, <1>3, <1>4
     DEF Kept, Coming, Lone, Found, Led, Index!Open, Index!IndexOf, Index!TypeOK
<1>5. CASE d # i
  <2>1. Index!Open(d)' = Index!Open(d) /\ Index!IndexOf(d)' = Index!IndexOf(d)
        /\ last'[d] = last[d] /\ \A k \in Index!Open(d) : task'[k] = task[k]
    BY <1>1, <1>2, <1>5 DEF Index!Open, Index!IndexOf, Index!TypeOK
  <2>2. QED
    BY <1>1, <1>2, <2>1 DEF Kept, Coming, Lone, Found, Led
<1>6. QED
  BY <1>4, <1>5

LEMMA SearchKept == SearchInv /\ Index!Next => SearchInv'
<1> SUFFICES ASSUME SearchInv, Index!Next PROVE SearchInv'
  OBVIOUS
<1>1. \A d \in Index!Replaced : Kept(d)' /\ (d \notin met' => Lone(d)' /\ Found(d)')
  <2> SUFFICES ASSUME NEW d \in Index!Replaced
               PROVE  Kept(d)' /\ (d \notin met' => Lone(d)' /\ Found(d)')
    OBVIOUS
  <2>1. d \in Index!Items /\ Kept(d) /\ (d \notin met => Lone(d) /\ Found(d))
    BY DEF SearchInv, Index!Items, Index!Replaced
  <2>2. ASSUME NEW j \in Requests, Index!Step(j), task[j].item = d
        PROVE  Kept(d)' /\ (d \notin met' => Lone(d)' /\ Found(d)')
    <3>1. met' = met
      BY <2>2 DEF Index!Step, Index!Summarise, Index!TooShort, Index!Screen,
         Index!Take, Index!Clear, Index!Exists, Index!Embed, Index!CheckHash, Index!Store,
         Index!ReadSummary, Index!Broadcast, Index!Fail, Index!Redeliver, Index!Emit, Index!LoseEvent, Index!Untold
    <3>2. QED
      BY <2>1, <2>2, <3>1, OwnStep
  <2>3. ASSUME NEW j \in Requests, Index!Step(j), task[j].item # d
        PROVE  Kept(d)' /\ (d \notin met' => Lone(d)' /\ Found(d)')
    <3>1. /\ \A k \in Requests : k # j => task'[k] = task[k]
          /\ Index!Open(d)' = Index!Open(d) /\ Index!IndexOf(d)' = Index!IndexOf(d)
          /\ last'[d] = last[d] /\ (d \in Files => shown'[d] = shown[d])
          /\ (d \in failed' <=> d \in failed) /\ met' = met
      BY <2>1, <2>3, OthersStay
    <3>2. \A k \in Index!Open(d) : task'[k] = task[k]
      BY <2>3, <3>1 DEF Index!Open
    <3>3. QED
      BY <2>1, <3>1, <3>2 DEF Kept, Coming, Lone, Found, Led
  <2>4. ASSUME Index!ClearAll PROVE Kept(d)' /\ (d \notin met' => Lone(d)' /\ Found(d)')
    BY <2>1, <2>4 DEF Index!ClearAll, Kept, Lone, Found, Led, Index!Open, SearchInv
  <2>5. QED
    BY <2>2, <2>3, <2>4, SearchAsk DEF Index!Next
<1>2. QED
  BY <1>1, SearchTypes DEF SearchInv

LEMMA SearchRest ==
  ASSUME SearchInv, UNCHANGED search
  PROVE  SearchInv'
BY DEF search, SearchInv, Index!TypeOK, Briefed, Lone, Found, Led, Kept, Coming,
       Index!Open, Index!IndexOf

\* A document or a file is found under its last text and no other, unless two requests
\* about it met, and by one text even then, once none is in progress and none failed:
\* whatever the items, the texts and the requests side by side.
THEOREM FoundUnderLastText == AllSpec => []FoundByLastText
<1> DEFINE Holds == part = "search" => SearchInv
<1>1. AllInit => Holds
  BY SearchInit DEF AllInit
<1>2. Holds /\ [AllNext]_allVars => Holds'
  <2>1. ASSUME Holds, part = "search" /\ Index!Next, UNCHANGED part PROVE Holds'
    BY <2>1, SearchKept
  <2>2. ASSUME Holds, UNCHANGED search, UNCHANGED part PROVE Holds'
    BY <2>2, SearchRest
  <2>3. QED
    BY <2>1, <2>2 DEF AllNext, allVars
<1>3. Holds => FoundByLastText
  <2> SUFFICES ASSUME SearchInv
               PROVE  Index!TypeOK /\ Index!SearchedUnderLastText /\ Index!NeverLost
    BY DEF FoundByLastText
  <2>1. Index!NeverLost
    BY DEF SearchInv, Kept, Coming, Index!NeverLost, Index!Sound
  <2>2. Index!SearchedUnderLastText
    BY IndexAssumed DEF SearchInv, Lone, Found, Index!SearchedUnderLastText, Index!Sound,
       Index!SearchRoom, Index!SearchDocuments, Index!ByWords, Index!IndexOf, Index!Replaced,
       Index!Items, Index!TypeOK
  <2>3. QED
    BY <2>1, <2>2 DEF SearchInv
<1>4. QED
  BY <1>1, <1>2, <1>3, PTL DEF AllSpec

-------------------------------------------------------------------------------
(* The decks of flashcards (Flashcards): what a request is about. *)

LEMMA FlashAssumed ==
  /\ IsFiniteSet(Cards) /\ MaxWorks \in Nat
  /\ "none" \notin Users \union {None} /\ None \notin Users
BY InstancesAssumption DEF Flash!ConstantsAssumption, Flash!IsFiniteSet, IsFiniteSet

\* The cards of a deck are finitely many.
LEMMA CardsCounted ==
  ASSUME NEW S \in SUBSET Cards
  PROVE  /\ IsFiniteSet(S) /\ Flash!Cardinality(S) = Cardinality(S)
         /\ Cardinality(S) \in 0..Cardinality(Cards)
         /\ Flash!Cardinality(Cards) = Cardinality(Cards) /\ Cardinality(Cards) \in Nat
<1>1. Flash!Cardinality(S) = Cardinality(S) /\ Flash!Cardinality(Cards) = Cardinality(Cards)
  BY DEF Flash!Cardinality, Cardinality
<1>2. IsFiniteSet(S) /\ Cardinality(S) <= Cardinality(Cards)
  BY FlashAssumed, FS_Subset
<1>3. Cardinality(S) \in Nat /\ Cardinality(Cards) \in Nat
  BY <1>2, FlashAssumed, FS_CardinalityType
<1>4. QED
  BY <1>1, <1>2, <1>3

\* A request in progress is about a deck, a copying one about another besides.
Busy(q) ==
  \/ q = Flash!NoWork
  \/ /\ q.at \in {"delete", "put", "read", "count", "set"} /\ q.deck \in Users
     /\ q.at = "read" => q.from \in Users

\* Nothing is known of a deck that was not made.
Unmade(d) ==
  deck[d] = "none" =>
    total[d] = 0 /\ Flash!CardsOf(d) = {} /\ \A w \in Requests : work[w].deck # d

\* Who has counted a deck has the number of its cards.
CountsRight(d) ==
  \A w \in Flash!Counted(d) : work[w].count = Flash!Cardinality(Flash!CardsOf(d))
SaysRight(d) ==
  deck[d] = "there" /\ (\A w \in Requests : work[w].deck # d)
     => total[d] = Flash!Cardinality(Flash!CardsOf(d))

Right(d) == Unmade(d) /\ (d \notin vague => CountsRight(d) /\ SaysRight(d))

DeckInv ==
  /\ Flash!TypeOK
  /\ \A w \in Requests : Busy(work[w])
  /\ \A d \in Users : Right(d)
  /\ \A k, l \in known : k.by = l.by /\ k.card = l.card => k = l

LEMMA DecksInit == Flash!Init => DeckInv
<1> SUFFICES ASSUME Flash!Init PROVE DeckInv
  OBVIOUS
<1>1. Cardinality(Cards) \in Nat /\ Flash!Cardinality(Cards) = Cardinality(Cards)
  BY CardsCounted
<1>2. Flash!TypeOK
  BY <1>1, FlashAssumed DEF Flash!Init, Flash!TypeOK, Flash!Work, Flash!NoWork
<1>3. \A w \in Requests : work[w] = Flash!NoWork
  BY DEF Flash!Init
<1>4. \A d \in Users : Right(d)
  BY <1>3, FlashAssumed
     DEF Flash!Init, Right, Unmade, CountsRight, SaysRight, Flash!CardsOf, Flash!Counted, Flash!NoWork
<1>5. QED
  BY <1>2, <1>3, <1>4 DEF DeckInv, Busy, Flash!Init

\* A request takes up, goes on or ends.
LEMMA WorkTypes ==
  ASSUME work \in [Requests -> Flash!Work], NEW w \in Requests
  PROVE  /\ \A q \in Flash!Work : [work EXCEPT ![w] = q] \in [Requests -> Flash!Work]
         /\ \A at \in {"idle", "delete", "put", "read", "count", "set"} :
              [work EXCEPT ![w].at = at] \in [Requests -> Flash!Work]
         /\ \A n \in 0..Flash!Cardinality(Cards) :
              [work EXCEPT ![w].at = "set", ![w].count = n] \in [Requests -> Flash!Work]
<1> DEFINE N == 0..Flash!Cardinality(Cards)
           D == Users \union {None}
           C == SUBSET Cards
<1> HIDE DEF N, D, C
<1>1. Flash!Work = [op : {"none", "card", "drop", "make", "edit", "clone"},
                    at : {"idle", "delete", "put", "read", "count", "set"},
                    deck : D, from : D, cards : C, count : N]
  BY DEF Flash!Work, N, D, C
<1>2. \A n \in N : [work EXCEPT ![w].at = "set", ![w].count = n] \in [Requests -> Flash!Work]
  BY <1>1
<1>3. \A at \in {"idle", "delete", "put", "read", "count", "set"} :
         [work EXCEPT ![w].at = at] \in [Requests -> Flash!Work]
  BY <1>1
<1>4. \A q \in Flash!Work : [work EXCEPT ![w] = q] \in [Requests -> Flash!Work]
  OBVIOUS
<1>5. QED
  BY <1>2, <1>3, <1>4 DEF N

LEMMA NoWorkType == Flash!NoWork \in Flash!Work
<1>1. Cardinality(Cards) \in Nat /\ Flash!Cardinality(Cards) = Cardinality(Cards)
  BY CardsCounted
<1>2. QED
  BY <1>1 DEF Flash!NoWork, Flash!Work

\* What a request is, once it began.
LEMMA Begun ==
  ASSUME DeckInv, NEW w \in Requests,
         NEW op \in {"card", "drop", "make", "edit", "clone"},
         NEW at \in {"delete", "put", "read", "count"}, NEW d \in Users,
         NEW from \in Users \union {None}, NEW cs \in SUBSET Cards,
         Flash!Start(w, op, at, d, from, cs), at = "read" => from \in Users
  PROVE  /\ work' \in [Requests -> Flash!Work] /\ worked' \in 0..MaxWorks
         /\ \A k \in Requests : k # w => work'[k] = work[k]
         /\ work'[w].deck = d /\ work'[w].at = at /\ Busy(work'[w])
         /\ work[w] = Flash!NoWork
<1> DEFINE q == [op |-> op, at |-> at, deck |-> d, from |-> from, cards |-> cs, count |-> 0]
<1>1. Cardinality(Cards) \in Nat /\ Flash!Cardinality(Cards) = Cardinality(Cards)
  BY CardsCounted
<1>2. q \in Flash!Work
  BY <1>1 DEF Flash!Work
<1>3. work' = [work EXCEPT ![w] = q] /\ work[w] = Flash!NoWork
  BY DEF Flash!Start
<1>4. worked' \in 0..MaxWorks
  BY FlashAssumed DEF Flash!Start, Flash!Begin, DeckInv, Flash!TypeOK
<1>5. q.deck = d /\ q.at = at /\ Busy(q)
  BY DEF Busy
<1> HIDE DEF q
<1>6. QED
  BY <1>2, <1>3, <1>4, <1>5, WorkTypes DEF DeckInv, Flash!TypeOK

\* A request goes on with its deck, or is done.
LEMMA Proceeds ==
  ASSUME DeckInv, NEW w \in Requests
  PROVE  /\ \A at \in {"delete", "put", "count"} :
              Flash!Go(w, at) /\ work[w] # Flash!NoWork =>
                /\ work' \in [Requests -> Flash!Work]
                /\ \A k \in Requests : k # w => work'[k] = work[k]
                /\ work'[w].deck = work[w].deck /\ work'[w].at = at /\ Busy(work'[w])
         /\ Flash!Finish(w) =>
                /\ work' \in [Requests -> Flash!Work]
                /\ \A k \in Requests : k # w => work'[k] = work[k]
                /\ work'[w] = Flash!NoWork /\ Busy(work'[w])
         /\ \A n \in 0..Flash!Cardinality(Cards) :
              /\ work' = [work EXCEPT ![w].at = "set", ![w].count = n]
              /\ work[w] # Flash!NoWork
              => /\ work' \in [Requests -> Flash!Work]
                 /\ \A k \in Requests : k # w => work'[k] = work[k]
                 /\ work'[w].deck = work[w].deck /\ work'[w].at = "set" /\ work'[w].count = n
                 /\ Busy(work'[w])
<1>1. work \in [Requests -> Flash!Work] /\ Busy(work[w]) /\ work[w] \in Flash!Work
  BY DEF DeckInv, Flash!TypeOK
<1>2. ASSUME NEW at \in {"delete", "put", "count"}, Flash!Go(w, at), work[w] # Flash!NoWork
      PROVE  /\ work' \in [Requests -> Flash!Work]
             /\ \A k \in Requests : k # w => work'[k] = work[k]
             /\ work'[w].deck = work[w].deck /\ work'[w].at = at /\ Busy(work'[w])
  BY <1>1, <1>2, WorkTypes DEF Flash!Go, Busy, Flash!Work, Flash!NoWork
<1>3. ASSUME Flash!Finish(w)
      PROVE  /\ work' \in [Requests -> Flash!Work]
             /\ \A k \in Requests : k # w => work'[k] = work[k]
             /\ work'[w] = Flash!NoWork /\ Busy(work'[w])
  BY <1>1, <1>3, WorkTypes, NoWorkType DEF Flash!Finish, Busy
<1>4. ASSUME NEW n \in 0..Flash!Cardinality(Cards), work[w] # Flash!NoWork,
             work' = [work EXCEPT ![w].at = "set", ![w].count = n]
      PROVE  /\ work' \in [Requests -> Flash!Work]
             /\ \A k \in Requests : k # w => work'[k] = work[k]
             /\ work'[w].deck = work[w].deck /\ work'[w].at = "set" /\ work'[w].count = n
             /\ Busy(work'[w])
  <2>1. work' \in [Requests -> Flash!Work]
    BY <1>1, <1>4, WorkTypes
  <2>2. /\ \A k \in Requests : k # w => work'[k] = work[k]
        /\ work'[w].deck = work[w].deck /\ work'[w].at = "set" /\ work'[w].count = n
    BY <1>1, <1>4 DEF Flash!Work
  <2>3. work[w].deck \in Users
    BY <1>1, <1>4 DEF Busy
  <2>4. QED
    BY <2>1, <2>2, <2>3 DEF Busy
<1>5. QED
  BY <1>2, <1>3, <1>4

\* What is known of a deck that a step does not touch.
LEMMA Untouched ==
  ASSUME NEW d \in Users, Right(d),
         deck'[d] = deck[d], total'[d] = total[d], Flash!CardsOf(d)' = Flash!CardsOf(d),
         d \in vague => d \in vague',
         \A k \in Requests : work'[k] = work[k] \/ (work[k].deck # d /\ work'[k].deck # d)
  PROVE  Right(d)'
BY DEF Right, Unmade, CountsRight, SaysRight, Flash!Counted

\* A deck whose cards change while a request that will count it begins or goes on.
LEMMA Recounted ==
  ASSUME DeckInv, NEW d \in Users, NEW w \in Requests,
         deck'[d] = deck[d], deck[d] # "none",
         d \in vague \/ Flash!Counted(d) \ {w} # {} => d \in vague',
         \A k \in Requests : k # w => work'[k] = work[k],
         work'[w].deck = d, work'[w].at # "set"
  PROVE  Right(d)'
BY DEF DeckInv, Right, Unmade, CountsRight, SaysRight, Flash!Counted

\* Nobody waits for the count of a deck that is vague.
LEMMA Vague ==
  ASSUME NEW d \in Users, d \in vague', deck'[d] # "none"
  PROVE  Right(d)'
BY DEF Right, Unmade

LEMMA DeckCount ==
  ASSUME DeckInv, NEW w \in Requests, Flash!Count(w)
  PROVE  DeckInv'
<1>1. PICK e \in Users : work[w].deck = e /\ work[w] # Flash!NoWork /\ work[w].at = "count"
  BY DEF DeckInv, Busy, Flash!Count, Flash!NoWork
<1> DEFINE n == Flash!Cardinality(Flash!CardsOf(e))
<1>2. n \in 0..Flash!Cardinality(Cards)
  BY CardsCounted DEF Flash!CardsOf
<1>3. work' = [work EXCEPT ![w].at = "set", ![w].count = n]
  BY <1>1 DEF Flash!Count
<1> HIDE DEF n
<1>4. /\ work' \in [Requests -> Flash!Work]
      /\ \A k \in Requests : k # w => work'[k] = work[k]
      /\ work'[w].deck = e /\ work'[w].at = "set" /\ work'[w].count = n
      /\ Busy(work'[w])
  BY <1>1, <1>2, <1>3, Proceeds
<1>5. UNCHANGED <<deck, total, card, known, vague, worked>>
  BY DEF Flash!Count
<1>6. \A d \in Users : Flash!CardsOf(d)' = Flash!CardsOf(d)
  BY <1>5 DEF Flash!CardsOf
<1>7. ASSUME NEW d \in Users, d # e PROVE Right(d)'
  BY <1>1, <1>4, <1>5, <1>6, <1>7, Untouched DEF DeckInv
<1>8. Right(e)'
  BY <1>1, <1>4, <1>5, <1>6
     DEF DeckInv, Right, Unmade, CountsRight, SaysRight, Flash!Counted, n
<1>9. QED
  BY <1>4, <1>5, <1>7, <1>8 DEF DeckInv, Flash!TypeOK

LEMMA DeckSet ==
  ASSUME DeckInv, NEW w \in Requests, Flash!Set(w)
  PROVE  DeckInv'
<1>0. PICK e \in Users : work[w].deck = e
  BY DEF DeckInv, Busy, Flash!Set, Flash!NoWork
<1>1. /\ work[w] # Flash!NoWork /\ work[w].deck = e /\ work[w].at = "set"
      /\ work[w].count \in 0..Flash!Cardinality(Cards)
  BY <1>0 DEF DeckInv, Busy, Flash!Set, Flash!NoWork, Flash!TypeOK, Flash!Work
<1>2. /\ work' \in [Requests -> Flash!Work]
      /\ \A k \in Requests : k # w => work'[k] = work[k]
      /\ work'[w] = Flash!NoWork /\ Busy(work'[w])
  BY Proceeds DEF Flash!Set
<1>3. /\ UNCHANGED <<deck, card, known, vague, worked>>
      /\ total' = IF deck[e] = "there" THEN [total EXCEPT ![e] = work[w].count] ELSE total
  BY <1>0 DEF Flash!Set
<1>4. \A d \in Users : Flash!CardsOf(d)' = Flash!CardsOf(d)
  BY <1>3 DEF Flash!CardsOf
<1>5. work'[w].deck = None /\ None \notin Users /\ work'[w].at # "set"
  BY <1>2, FlashAssumed DEF Flash!NoWork
<1>6. total' \in [Users -> 0..Flash!Cardinality(Cards)]
  BY <1>1, <1>3 DEF DeckInv, Flash!TypeOK
<1>7. ASSUME NEW d \in Users, d # e PROVE Right(d)'
  <2>1. total'[d] = total[d]
    BY <1>1, <1>3, <1>7 DEF DeckInv, Flash!TypeOK
  <2>2. QED
    BY <1>1, <1>2, <1>3, <1>4, <1>5, <1>7, <2>1, Untouched DEF DeckInv
<1>8. Right(e)'
  <2>1. deck[e] # "none"
    BY <1>1 DEF DeckInv, Right, Unmade
  <2>2. e \notin vague => work[w].count = Flash!Cardinality(Flash!CardsOf(e))
    BY <1>1 DEF DeckInv, Right, CountsRight, Flash!Counted
  <2>3. QED
    BY <1>1, <1>2, <1>3, <1>4, <1>5, <2>1, <2>2
       DEF DeckInv, Right, Unmade, CountsRight, SaysRight, Flash!Counted, Flash!TypeOK
<1>9. UNCHANGED <<deck, card, known, vague, worked>>
  BY <1>3
<1>10. Flash!TypeOK' /\ \A k \in Requests : Busy(work[k])'
  BY <1>2, <1>6, <1>9 DEF DeckInv, Flash!TypeOK
<1>11. QED
  BY <1>7, <1>8, <1>9, <1>10 DEF DeckInv

\* Handlers that leave the cards, and begin nothing about a deck.
LEMMA DeckLearn ==
  ASSUME DeckInv, NEW u \in Learners, NEW c \in Cards, NEW p \in Flash!Progress,
         Flash!Learn(u, c, p)
  PROVE  DeckInv'
<1>1. UNCHANGED <<deck, total, card, work, vague>>
  BY DEF Flash!Learn
<1>2. \A d \in Users : Right(d)'
  BY <1>1, Untouched DEF DeckInv, Flash!CardsOf
<1>3. /\ known' \subseteq [by : Learners, card : Cards, status : Flash!Progress]
      /\ \A k, l \in known' : k.by = l.by /\ k.card = l.card => k = l
  BY DEF Flash!Learn, DeckInv, Flash!TypeOK
<1>4. worked' \in 0..MaxWorks
  BY FlashAssumed DEF Flash!Learn, Flash!Begin, DeckInv, Flash!TypeOK
<1>5. QED
  BY <1>1, <1>2, <1>3, <1>4 DEF DeckInv, Flash!TypeOK

LEMMA DeckDelete ==
  ASSUME DeckInv, NEW e \in Users, Flash!DeleteDeck(e)
  PROVE  DeckInv'
<1>1. UNCHANGED <<total, card, known, work, vague>> /\ deck' = [deck EXCEPT ![e] = "gone"]
  BY DEF Flash!DeleteDeck
<1>2. ASSUME NEW d \in Users PROVE Right(d)'
  BY <1>1 DEF DeckInv, Right, Unmade, CountsRight, SaysRight, Flash!Counted, Flash!CardsOf,
              Flash!TypeOK
<1>3. worked' \in 0..MaxWorks
  BY FlashAssumed DEF Flash!DeleteDeck, Flash!Begin, DeckInv, Flash!TypeOK
<1>4. QED
  BY <1>1, <1>2, <1>3 DEF DeckInv, Flash!TypeOK

LEMMA DeckEdit ==
  ASSUME DeckInv, NEW w \in Requests, NEW e \in Users, NEW cs \in SUBSET Cards,
         Flash!EditDeck(w, e, cs)
  PROVE  DeckInv'
<1>1. /\ UNCHANGED <<deck, total, card, known, vague>> /\ deck[e] = "there"
      /\ Flash!Start(w, "edit", "delete", e, None, cs)
  BY DEF Flash!EditDeck
<1>2. /\ work' \in [Requests -> Flash!Work] /\ worked' \in 0..MaxWorks
      /\ \A k \in Requests : k # w => work'[k] = work[k]
      /\ work'[w].deck = e /\ work'[w].at = "delete" /\ Busy(work'[w])
      /\ work[w] = Flash!NoWork
  BY <1>1, Begun
<1>3. \A d \in Users : Flash!CardsOf(d)' = Flash!CardsOf(d)
  BY <1>1 DEF Flash!CardsOf
<1>4. work[w].deck = None /\ None \notin Users
  BY <1>2, FlashAssumed DEF Flash!NoWork
<1>5. ASSUME NEW d \in Users PROVE Right(d)'
  <2>1. CASE d # e
    BY <1>1, <1>2, <1>3, <1>4, <2>1, Untouched DEF DeckInv
  <2>2. CASE d = e
    BY <1>1, <1>2, <1>3, <2>2
       DEF DeckInv, Right, Unmade, CountsRight, SaysRight, Flash!Counted
  <2>3. QED
    BY <2>1, <2>2
<1>6. QED
  BY <1>1, <1>2, <1>5 DEF DeckInv, Flash!TypeOK

LEMMA DeckFail ==
  ASSUME DeckInv, NEW w \in Requests, Flash!Fail(w)
  PROVE  DeckInv'
<1>1. PICK e \in Users : work[w].deck = e
  BY DEF Flash!Fail, DeckInv, Busy
<1>2. /\ UNCHANGED <<deck, total, card, known, worked>> /\ Flash!Finish(w)
      /\ vague' = vague \union {e}
  BY <1>1 DEF Flash!Fail
<1>3. /\ work' \in [Requests -> Flash!Work]
      /\ \A k \in Requests : k # w => work'[k] = work[k]
      /\ work'[w] = Flash!NoWork /\ Busy(work'[w])
  BY <1>2, Proceeds
<1>4. work'[w].deck = None /\ None \notin Users
  BY <1>3, FlashAssumed DEF Flash!NoWork
<1>5. ASSUME NEW d \in Users PROVE Right(d)'
  <2>1. CASE d # e
    BY <1>1, <1>2, <1>3, <1>4, <2>1, Untouched DEF DeckInv, Flash!CardsOf
  <2>2. CASE d = e
    <3>1. deck'[d] # "none"
      BY <1>1, <1>2, <2>2 DEF DeckInv, Right, Unmade
    <3>2. QED
      BY <1>2, <2>2, <3>1, Vague
  <2>3. QED
    BY <2>1, <2>2
<1>6. QED
  BY <1>2, <1>3, <1>5 DEF DeckInv, Flash!TypeOK

LEMMA DeckCreate ==
  ASSUME DeckInv, NEW w \in Requests, NEW e \in Users, NEW cs \in SUBSET Cards,
         Flash!CreateDeck(w, e, cs)
  PROVE  DeckInv'
<1>1. /\ UNCHANGED <<total, card, known, vague>> /\ deck[e] = "none"
      /\ deck' = [deck EXCEPT ![e] = "there"]
  BY DEF Flash!CreateDeck
<1>2. CASE cs = {}
  <2>1. UNCHANGED work /\ Flash!Begin
    BY <1>2 DEF Flash!CreateDeck
  <2>2. worked' \in 0..MaxWorks
    BY <2>1, FlashAssumed DEF Flash!Begin, DeckInv, Flash!TypeOK
  <2>3. Flash!Cardinality({}) = 0
    BY FS_EmptySet DEF Flash!Cardinality, Cardinality
  <2>4. ASSUME NEW d \in Users PROVE Right(d)'
    <3>1. CASE d # e
      BY <1>1, <2>1, <3>1, Untouched DEF DeckInv, Flash!CardsOf, Flash!TypeOK
    <3>2. CASE d = e
      <4>1. total[d] = 0 /\ Flash!CardsOf(d) = {} /\ \A k \in Requests : work[k].deck # d
        BY <1>1, <3>2 DEF DeckInv, Right, Unmade
      <4>2. Flash!CardsOf(d)' = {} /\ deck'[d] = "there"
        BY <1>1, <3>2, <4>1 DEF DeckInv, Flash!CardsOf, Flash!TypeOK
      <4>3. QED
        BY <1>1, <2>1, <2>3, <4>1, <4>2
           DEF Right, Unmade, CountsRight, SaysRight, Flash!Counted
    <3>3. QED
      BY <3>1, <3>2
  <2>5. QED
    BY <1>1, <2>1, <2>2, <2>4 DEF DeckInv, Flash!TypeOK
<1>3. CASE cs # {}
  <2>1. Flash!Start(w, "make", "put", e, None, cs)
    BY <1>3 DEF Flash!CreateDeck
  <2>2. /\ work' \in [Requests -> Flash!Work] /\ worked' \in 0..MaxWorks
        /\ \A k \in Requests : k # w => work'[k] = work[k]
        /\ work'[w].deck = e /\ work'[w].at = "put" /\ Busy(work'[w])
        /\ work[w] = Flash!NoWork
    BY <2>1, Begun
  <2>3. work[w].deck = None /\ None \notin Users
    BY <2>2, FlashAssumed DEF Flash!NoWork
  <2>4. ASSUME NEW d \in Users PROVE Right(d)'
    <3>1. CASE d # e
      BY <1>1, <2>2, <2>3, <3>1, Untouched DEF DeckInv, Flash!CardsOf, Flash!TypeOK
    <3>2. CASE d = e
      BY <1>1, <2>2, <3>2
         DEF DeckInv, Right, Unmade, CountsRight, SaysRight, Flash!Counted, Flash!TypeOK
    <3>3. QED
      BY <3>1, <3>2
  <2>5. QED
    BY <1>1, <2>2, <2>4 DEF DeckInv, Flash!TypeOK
<1>4. QED
  BY <1>2, <1>3

LEMMA DeckCloned ==
  ASSUME DeckInv, NEW w \in Requests, NEW f \in Users, NEW e \in Users,
         Flash!CloneDeck(w, f, e)
  PROVE  DeckInv'
<1>1. /\ UNCHANGED <<card, known, vague>> /\ deck[e] = "none"
      /\ deck' = [deck EXCEPT ![e] = "there"] /\ total' = [total EXCEPT ![e] = total[f]]
      /\ Flash!Start(w, "clone", "read", e, f, {})
  BY DEF Flash!CloneDeck
<1>2. /\ work' \in [Requests -> Flash!Work] /\ worked' \in 0..MaxWorks
      /\ \A k \in Requests : k # w => work'[k] = work[k]
      /\ work'[w].deck = e /\ work'[w].at = "read" /\ Busy(work'[w])
      /\ work[w] = Flash!NoWork
  BY <1>1, Begun
<1>3. work[w].deck = None /\ None \notin Users
  BY <1>2, FlashAssumed DEF Flash!NoWork
<1>4. ASSUME NEW d \in Users PROVE Right(d)'
  <2>1. CASE d # e
    BY <1>1, <1>2, <1>3, <2>1, Untouched DEF DeckInv, Flash!CardsOf, Flash!TypeOK
  <2>2. CASE d = e
    BY <1>1, <1>2, <2>2
       DEF DeckInv, Right, Unmade, CountsRight, SaysRight, Flash!Counted, Flash!TypeOK
  <2>3. QED
    BY <2>1, <2>2
<1>5. QED
  BY <1>1, <1>2, <1>4 DEF DeckInv, Flash!TypeOK

\* A card's decks: the one it leaves and the one it comes to.
LEMMA DeckMove ==
  ASSUME DeckInv, NEW c \in Cards, NEW e \in Users \union {None}, Flash!MoveCard(c, e)
  PROVE  DeckInv'
<1>1. /\ UNCHANGED <<deck, total, known, work>> /\ card' = [card EXCEPT ![c] = e]
      /\ vague' = vague \union ({card[c], e} \ {None}) /\ card[c] # "none"
      /\ Flash!Made(e)
  BY DEF Flash!MoveCard
<1>2. worked' \in 0..MaxWorks
  BY FlashAssumed DEF Flash!MoveCard, Flash!Begin, DeckInv, Flash!TypeOK
<1>3. ASSUME NEW d \in Users PROVE Right(d)'
  <2>1. CASE d # e /\ d # card[c]
    <3>1. Flash!CardsOf(d)' = Flash!CardsOf(d)
      BY <1>1, <2>1 DEF Flash!CardsOf, DeckInv, Flash!TypeOK
    <3>2. QED
      BY <1>1, <3>1, Untouched DEF DeckInv
  <2>2. CASE d = e \/ d = card[c]
    <3>1. deck[d] # "none"
      BY <1>1, <2>2, FlashAssumed DEF Flash!Made, DeckInv, Right, Unmade, Flash!CardsOf
    <3>2. d \in vague'
      BY <1>1, <2>2, FlashAssumed
    <3>3. QED
      BY <1>1, <3>1, <3>2, Vague
  <2>3. QED
    BY <2>1, <2>2
<1>4. card' \in [Cards -> Users \union {None, "none"}] /\ vague' \subseteq Users
  BY <1>1 DEF DeckInv, Flash!TypeOK
<1>5. QED
  BY <1>1, <1>2, <1>3, <1>4 DEF DeckInv, Flash!TypeOK

\* A card comes to a deck or goes from it, and its request will count the deck anew.
LEMMA CardChanged ==
  ASSUME DeckInv, NEW w \in Requests, NEW c \in Cards, NEW e \in Users \union {None},
         NEW op \in {"card", "drop"}, NEW x \in Users \union {None, "none"},
         UNCHANGED <<deck, total, known>>, card' = [card EXCEPT ![c] = x],
         \/ x = e /\ card[c] = "none"
         \/ x = "none" /\ card[c] = e,
         Flash!Made(e), Flash!Stirs({e} \ {None}, w),
         IF e = None THEN Flash!Begin /\ UNCHANGED work
                     ELSE Flash!Start(w, op, "count", e, None, {})
  PROVE  DeckInv'
<1>1. /\ card' \in [Cards -> Users \union {None, "none"}]
      /\ vague' \subseteq Users /\ \A d \in Users : d \in vague => d \in vague'
  BY DEF DeckInv, Flash!TypeOK, Flash!Stirs
<1>2. ASSUME NEW d \in Users, d # e PROVE Flash!CardsOf(d)' = Flash!CardsOf(d)
  BY <1>2, FlashAssumed DEF Flash!CardsOf, DeckInv, Flash!TypeOK
<1>3. CASE e = None
  <2>1. UNCHANGED work /\ worked' \in 0..MaxWorks
    BY <1>3, FlashAssumed DEF Flash!Begin, DeckInv, Flash!TypeOK
  <2>2. \A d \in Users : Right(d)'
    BY <1>1, <1>2, <1>3, <2>1, FlashAssumed, Untouched DEF DeckInv
  <2>3. QED
    BY <1>1, <2>1, <2>2 DEF DeckInv, Flash!TypeOK
<1>4. CASE e # None
  <2>1. e \in Users /\ Flash!Start(w, op, "count", e, None, {})
    BY <1>4
  <2>2. /\ work' \in [Requests -> Flash!Work] /\ worked' \in 0..MaxWorks
        /\ \A k \in Requests : k # w => work'[k] = work[k]
        /\ work'[w].deck = e /\ work'[w].at = "count" /\ Busy(work'[w])
        /\ work[w] = Flash!NoWork
    BY <2>1, Begun
  <2>3. work[w].deck = None /\ None \notin Users
    BY <2>2, FlashAssumed DEF Flash!NoWork
  <2>4. ASSUME NEW d \in Users PROVE Right(d)'
    <3>1. CASE d # e
      BY <1>1, <1>2, <2>2, <2>3, <3>1, Untouched DEF DeckInv
    <3>2. CASE d = e
      <4>1. deck[d] # "none"
        BY <1>4, <3>2 DEF Flash!Made
      <4>2. d \in vague \/ Flash!Counted(d) \ {w} # {} => d \in vague'
        BY <1>1, <1>4, <3>2 DEF Flash!Stirs
      <4>3. QED
        BY <2>2, <3>2, <4>1, <4>2, Recounted
    <3>3. QED
      BY <3>1, <3>2
  <2>5. QED
    BY <1>1, <2>2, <2>4 DEF DeckInv, Flash!TypeOK
<1>5. QED
  BY <1>3, <1>4

LEMMA DeckCards ==
  ASSUME DeckInv, NEW w \in Requests, NEW c \in Cards
  PROVE  /\ \A e \in Users \union {None} : Flash!CreateCard(w, c, e) => DeckInv'
         /\ Flash!DeleteCard(w, c) => DeckInv'
<1>1. ASSUME NEW e \in Users \union {None}, Flash!CreateCard(w, c, e) PROVE DeckInv'
  <2>1. card[c] = "none"
    BY <1>1 DEF Flash!CreateCard, Flash!Unused
  <2>2. QED
    BY <1>1, <2>1, CardChanged DEF Flash!CreateCard
<1>2. ASSUME Flash!DeleteCard(w, c) PROVE DeckInv'
  <2>1. card[c] \in Users \union {None}
    BY <1>2 DEF Flash!DeleteCard, DeckInv, Flash!TypeOK
  <2>2. Flash!Made(card[c])
    BY <2>1 DEF Flash!Made, DeckInv, Right, Unmade, Flash!CardsOf
  <2>3. PICK e \in Users \union {None} : e = card[c]
    BY <2>1
  <2>4. QED
    BY <1>2, <2>2, <2>3, CardChanged DEF Flash!DeleteCard
<1>3. QED
  BY <1>1, <1>2

LEMMA DeckInsert ==
  ASSUME DeckInv, NEW w \in Requests, Flash!Insert(w)
  PROVE  DeckInv'
<1>1. PICK e \in Users : work[w].deck = e
  BY DEF Flash!Insert, DeckInv, Busy, Flash!NoWork
<1>2. PICK cs \in SUBSET Cards : work[w].cards = cs
  BY DEF DeckInv, Flash!TypeOK, Flash!Work
<1>3. /\ UNCHANGED <<deck, total, known, worked>> /\ work[w].at = "put"
      /\ card' = [c \in Cards |-> IF c \in cs THEN e ELSE card[c]]
      /\ work[w] # Flash!NoWork
  BY <1>1, <1>2 DEF Flash!Insert, Flash!Put, Flash!NoWork
<1>4. deck[e] # "none"
  BY <1>1 DEF DeckInv, Right, Unmade
<1>5. card' \in [Cards -> Users \union {None, "none"}]
  BY <1>3 DEF DeckInv, Flash!TypeOK
<1>6. CASE work[w].op = "edit"
  <2>1. Flash!Finish(w) /\ vague' = vague \union (({e} \union {card[c] : c \in cs}) \ {"none", None})
    BY <1>1, <1>2, <1>6 DEF Flash!Insert
  <2>2. /\ work' \in [Requests -> Flash!Work]
        /\ \A k \in Requests : k # w => work'[k] = work[k]
        /\ work'[w] = Flash!NoWork /\ Busy(work'[w])
    BY <2>1, Proceeds
  <2>3. work'[w].deck = None /\ None \notin Users
    BY <2>2, FlashAssumed DEF Flash!NoWork
  <2>4. vague' \subseteq Users
    BY <2>1 DEF DeckInv, Flash!TypeOK
  <2>5. ASSUME NEW d \in Users PROVE Right(d)'
    <3>1. CASE d # e /\ d \notin {card[c] : c \in cs}
      <4>1. Flash!CardsOf(d)' = Flash!CardsOf(d)
        BY <1>3, <3>1 DEF Flash!CardsOf, DeckInv, Flash!TypeOK
      <4>2. QED
        BY <1>1, <1>3, <2>1, <2>2, <2>3, <3>1, <4>1, Untouched DEF DeckInv
    <3>2. CASE d = e \/ d \in {card[c] : c \in cs}
      <4>1. deck[d] # "none"
        BY <1>4, <3>2 DEF DeckInv, Right, Unmade, Flash!CardsOf
      <4>2. d \in vague'
        BY <2>1, <3>2, FlashAssumed
      <4>3. QED
        BY <1>3, <4>1, <4>2, Vague
    <3>3. QED
      BY <3>1, <3>2
  <2>6. QED
    BY <1>3, <1>5, <2>2, <2>4, <2>5 DEF DeckInv, Flash!TypeOK
<1>7. CASE work[w].op # "edit"
  <2>1. Flash!Go(w, "count") /\ Flash!Stirs({e}, w) /\ cs \subseteq Flash!Unused
    BY <1>1, <1>2, <1>7 DEF Flash!Insert
  <2>2. /\ work' \in [Requests -> Flash!Work]
        /\ \A k \in Requests : k # w => work'[k] = work[k]
        /\ work'[w].deck = e /\ work'[w].at = "count" /\ Busy(work'[w])
    BY <1>1, <1>3, <2>1, Proceeds
  <2>3. /\ vague' \subseteq Users /\ \A d \in Users : d \in vague => d \in vague'
        /\ Flash!Counted(e) \ {w} # {} => e \in vague'
    BY <2>1 DEF DeckInv, Flash!TypeOK, Flash!Stirs
  <2>4. ASSUME NEW d \in Users PROVE Right(d)'
    <3>1. CASE d # e
      <4>1. Flash!CardsOf(d)' = Flash!CardsOf(d)
        BY <1>3, <2>1, <3>1, FlashAssumed DEF Flash!CardsOf, Flash!Unused, DeckInv, Flash!TypeOK
      <4>2. QED
        BY <1>1, <1>3, <2>2, <2>3, <3>1, <4>1, Untouched DEF DeckInv
    <3>2. CASE d = e
      BY <1>3, <1>4, <2>2, <2>3, <3>2, Recounted
    <3>3. QED
      BY <3>1, <3>2
  <2>5. QED
    BY <1>3, <1>5, <2>2, <2>3, <2>4 DEF DeckInv, Flash!TypeOK
<1>8. QED
  BY <1>6, <1>7

LEMMA DeckOthers ==
  ASSUME DeckInv, NEW w \in Requests, Flash!DeleteOthers(w)
  PROVE  DeckInv'
<1>1. PICK e \in Users : work[w].deck = e
  BY DEF Flash!DeleteOthers, DeckInv, Busy, Flash!NoWork
<1>2. /\ UNCHANGED <<deck, total, known, worked>> /\ work[w] # Flash!NoWork
      /\ vague' = vague \union {e}
      /\ card' = [c \in Cards |-> IF c \in Flash!CardsOf(e) \ work[w].cards THEN "none" ELSE card[c]]
  BY <1>1 DEF Flash!DeleteOthers, Flash!Put, Flash!NoWork
<1>3. /\ work' \in [Requests -> Flash!Work]
      /\ \A k \in Requests : k # w => work'[k] = work[k]
      /\ work'[w].deck = e \/ work'[w].deck = None
      /\ Busy(work'[w])
  <2>1. CASE work[w].cards = {}
    <3>1. Flash!Finish(w)
      BY <2>1 DEF Flash!DeleteOthers
    <3>2. work'[w] = Flash!NoWork => work'[w].deck = None
      BY DEF Flash!NoWork
    <3>3. QED
      BY <3>1, <3>2, Proceeds
  <2>2. CASE work[w].cards # {}
    BY <1>1, <1>2, <2>2, Proceeds DEF Flash!DeleteOthers
  <2>3. QED
    BY <2>1, <2>2
<1>4. ASSUME NEW d \in Users PROVE Right(d)'
  <2>1. CASE d # e
    <3>1. Flash!CardsOf(d)' = Flash!CardsOf(d)
      BY <1>2, <2>1, FlashAssumed DEF Flash!CardsOf, DeckInv, Flash!TypeOK
    <3>2. QED
      BY <1>1, <1>2, <1>3, <2>1, <3>1, FlashAssumed, Untouched DEF DeckInv
  <2>2. CASE d = e
    <3>1. deck[d] # "none"
      BY <1>1, <2>2 DEF DeckInv, Right, Unmade
    <3>2. QED
      BY <1>2, <2>2, <3>1, Vague
  <2>3. QED
    BY <2>1, <2>2
<1>5. card' \in [Cards -> Users \union {None, "none"}]
  BY <1>2 DEF DeckInv, Flash!TypeOK
<1>6. QED
  BY <1>2, <1>3, <1>4, <1>5 DEF DeckInv, Flash!TypeOK

LEMMA DeckCopied ==
  ASSUME DeckInv, NEW w \in Requests, NEW cs \in SUBSET Cards, Flash!CloneCards(w, cs)
  PROVE  DeckInv'
<1>1. PICK e \in Users : work[w].deck = e
  BY DEF Flash!CloneCards, DeckInv, Busy, Flash!NoWork
<1> DEFINE n == Flash!Cardinality(cs)
<1>2. /\ UNCHANGED <<deck, total, known, worked>> /\ work[w].at = "read"
      /\ cs \subseteq Flash!Unused /\ n = Flash!Cardinality(Flash!CardsOf(work[w].from))
      /\ card' = [c \in Cards |-> IF c \in cs THEN e ELSE card[c]]
      /\ vague' = IF (n = 0 /\ total[e] # 0) \/ Flash!CardsOf(e) # {} \/ Flash!Counted(e) # {}
                  THEN vague \union {e} ELSE vague
      /\ work' = IF n = 0 THEN [work EXCEPT ![w] = Flash!NoWork]
                 ELSE [work EXCEPT ![w].at = "set", ![w].count = n]
      /\ work[w] # Flash!NoWork
  BY <1>1 DEF Flash!CloneCards, Flash!Put, Flash!NoWork
<1>3. n \in 0..Flash!Cardinality(Cards)
  BY CardsCounted
<1>4. Flash!CardsOf(e) = {} => Flash!CardsOf(e)' = cs
  BY <1>2, FlashAssumed DEF Flash!CardsOf, Flash!Unused, DeckInv, Flash!TypeOK
<1>5. PICK m : m = n
  OBVIOUS
<1>6. Flash!CardsOf(e) = {} => Flash!Cardinality(Flash!CardsOf(e)') = m
  BY <1>4, <1>5
<1> HIDE DEF n
<1>7. /\ work' \in [Requests -> Flash!Work]
      /\ \A k \in Requests : k # w => work'[k] = work[k]
      /\ Busy(work'[w])
      /\ IF m = 0 THEN work'[w] = Flash!NoWork
                  ELSE work'[w].deck = e /\ work'[w].at = "set" /\ work'[w].count = m
  <2>1. CASE m = 0
    BY <1>2, <1>5, <2>1, Proceeds DEF Flash!Finish
  <2>2. CASE m # 0
    BY <1>1, <1>2, <1>3, <1>5, <2>2, Proceeds
  <2>3. QED
    BY <2>1, <2>2
<1>8. work'[w] = Flash!NoWork => work'[w].deck = None /\ None \notin Users
  BY FlashAssumed DEF Flash!NoWork
<1>9. vague' \subseteq Users /\ \A d \in Users : d \in vague => d \in vague'
  BY <1>2 DEF DeckInv, Flash!TypeOK
<1>10. deck[e] # "none"
  BY <1>1 DEF DeckInv, Right, Unmade
<1>11. ASSUME NEW d \in Users PROVE Right(d)'
  <2>1. CASE d # e
    <3>1. Flash!CardsOf(d)' = Flash!CardsOf(d)
      BY <1>2, <2>1, FlashAssumed DEF Flash!CardsOf, Flash!Unused, DeckInv, Flash!TypeOK
    <3>2. QED
      BY <1>1, <1>2, <1>7, <1>8, <1>9, <2>1, <3>1, Untouched DEF DeckInv
  <2>2. CASE d = e /\ d \in vague'
    BY <1>2, <1>10, <2>2, Vague
  <2>3. CASE d = e /\ d \notin vague'
    <3>1. /\ Flash!CardsOf(d) = {} /\ Flash!Counted(d) = {} /\ (m = 0 => total[d] = 0)
      BY <1>2, <1>5, <2>3
    <3>2. Flash!Cardinality(Flash!CardsOf(d)') = m
      BY <1>6, <2>3, <3>1
    <3>3. CountsRight(d)'
      BY <1>7, <1>8, <2>3, <3>1, <3>2 DEF CountsRight, Flash!Counted
    <3>4. SaysRight(d)'
      BY <1>2, <1>7, <2>3, <3>1, <3>2 DEF SaysRight
    <3>5. QED
      BY <1>2, <1>10, <2>3, <3>3, <3>4 DEF Right, Unmade
  <2>4. QED
    BY <2>1, <2>2, <2>3
<1>12. card' \in [Cards -> Users \union {None, "none"}]
  BY <1>2 DEF DeckInv, Flash!TypeOK
<1>13. QED
  BY <1>2, <1>7, <1>9, <1>11, <1>12 DEF DeckInv, Flash!TypeOK

LEMMA DecksKept == DeckInv /\ Flash!Next => DeckInv'
<1> SUFFICES ASSUME DeckInv, Flash!Next PROVE DeckInv'
  OBVIOUS
<1>1. ASSUME NEW w \in Requests,
             \/ Flash!Count(w) \/ Flash!Set(w) \/ Flash!Insert(w) \/ Flash!DeleteOthers(w)
             \/ Flash!Fail(w)
      PROVE  DeckInv'
  BY <1>1, DeckCount, DeckSet, DeckInsert, DeckOthers, DeckFail
<1>2. ASSUME NEW w \in Requests, NEW c \in Cards,
             Flash!DeleteCard(w, c) \/ \E d \in Users \union {None} : Flash!CreateCard(w, c, d)
      PROVE  DeckInv'
  BY <1>2, DeckCards
<1>3. ASSUME NEW w \in Requests, NEW d \in Users, NEW cs \in SUBSET Cards,
             Flash!CreateDeck(w, d, cs) \/ Flash!EditDeck(w, d, cs)
      PROVE  DeckInv'
  BY <1>3, DeckCreate, DeckEdit
<1>4. ASSUME NEW w \in Requests, NEW cs \in SUBSET Cards, Flash!CloneCards(w, cs) PROVE DeckInv'
  BY <1>4, DeckCopied
<1>5. ASSUME NEW w \in Requests, NEW d \in Users, NEW e \in Users, Flash!CloneDeck(w, d, e)
      PROVE  DeckInv'
  BY <1>5, DeckCloned
<1>6. ASSUME NEW c \in Cards, NEW d \in Users \union {None}, Flash!MoveCard(c, d) PROVE DeckInv'
  BY <1>6, DeckMove
<1>7. ASSUME NEW d \in Users, Flash!DeleteDeck(d) PROVE DeckInv'
  BY <1>7, DeckDelete
<1>8. ASSUME NEW u \in Learners, NEW c \in Cards, NEW p \in Flash!Progress, Flash!Learn(u, c, p)
      PROVE  DeckInv'
  BY <1>8, DeckLearn
<1>9. QED
  BY <1>1, <1>2, <1>3, <1>4, <1>5, <1>6, <1>7, <1>8 DEF Flash!Next

LEMMA DecksRest ==
  ASSUME DeckInv, UNCHANGED flash
  PROVE  DeckInv'
BY DEF flash, DeckInv, Flash!TypeOK, Right, Unmade, CountsRight, SaysRight, Flash!Counted,
       Flash!CardsOf

\* Two sets of cards that share none.
LEMMA CardsApart ==
  ASSUME NEW S \in SUBSET Cards, NEW T \in SUBSET Cards, S \intersect T = {}
  PROVE  /\ Cardinality(S \union T) = Cardinality(S) + Cardinality(T)
         /\ Cardinality(S) \in Nat /\ Cardinality(T) \in Nat
<1>1. IsFiniteSet(S) /\ IsFiniteSet(T) /\ Cardinality(S) \in Nat /\ Cardinality(T) \in Nat
  BY CardsCounted
<1>2. Cardinality(S \union T) = Cardinality(S) + Cardinality(T) - Cardinality(S \intersect T)
  BY <1>1, FS_Union
<1>3. Cardinality(S \intersect T) = 0
  BY FS_EmptySet
<1>4. QED
  BY <1>1, <1>2, <1>3

\* Each card of a deck has one progress.
LEMMA EachOnce ==
  ASSUME DeckInv, NEW u \in Learners, NEW d \in Users
  PROVE  LET n == Flash!Stats(u, d) IN
           n["new"] + n["learning"] + n["review"] + n["mastered"]
             = Flash!Cardinality(Flash!CardsOf(d))
<1> DEFINE S(p) == {c \in Flash!CardsOf(d) :
                      \/ [by |-> u, card |-> c, status |-> p] \in known
                      \/ p = "new" /\ \A k \in known : k.by # u \/ k.card # c}
<1>1. \A p \in Flash!Progress : Flash!Stats(u, d)[p] = Flash!Cardinality(S(p))
  BY DEF Flash!Stats
<1>2. \A p \in Flash!Progress : S(p) \in SUBSET Cards
  BY DEF Flash!CardsOf
<1>3. \A p, q \in Flash!Progress : p # q => S(p) \intersect S(q) = {}
  <2> SUFFICES ASSUME NEW p \in Flash!Progress, NEW q \in Flash!Progress, NEW c,
                      c \in S(p), c \in S(q)
               PROVE  p = q
    OBVIOUS
  <2>1. ASSUME NEW x \in Flash!Progress, [by |-> u, card |-> c, status |-> x] \in known
        PROVE  ~ (\A k \in known : k.by # u \/ k.card # c)
    BY <2>1
  <2>2. ASSUME [by |-> u, card |-> c, status |-> p] \in known,
               [by |-> u, card |-> c, status |-> q] \in known
        PROVE  p = q
    BY <2>2 DEF DeckInv
  <2>3. QED
    BY <2>1, <2>2
<1>4. Flash!CardsOf(d) = S("new") \union S("learning") \union S("review") \union S("mastered")
  <2>1. ASSUME NEW c \in Flash!CardsOf(d), NEW k \in known, k.by = u, k.card = c
        PROVE  \E p \in Flash!Progress : c \in S(p)
    <3>1. k = [by |-> u, card |-> c, status |-> k.status] /\ k.status \in Flash!Progress
      BY <2>1 DEF DeckInv, Flash!TypeOK
    <3>2. QED
      BY <3>1
  <2>2. \A c \in Flash!CardsOf(d) : \E p \in Flash!Progress : c \in S(p)
    BY <2>1 DEF Flash!Progress
  <2>3. QED
    BY <2>2 DEF Flash!Progress
<1> HIDE DEF S
<1> DEFINE A == S("new")
           B == S("learning")
           C == S("review")
           D == S("mastered")
<1>5. A \in SUBSET Cards /\ B \in SUBSET Cards /\ C \in SUBSET Cards /\ D \in SUBSET Cards
  BY <1>2 DEF Flash!Progress
<1>6. /\ A \intersect B = {} /\ A \intersect C = {} /\ A \intersect D = {}
      /\ B \intersect C = {} /\ B \intersect D = {} /\ C \intersect D = {}
  BY <1>3 DEF Flash!Progress
<1>7. /\ Flash!Stats(u, d)["new"] = Cardinality(A)
      /\ Flash!Stats(u, d)["learning"] = Cardinality(B)
      /\ Flash!Stats(u, d)["review"] = Cardinality(C)
      /\ Flash!Stats(u, d)["mastered"] = Cardinality(D)
  BY <1>1, <1>5, CardsCounted DEF Flash!Progress
<1> HIDE DEF A, B, C, D
<1>8. Cardinality(A \union B) = Cardinality(A) + Cardinality(B)
  BY <1>5, <1>6, CardsApart
<1>9. Cardinality((A \union B) \union C) = Cardinality(A \union B) + Cardinality(C)
  BY <1>5, <1>6, CardsApart
<1>10. Cardinality((A \union B \union C) \union D) = Cardinality(A \union B \union C) + Cardinality(D)
  BY <1>5, <1>6, CardsApart
<1>11. /\ Cardinality(A) \in Nat /\ Cardinality(B) \in Nat /\ Cardinality(C) \in Nat
       /\ Cardinality(D) \in Nat
  BY <1>5, CardsCounted
<1>12. Flash!Cardinality(Flash!CardsOf(d)) = Cardinality(A \union B \union C \union D)
  BY <1>4, <1>5, CardsCounted DEF A, B, C, D
<1>13. QED
  BY <1>7, <1>8, <1>9, <1>10, <1>11, <1>12

\* A deck's number is that of its cards once no request is about it, unless its cards
\* changed in a way that counts nothing, and a learner's progress in it tells of each
\* of its cards once: for any cards, decks and learners.
THEOREM DecksCountRight == AllSpec => []DecksAddUp
<1> DEFINE Holds == part = "cards" => DeckInv
<1>1. AllInit => Holds
  BY DecksInit DEF AllInit
<1>2. Holds /\ [AllNext]_allVars => Holds'
  <2>1. ASSUME Holds, part = "cards" /\ Flash!Next, UNCHANGED part PROVE Holds'
    BY <2>1, DecksKept
  <2>2. ASSUME Holds, UNCHANGED flash, UNCHANGED part PROVE Holds'
    BY <2>2, DecksRest
  <2>3. QED
    BY <2>1, <2>2 DEF AllNext, allVars
<1>3. Holds => DecksAddUp
  <2> SUFFICES ASSUME DeckInv
               PROVE  Flash!TypeOK /\ Flash!TotalIsCount /\ Flash!ProgressAddsUp
    BY DEF DecksAddUp
  <2>1. Flash!TotalIsCount
    BY DEF DeckInv, Right, SaysRight, Flash!TotalIsCount
  <2>2. Flash!ProgressAddsUp
    BY EachOnce DEF Flash!ProgressAddsUp
  <2>3. QED
    BY <2>1, <2>2 DEF DeckInv
<1>4. QED
  BY <1>1, <1>2, <1>3, PTL DEF AllSpec

===============================================================================
