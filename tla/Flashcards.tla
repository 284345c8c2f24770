------------------------------ MODULE Flashcards ------------------------------
(***************************************************************************)
(* Decks of flashcards: flashcard.service.ts, statement by statement.      *)
(*                                                                         *)
(* A card points at its deck (card_deckId); the deck keeps the number of   *)
(* its cards (deck_totalCards), which most changes count anew afterwards.  *)
(* Texts, pages and the deck's other fields are left out.                  *)
(***************************************************************************)
EXTENDS Naturals, FiniteSets

CONSTANTS Decks, Cards, Learners,
          Works,     \* bound: requests handled at a time
          MaxWorks,  \* bound: requests in all
          None

\* There are finitely many cards, and no value stands for two things.
ConstantsAssumption ==
  /\ IsFiniteSet(Cards) /\ MaxWorks \in Nat
  /\ "none" \notin Decks \union {None} /\ None \notin Decks

VARIABLES deck,      \* each deck: "none", "there" or "gone"
          total,     \* deck_totalCards
          card,      \* what each card points at; "none": no such card
          known,     \* FlashcardProgress: the status of each learner's card
          work,      \* requests in progress
          vague,     \* history: decks whose count is not known to follow
          worked

vars == <<deck, total, card, known, work, vague, worked>>

Progress == {"new", "learning", "review", "mastered"}

NoWork == [op |-> "none", at |-> "idle", deck |-> None, from |-> None, cards |-> {}, count |-> 0]

Work == [op : {"none", "card", "drop", "make", "edit", "clone"},
         at : {"idle", "delete", "put", "read", "count", "set"},
         deck : Decks \union {None},    \* whose cards change, and are counted
         from : Decks \union {None},    \* the deck that is cloned
         cards : SUBSET Cards,          \* the cards to write, or the edit's list
         count : 0..Cardinality(Cards)]

Init ==
  /\ deck = [d \in Decks |-> "none"]
  /\ total = [d \in Decks |-> 0]
  /\ card = [c \in Cards |-> "none"]
  /\ known = {}
  /\ work = [w \in Works |-> NoWork]
  /\ vague = {} /\ worked = 0

-------------------------------------------------------------------------------
(* Helpers *)

CardsOf(d) == {c \in Cards : card[c] = d}
Unused == {c \in Cards : card[c] = "none"}

\* A deck whose _id a client can know, or (None) none.
Made(d) == d # None => deck[d] # "none"

Counted(d) == {w \in Works : work[w].deck = d /\ work[w].at = "set"}

\* The cards of some decks change: whoever has counted them will write an old count.
Stirs(ds, w) ==
  vague' = vague \union {d \in ds : Counted(d) \ {w} # {}}

Begin == worked < MaxWorks /\ worked' = worked + 1

Start(w, op, at, d, from, cs) ==
  /\ work[w] = NoWork /\ Begin
  /\ work' = [work EXCEPT ![w] =
       [op |-> op, at |-> at, deck |-> d, from |-> from, cards |-> cs, count |-> 0]]

Go(w, at) == work' = [work EXCEPT ![w].at = at]
Finish(w) == work' = [work EXCEPT ![w] = NoWork]

Put(cs, d) == [c \in Cards |-> IF c \in cs THEN d ELSE card[c]]

-------------------------------------------------------------------------------
(* syncDeckTotalCards *)

Count(w) ==
  /\ work[w].at = "count"
  /\ work' = [work EXCEPT ![w].at = "set", ![w].count = Cardinality(CardsOf(work[w].deck))]
  /\ UNCHANGED <<deck, total, card, known, vague, worked>>

Set(w) ==
  LET d == work[w].deck IN
  /\ work[w].at = "set"
  /\ total' = IF deck[d] = "there" THEN [total EXCEPT ![d] = work[w].count] ELSE total
  /\ Finish(w)
  /\ UNCHANGED <<deck, card, known, vague, worked>>

-------------------------------------------------------------------------------
(* Cards *)

\* createFlashcard, into a deck or (None) on its own.
CreateCard(w, c, d) ==
  /\ c \in Unused /\ Made(d)
  /\ card' = [card EXCEPT ![c] = d]
  /\ IF d = None THEN Begin /\ UNCHANGED work ELSE Start(w, "card", "count", d, None, {})
  /\ Stirs({d} \ {None}, w)
  /\ UNCHANGED <<deck, total, known>>

\* Mutant: a deleted card is not counted out.
DeleteCardOnly(w, c) ==
  /\ card[c] # "none" /\ Begin
  /\ card' = [card EXCEPT ![c] = "none"]
  /\ Stirs({card[c]} \ {None}, w)
  /\ UNCHANGED <<deck, total, known, work>>

DeleteCard(w, c) ==
  /\ card[c] # "none"
  /\ card' = [card EXCEPT ![c] = "none"]
  /\ IF card[c] = None THEN Begin /\ UNCHANGED work
                       ELSE Start(w, "drop", "count", card[c], None, {})
  /\ Stirs({card[c]} \ {None}, w)
  /\ UNCHANGED <<deck, total, known>>

\* updateFlashcardById may give a card another deck, and counts neither.
MoveCard(c, d) ==
  /\ card[c] # "none" /\ card[c] # d /\ Made(d) /\ Begin
  /\ card' = [card EXCEPT ![c] = d]
  /\ vague' = vague \union ({card[c], d} \ {None})
  /\ UNCHANGED <<deck, total, known, work>>

\* updateFlashcardProgress: an upsert, whether there is such a card or not.
Learn(u, c, p) ==
  /\ Begin
  /\ known' = {k \in known : k.by # u \/ k.card # c} \union {[by |-> u, card |-> c, status |-> p]}
  /\ UNCHANGED <<deck, total, card, work, vague>>

-------------------------------------------------------------------------------
(* Decks *)

CreateDeck(w, d, cs) ==
  /\ deck[d] = "none" /\ cs \subseteq Unused
  /\ deck' = [deck EXCEPT ![d] = "there"]
  /\ IF cs = {} THEN Begin /\ UNCHANGED work ELSE Start(w, "make", "put", d, None, cs)
  /\ UNCHANGED <<total, card, known, vague>>

\* insertMany, and in an edit the upserts, some of cards other decks have.
Insert(w) ==
  LET q == work[w] IN
  /\ q.at = "put"
  /\ q.op # "edit" => q.cards \subseteq Unused
  /\ card' = Put(q.cards, q.deck)
  /\ IF q.op = "edit" THEN Finish(w) ELSE Go(w, "count")
  /\ IF q.op = "edit"
     THEN vague' = vague \union (({q.deck} \union {card[c] : c \in q.cards}) \ {"none", None})
     ELSE Stirs({q.deck}, w)
  /\ UNCHANGED <<deck, total, known, worked>>

\* updateFlashcardDeckById with a list: cards that are not on it are deleted, and
\* the others written.  Nothing is counted.
EditDeck(w, d, cs) ==
  /\ deck[d] = "there"
  /\ Start(w, "edit", "delete", d, None, cs)
  /\ UNCHANGED <<deck, total, card, known, vague>>

DeleteOthers(w) ==
  LET q == work[w] IN
  /\ q.at = "delete"
  /\ card' = Put(CardsOf(q.deck) \ q.cards, "none")
  /\ vague' = vague \union {q.deck}
  /\ IF q.cards = {} THEN Finish(w) ELSE Go(w, "put")
  /\ UNCHANGED <<deck, total, known, worked>>

\* The cards stay, and point at nothing.
DeleteDeck(d) ==
  /\ deck[d] = "there" /\ Begin
  /\ deck' = [deck EXCEPT ![d] = "gone"]
  /\ UNCHANGED <<total, card, known, work, vague>>

\* The copy has the number the original says it has, until it is counted.
CloneDeck(w, d, e) ==
  /\ deck[d] = "there" /\ deck[e] = "none"
  /\ deck' = [deck EXCEPT ![e] = "there"]
  /\ total' = [total EXCEPT ![e] = total[d]]
  /\ Start(w, "clone", "read", e, d, {})
  /\ UNCHANGED <<card, known, vague>>

\* The original's cards are read and copied; only if there are any is the number
\* written.
CloneCards(w, cs) ==
  LET q == work[w]
      n == Cardinality(CardsOf(q.from)) IN
  /\ q.at = "read" /\ cs \subseteq Unused /\ Cardinality(cs) = n
  /\ card' = Put(cs, q.deck)
  /\ work' = IF n = 0 THEN [work EXCEPT ![w] = NoWork]
             ELSE [work EXCEPT ![w].at = "set", ![w].count = n]
  /\ vague' = IF (n = 0 /\ total[q.deck] # 0) \/ CardsOf(q.deck) # {} \/ Counted(q.deck) # {}
              THEN vague \union {q.deck} ELSE vague
  /\ UNCHANGED <<deck, total, known, worked>>

Fail(w) ==
  /\ work[w] # NoWork /\ Finish(w)
  /\ vague' = vague \union {work[w].deck}
  /\ UNCHANGED <<deck, total, card, known, worked>>

Next ==
  \/ \E w \in Works :
       \/ Count(w) \/ Set(w) \/ Insert(w) \/ DeleteOthers(w) \/ Fail(w)
       \/ \E c \in Cards : DeleteCard(w, c) \/ \E d \in Decks \union {None} : CreateCard(w, c, d)
       \/ \E d \in Decks, cs \in SUBSET Cards :
            CreateDeck(w, d, cs) \/ EditDeck(w, d, cs)
       \/ \E cs \in SUBSET Cards : CloneCards(w, cs)
       \/ \E d, e \in Decks : CloneDeck(w, d, e)
  \/ \E c \in Cards, d \in Decks \union {None} : MoveCard(c, d)
  \/ \E d \in Decks : DeleteDeck(d)
  \/ \E u \in Learners, c \in Cards, p \in Progress : Learn(u, c, p)

Spec == Init /\ [][Next]_vars

-------------------------------------------------------------------------------
(* Queries *)

\* Mutant: the progress of the deck's cards, without the cards nobody learned.
StatsOfKnown(u, d) ==
  [p \in Progress |-> Cardinality({c \in CardsOf(d) :
     [by |-> u, card |-> c, status |-> p] \in known})]

\* A deck's cards by the learner's progress; a card without any is new.
Stats(u, d) ==
  [p \in Progress |-> Cardinality({c \in CardsOf(d) :
     \/ [by |-> u, card |-> c, status |-> p] \in known
     \/ p = "new" /\ \A k \in known : k.by # u \/ k.card # c})]

-------------------------------------------------------------------------------
(* Properties *)

TypeOK ==
  /\ deck \in [Decks -> {"none", "there", "gone"}]
  /\ total \in [Decks -> 0..Cardinality(Cards)]
  /\ card \in [Cards -> Decks \union {None, "none"}]
  /\ known \subseteq [by : Learners, card : Cards, status : Progress]
  /\ work \in [Works -> Work]
  /\ vague \subseteq Decks /\ worked \in 0..MaxWorks

\* "deck_totalCards = số thẻ thực": the number of a deck is that of its cards once
\* no request is about it.  It is not for good after a card was moved to another
\* deck or the deck edited with a list, neither of which counts, after a count that
\* cards changed under, and after a death.
TotalIsCount ==
  \A d \in Decks \ vague :
    deck[d] = "there" /\ (\A w \in Works : work[w].deck # d)
      => total[d] = Cardinality(CardsOf(d))

\* The progress of a deck tells of every card of it, and of each once, whatever was
\* learned of cards that are gone since or came from other decks.
ProgressAddsUp ==
  \A u \in Learners, d \in Decks :
    LET n == Stats(u, d) IN
      n["new"] + n["learning"] + n["review"] + n["mastered"] = Cardinality(CardsOf(d))
===============================================================================
