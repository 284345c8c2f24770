------------------------------ MODULE Embeddings ------------------------------
(* The embeddings of the AI service: the vectors that search looks texts up by. *)
(* A text message is embedded once; a document again on every save and a file   *)
(* on every upload, the old vectors first being deleted. Requests come through   *)
(* Kafka topics of three partitions, without a key, so that two requests about   *)
(* one document run in any order and at the same time. A vector has a unique     *)
(* hash, that of its text: a text belongs to the item that was first to store it.*)
EXTENDS FiniteSets, Naturals

CONSTANTS Docs, Files, Msgs,   \* what is embedded
          Texts, Short,        \* texts up to case and outer blanks; the Short have one letter
          Jobs,                \* requests: at most Cardinality(Jobs) at a time
          None,
          MaxAsked,            \* bound: requests
          MaxFaults            \* bound: failing calls and lost processes

\* Items are of one kind, and no value stands for two things.
ConstantsAssumption ==
  /\ Docs \intersect Files = {} /\ Docs \intersect Msgs = {} /\ Files \intersect Msgs = {}
  /\ None \notin Docs \union Files \union Msgs \union Texts
  /\ Short \subseteq Texts
  /\ MaxAsked \in Nat /\ MaxFaults \in Nat

VARIABLES index,   \* AIEmbeddings by hash: whose vector a text has
          last,    \* the last text an item was saved with, or a file was summarised to
          shown,   \* the summary the room was last sent for a file
          job,
          crossed, \* items with two requests in progress at one time
          failed,  \* items with a request that failed, died or met another item's text
          asked, faults

vars == <<index, last, shown, job, crossed, failed, asked, faults>>

Items == Docs \union Files \union Msgs
Replaced == Docs \union Files   \* replaceOld: the others are appended
NoJob == [pc |-> "idle", item |-> None, text |-> None]
Job == [pc : {"idle", "saved", "asked", "clear", "exists", "vector", "hash", "store", "tell", "send"},
        item : Items \union {None}, text : Texts \union {None}]

TypeOK ==
  /\ index \in [Texts -> Items \union {None}]
  /\ last \in [Items -> Texts \union {None}]
  /\ shown \in [Files -> Texts \union {None}]
  /\ job \in [Jobs -> Job]
  /\ crossed \subseteq Items /\ failed \subseteq Items
  /\ asked \in 0 .. MaxAsked /\ faults \in 0 .. MaxFaults

Init ==
  /\ index = [t \in Texts |-> None]
  /\ last = [i \in Items |-> None]
  /\ shown = [f \in Files |-> None]
  /\ job = [j \in Jobs |-> NoJob]
  /\ crossed = {} /\ failed = {}
  /\ asked = 0 /\ faults = 0

-------------------------------------------------------------------------------
(* Requests *)

Open(i) == {j \in Jobs : job[j].item = i}
IndexOf(i) == {t \in Texts : index[t] = i}

\* A message is persisted, a document saved, a file uploaded, and the event is next. A
\* message has one text for good; what a file says is not known before it is read.
Ask(j, i, t) ==
  /\ job[j].pc = "idle" /\ asked < MaxAsked
  /\ i \in Msgs => last[i] = None
  /\ i \in Files <=> t = None
  /\ job' = [job EXCEPT ![j] = [pc |-> "saved", item |-> i, text |-> t]]
  /\ last' = IF i \in Files THEN last ELSE [last EXCEPT ![i] = t]
  /\ crossed' = IF Open(i) = {} THEN crossed ELSE crossed \union {i}
  /\ asked' = asked + 1
  /\ UNCHANGED <<index, shown, failed, faults>>

Goto(j, pc) == job' = [job EXCEPT ![j].pc = pc]
Finish(j) == job' = [job EXCEPT ![j] = NoJob]

\* The event reaches Kafka, or is lost: nobody waits for it, and the item stays saved.
Emit(j) ==
  /\ job[j].pc = "saved"
  /\ Goto(j, "asked")
  /\ UNCHANGED <<index, last, shown, crossed, failed, asked, faults>>

LoseEvent(j) ==
  /\ faults < MaxFaults /\ job[j].pc = "saved"
  /\ Finish(j)
  /\ failed' = failed \union {job[j].item}
  /\ faults' = faults + 1
  /\ UNCHANGED <<index, last, shown, crossed, asked>>

\* The model is asked to summarise a file: no summary, no embedding.
Summarise(j) ==
  /\ job[j].pc = "asked" /\ job[j].item \in Files
  /\ \/ Finish(j) /\ failed' = failed \union {job[j].item} /\ UNCHANGED last
     \/ \E t \in Texts \ Short :
          /\ job' = [job EXCEPT ![j].pc = "clear", ![j].text = t]
          /\ last' = [last EXCEPT ![job[j].item] = t]
          /\ UNCHANGED failed
  /\ UNCHANGED <<index, shown, crossed, asked, faults>>

\* Texts of one letter are passed over: a document keeps the vector it had.
TooShort(j) ==
  /\ job[j].pc = "asked" /\ job[j].item \in Docs /\ job[j].text \in Short
  /\ Finish(j)
  /\ failed' = failed \union {job[j].item}
  /\ UNCHANGED <<index, last, shown, crossed, asked, faults>>

\* A message is worth a vector or not: its words are counted, links and commands are
\* out, and the model is asked.
Screen(j) ==
  /\ job[j].pc = "asked" /\ job[j].item \in Msgs
  /\ \/ Finish(j)
     \/ job[j].text \notin Short /\ Goto(j, "exists")
  /\ UNCHANGED <<index, last, shown, crossed, failed, asked, faults>>

Take(j) ==
  /\ job[j].pc = "asked" /\ job[j].item \in Docs /\ job[j].text \notin Short
  /\ Goto(j, "clear")
  /\ UNCHANGED <<index, last, shown, crossed, failed, asked, faults>>

-------------------------------------------------------------------------------
(* createEmbedding *)

\* Mutant: the old vectors stay.
WithoutNothing(i) == index

Without(i) == [t \in Texts |-> IF index[t] = i THEN None ELSE index[t]]

\* The old vectors of a document or a file are deleted.
Cleared(i) == Without(i)

Clear(j) ==
  /\ job[j].pc = "clear"
  /\ index' = Cleared(job[j].item)
  /\ Goto(j, "vector")
  /\ UNCHANGED <<last, shown, crossed, failed, asked, faults>>

\* A message that has its vector is left alone.
Exists(j) ==
  /\ job[j].pc = "exists"
  /\ IF IndexOf(job[j].item) # {} THEN Finish(j) ELSE Goto(j, "vector")
  /\ UNCHANGED <<index, last, shown, crossed, failed, asked, faults>>

\* The model answers with a vector.
Embed(j) ==
  /\ job[j].pc = "vector"
  /\ Goto(j, IF job[j].item \in Replaced THEN "store" ELSE "hash")
  /\ UNCHANGED <<index, last, shown, crossed, failed, asked, faults>>

\* The text of a message may have a vector by now.
CheckHash(j) ==
  /\ job[j].pc = "hash"
  /\ IF index[job[j].text] = None
     THEN Goto(j, "store") /\ UNCHANGED failed
     ELSE Finish(j) /\ failed' = failed \union {job[j].item}
  /\ UNCHANGED <<index, last, shown, crossed, asked, faults>>

\* A file is told of; the others are done.
After(j) ==
  IF job[j].item \in Files THEN Goto(j, "tell") ELSE Finish(j)

\* The unique hash refuses a second vector of a text, which counts as done.
Taken(j) == index[job[j].text] # None

Store(j) ==
  /\ job[j].pc = "store"
  /\ After(j)
  /\ IF Taken(j)
     THEN /\ failed' = IF index[job[j].text] = job[j].item THEN failed
                       ELSE failed \union {job[j].item}
          /\ UNCHANGED index
     ELSE index' = [index EXCEPT ![job[j].text] = job[j].item] /\ UNCHANGED failed
  /\ UNCHANGED <<last, shown, crossed, asked, faults>>

-------------------------------------------------------------------------------
(* The room hears of a file's summary: the chat service reads the message again,   *)
(* with the first vector's text, and broadcasts it.                                 *)

ReadSummary(j) ==
  /\ job[j].pc = "tell"
  /\ \E t \in IF IndexOf(job[j].item) = {} THEN {None} ELSE IndexOf(job[j].item) :
       job' = [job EXCEPT ![j].pc = "send", ![j].text = t]
  /\ UNCHANGED <<index, last, shown, crossed, failed, asked, faults>>

Broadcast(j) ==
  /\ job[j].pc = "send"
  /\ shown' = [shown EXCEPT ![job[j].item] = job[j].text]
  /\ Finish(j)
  /\ UNCHANGED <<index, last, crossed, failed, asked, faults>>

\* dispatchEventKafka swallows the failure: the chat service never hears of the summary.
Untold(j) ==
  /\ faults < MaxFaults /\ job[j].pc = "tell"
  /\ Finish(j)
  /\ failed' = failed \union {job[j].item}
  /\ faults' = faults + 1
  /\ UNCHANGED <<index, last, shown, crossed, asked>>

-------------------------------------------------------------------------------
(* Search: a query is taken for the text it is nearest to. *)

\* Messages that have the words in them, embedded or not.
ByWords(t) == {m \in Msgs : last[m] = t}

\* What belongs to the room: by its vector, by the words of its vector, and messages.
SearchRoom(t) == {i \in Items : index[t] = i} \union ByWords(t)

\* Documents and files, of everybody.
SearchDocuments(t) == {i \in Replaced : index[t] = i}

-------------------------------------------------------------------------------
(* Faults *)

\* The model or the database fails: createEmbedding logs it, and the request is done.
Fail(j) ==
  /\ faults < MaxFaults /\ job[j].pc \in {"clear", "exists", "vector", "hash", "store"}
  /\ After(j)
  /\ failed' = failed \union {job[j].item}
  /\ faults' = faults + 1
  /\ UNCHANGED <<index, last, shown, crossed, asked>>

\* The service dies: Kafka delivers the request again.
Redeliver(j) ==
  /\ faults < MaxFaults /\ job[j].pc \in {"clear", "exists", "vector", "hash", "store", "tell"}
  /\ job' = [job EXCEPT ![j].pc = "asked", ![j].text = IF job[j].item \in Files THEN None ELSE @]
  /\ faults' = faults + 1
  /\ UNCHANGED <<index, last, shown, crossed, failed, asked>>

\* deleteVectorChat and clearAllEmbeddings: nobody calls the first, a script the second.
ClearAll ==
  /\ faults < MaxFaults
  /\ index' = [t \in Texts |-> None]
  /\ failed' = Items
  /\ faults' = faults + 1
  /\ UNCHANGED <<last, shown, job, crossed, asked>>

Step(j) ==
  \/ Emit(j) \/ LoseEvent(j) \/ Untold(j) \/ Summarise(j) \/ TooShort(j) \/ Screen(j) \/ Take(j)
  \/ Clear(j) \/ Exists(j) \/ Embed(j) \/ CheckHash(j) \/ Store(j)
  \/ ReadSummary(j) \/ Broadcast(j) \/ Fail(j) \/ Redeliver(j)

Next ==
  \/ \E j \in Jobs, i \in Items, t \in Texts \union {None} : Ask(j, i, t)
  \/ \E j \in Jobs : Step(j)
  \/ ClearAll

Spec == Init /\ [][Next]_vars

-------------------------------------------------------------------------------
(* Properties *)

\* Nothing is in progress about an item, and nothing about it went wrong: no event of
\* its was lost, no call failed, no text of its is another's or too short.
Sound(i) == Open(i) = {} /\ i \notin failed /\ last[i] # None

\* A document or a file is found under its last text and no other, and a room was sent
\* the summary of its file, once its requests are done, if no two of them met.
SearchedUnderLastText ==
  \A i \in Replaced \ crossed : Sound(i) =>
    /\ \A t \in Texts : i \in SearchRoom(t) <=> t = last[i]
    /\ \A t \in Texts : i \in SearchDocuments(t) <=> t = last[i]
    /\ i \in Files => shown[i] = last[i]

\* Even requests that met leave a document or a file with a vector: each stores one after
\* it deleted the others'.
NeverLost == \A i \in Replaced : Sound(i) => IndexOf(i) # {}

\* The comment on the partitions: requests about one document may run in any order
\* without harm.
HarmlessOrder == \A d \in Docs : Sound(d) => IndexOf(d) = {last[d]}
===============================================================================
