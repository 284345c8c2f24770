------------------------------ MODULE MCWorkspace ------------------------------
(* Instances of what a room works on together, which share no state: each      *)
(* behaviour is the documents' or the boards'.                                 *)
EXTENDS Documents, TLC

CONSTANTS Todos, Defaults, Names, MaxJobs

CONSTANTS u1, u2, todo0, done   \* of the instance

VARIABLES board, default, todo, job, torn, loose, split, jobbed

VARIABLE part

Roles2 == u1 :> "member" @@ u2 :> "guest"
TwoColumns == <<todo0, done>>

\* The instances share model values: TLC permutes few of them.
Kanban == INSTANCE Boards WITH
  Boards <- Docs, Jobs <- Requests

ASSUME KanbanAssumption == Kanban!ConstantsAssumption

-------------------------------------------------------------------------------
kanban == <<board, default, todo, job, torn, loose, split, jobbed>>
allVars == <<vars, kanban, part>>

\* A part at rest has no state.
KanbanRests ==
  /\ board = 0 /\ default = 0 /\ todo = 0 /\ job = 0 /\ torn = 0 /\ loose = 0
  /\ split = 0 /\ jobbed = 0

AllInit ==
  /\ part \in {"documents", "boards"}
  /\ Init
  /\ IF part = "boards" THEN Kanban!Init ELSE KanbanRests

AllNext ==
  \/ part = "documents" /\ Next /\ UNCHANGED <<kanban, part>>
  \/ part = "boards" /\ Kanban!Next /\ UNCHANGED <<vars, part>>

AllSpec == AllInit /\ [][AllNext]_allVars

Symm == Permutations(Docs) \union Permutations(Edits) \union Permutations(Requests)

-------------------------------------------------------------------------------
(* The properties of the parts. *)

\* Every variable has a value of its type, and what was saved alone is kept
\* (documents.service.ts, updateDoc).
DocumentsKept == TypeOK /\ SavesAreKept

\* A board never loses its last column, and its columns are numbered as they stand
\* (todo-project.service.ts, deleteProjectStatus and status_order).
BoardsOrdered == part = "boards" =>
  Kanban!TypeOK /\ Kanban!KeepsAColumn /\ Kanban!NumberedInOrder

\* A todo is in a column of its board unless a change of the columns or a crossing update
\* came between its check and its write (todo.service.ts, ensureProjectAndStatus).
TodoFits == part = "boards" => Kanban!TodoFits
===============================================================================
