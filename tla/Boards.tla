-------------------------------- MODULE Boards --------------------------------
(***************************************************************************)
(* Todo projects and todos (todo-project.service.ts, todo.service.ts).     *)
(*                                                                         *)
(* A project has columns, its statuses; a todo has a project and the name  *)
(* or id of one of its statuses.  Mongoose saves a project it has read:    *)
(* a new column is pushed; an array that replaces the old one, or a field  *)
(* of one column, is written only if the version is the one that was read, *)
(* and pushes and replacements count the version up.  All projects here    *)
(* are one user's, in one room; titles, dates, assignees and members are   *)
(* left out.                                                               *)
(***************************************************************************)
EXTENDS Naturals, Sequences, FiniteSets

CONSTANTS Boards, Todos,
          Defaults,  \* the columns a project is made with, by name
          Names,     \* names clients give, Defaults' names among them
          Jobs,      \* bound: requests handled at a time
          MaxJobs,   \* bound: requests in all that take more than one statement
          None

\* The id of a first column is its name; the others' are random, here a number each.
Column == [id : Names \union (Names \X (1..MaxJobs)), name : Names, order : Nat]

\* A default project has its columns, of different names; ids that are drawn are no names.
ConstantsAssumption ==
  /\ MaxJobs \in Nat
  /\ Defaults \in Seq(Names) /\ Defaults # <<>>
  /\ \A i, k \in DOMAIN Defaults : Defaults[i] = Defaults[k] => i = k
  /\ Names \intersect (Names \X (1..MaxJobs)) = {}
  /\ None \notin Boards /\ None \notin Names /\ None \notin Todos /\ None \notin Seq(Column)

VARIABLES board,     \* TodoProjects: None, or the columns
          default,   \* the default project, or None
          todo,      \* Todos
          job,       \* requests in progress
          torn,      \* history: boards a column was pushed to under another change
          loose,     \* history: todos whose column was dropped, renamed or moved, or whose
                     \* board was deleted, after they were checked
          split,     \* history: todos half of which a crossing update wrote
          jobbed

vars == <<board, default, todo, job, torn, loose, split, jobbed>>

NewBoard == [k \in DOMAIN Defaults |->
               [id |-> Defaults[k], name |-> Defaults[k], order |-> k]]

NoJob == [op |-> "none", at |-> "idle", board |-> None, todo |-> None, id |-> None,
          name |-> None, pos |-> 0, seen |-> <<>>, there |-> FALSE, fresh |-> FALSE,
          on |-> None]     \* the project found for a todo, which its status was checked with

Init ==
  /\ board = [b \in Boards |-> None] /\ default = None
  /\ todo = [t \in Todos |-> None]
  /\ job = [j \in Jobs |-> NoJob]
  /\ torn = {} /\ loose = {} /\ split = {} /\ jobbed = 0

-------------------------------------------------------------------------------
(* Helpers *)

Ids(cs) == {cs[k].id : k \in DOMAIN cs}
At(cs, id) == CHOOSE k \in DOMAIN cs : cs[k].id = id

\* What ensureProjectAndStatus lets a todo be.
Statuses(cs) == {cs[k].name : k \in DOMAIN cs} \union Ids(cs)
Allowed(b) == Statuses(board[b])

On(b) == {t \in Todos : todo[t] # None /\ todo[t].board = b}

Renumbered(cs) == [k \in DOMAIN cs |-> [cs[k] EXCEPT !.order = k]]

\* The positions S by their keys, those of one key as they stand: both sort and filter
\* keep what is equal in place.
UpTo(S, key, k) == {i \in S : key[i] < key[k] \/ (key[i] = key[k] /\ i <= k)}

By(S, key) ==
  [n \in 1..Cardinality(S) |-> CHOOSE k \in S : Cardinality(UpTo(S, key, k)) = n]

Taken(cs, ps) == [n \in DOMAIN ps |-> cs[ps[n]]]

Sorted(cs) == Taken(cs, By(DOMAIN cs, [k \in DOMAIN cs |-> cs[k].order]))

Without(cs, id) ==
  LET left == {k \in DOMAIN cs : cs[k].id # id}
  IN  Taken(cs, By(left, [k \in left |-> 0]))

About(b, q) == q.board = b \/ q.on = b

\* Projects that are yet to be made: nothing refers to them.
Unused(b) == board[b] = None /\ On(b) = {} /\ \A i \in Jobs : ~About(b, job[i])

\* The jobs at a step of steps after a board was written: what they have read is not
\* the latest; after a deletion it is not there.
Outdated(b, js, steps) ==
  [i \in Jobs |-> IF About(b, js[i]) /\ js[i].at \in steps
                  THEN [js[i] EXCEPT !.fresh = FALSE] ELSE js[i]]
Orphaned(b, js) ==
  [i \in Jobs |-> IF About(b, js[i]) THEN [js[i] EXCEPT !.there = FALSE, !.fresh = FALSE]
                                     ELSE js[i]]

Finish(j) == [job EXCEPT ![j] = NoJob]

-------------------------------------------------------------------------------
(* A request *)

Begin(j, q) ==
  /\ job[j] = NoJob /\ jobbed < MaxJobs /\ jobbed' = jobbed + 1
  /\ job' = [job EXCEPT ![j] = q]
  /\ UNCHANGED <<board, default, todo, torn, loose, split>>

Request(op, at) == [NoJob EXCEPT !.op = op, !.at = at]

BeginColumn(j) ==
  \E op \in {"add", "rename", "order", "drop"}, b \in Boards, n \in Names, p \in 1..2 :
    /\ board[b] # None
    /\ op # "order" => p = 1
    /\ op \notin {"add", "rename"} => n = Defaults[1]
    /\ \E id \in IF op = "add" THEN {<<n, jobbed + 1>>} ELSE Ids(board[b]) :
         Begin(j, [Request(op, "read") EXCEPT !.board = b, !.id = id, !.pos = p,
                     !.name = IF op \in {"add", "rename"} THEN n ELSE None])

\* A todo is made with or without a project and a status.
BeginTodo(j) ==
  \E t \in Todos, b \in Boards \union {None}, n \in Names \union {None} :
    /\ todo[t] = None /\ b # None => board[b] # None
    /\ \A i \in Jobs : job[i].todo # t
    /\ Begin(j, [Request("todo", IF n # None THEN "check"
                                 ELSE IF b # None THEN "pick" ELSE "default") EXCEPT
                   !.todo = t, !.board = b, !.name = n])

\* updateTodo, and updateTodoStatus.
BeginUpdate(j) ==
  \E t \in Todos, b \in Boards \union {None}, n \in Names \union {None} :
    /\ todo[t] # None /\ (b # None \/ n # None)
    /\ Begin(j, [Request("update", "read") EXCEPT !.todo = t, !.board = b, !.name = n])

BeginDefault(j) == Begin(j, Request("default", "default"))

-------------------------------------------------------------------------------
(* Columns *)

\* The project is read; a name that is taken, an unknown column and the last
\* column are refused.
Read(j) ==
  LET q == job[j]  cs == board[q.board] IN
  /\ q.at = "read" /\ q.op \in {"add", "rename", "order", "drop"}
  /\ IF \/ cs = None
        \/ q.op = "add" /\ q.name \in {cs[k].name : k \in DOMAIN cs}
        \/ q.op # "add" /\ q.id \notin Ids(cs)
        \/ q.op = "drop" /\ Len(cs) <= 1
     THEN job' = Finish(j)
     ELSE job' = [job EXCEPT ![j].at = "save", ![j].seen = cs, ![j].there = TRUE, ![j].fresh = TRUE]
  /\ UNCHANGED <<board, default, todo, torn, loose, split, jobbed>>

\* project_statuses.push and save.
Push(j) ==
  LET q == job[j]
      b == q.board IN
  /\ q.op = "add" /\ q.at = "save"
  /\ IF q.there
     THEN /\ board' = [board EXCEPT ![b] = Append(@,
               [id |-> q.id, name |-> q.name, order |-> Len(q.seen) + 1])]
          /\ job' = Outdated(b, Finish(j), {"save"})
          /\ torn' = IF q.fresh THEN torn ELSE torn \union {b}
     ELSE UNCHANGED <<board, torn>> /\ job' = Finish(j)
  /\ UNCHANGED <<default, todo, loose, split, jobbed>>

\* The array a reorder or a delete replaces the old one with.
\* Mutant: after a delete the others keep their numbers.
ReplacedAsIs(q) ==
  IF q.op = "order"
  THEN Renumbered(Sorted([q.seen EXCEPT ![At(q.seen, q.id)].order = q.pos]))
  ELSE Without(q.seen, q.id)

Replaced(q) ==
  IF q.op = "order"
  THEN Renumbered(Sorted([q.seen EXCEPT ![At(q.seen, q.id)].order = q.pos]))
  ELSE Renumbered(Without(q.seen, q.id))

Saves(q) == q.there /\ q.fresh

Replace(j) ==
  LET q == job[j]  b == q.board IN
  /\ q.op \in {"order", "drop"} /\ q.at = "save"
  /\ IF Saves(q)
     THEN /\ board' = [board EXCEPT ![b] = Replaced(q)]
          /\ job' = Outdated(b, Finish(j), {"save", "write"})
          /\ loose' = loose \union On(b)
     ELSE UNCHANGED <<board, loose>> /\ job' = Finish(j)
  /\ UNCHANGED <<default, todo, torn, split, jobbed>>

\* A name is set in its place, which counts no version.
Rename(j) ==
  LET q == job[j]  b == q.board IN
  /\ q.op = "rename" /\ q.at = "save"
  /\ IF Saves(q)
     THEN /\ board' = [board EXCEPT ![b][At(q.seen, q.id)].name = q.name]
          /\ job' = Outdated(b, Finish(j), {"write"})
          /\ loose' = loose \union On(b)
     ELSE UNCHANGED <<board, loose>> /\ job' = Finish(j)
  /\ UNCHANGED <<default, todo, torn, split, jobbed>>

-------------------------------------------------------------------------------
(* The project of a todo *)

\* Mutant: a todo that moves is checked against the project it leaves.
TargetBefore(q) ==
  [board |-> IF q.op = "update" THEN q.seen[1].board ELSE q.board,
   status |-> IF q.name = None THEN q.seen[1].status ELSE q.name]

\* The project, if the request or the todo names one, and the status the todo will have.
Target(q) ==
  [board |-> IF q.op = "update" /\ q.board = None THEN q.seen[1].board ELSE q.board,
   status |-> IF q.name = None THEN q.seen[1].status ELSE q.name]

\* ensureProjectAndStatus, once it has project b with the columns cs.
Checked(q, b, cs) ==
  IF cs = None \/ Target(q).status \notin Statuses(cs) THEN NoJob
  ELSE [q EXCEPT !.at = "write", !.on = b, !.fresh = TRUE]

\* createTodo without a status: the first of the project's.
Picked(q, cs) == [q EXCEPT !.at = "check", !.name = cs[1].name]

\* What is done with the default project: its status is picked, or the todo's checked.
Resolved(q, b, cs) ==
  IF q.op = "default" THEN NoJob ELSE IF q.name = None THEN Picked(q, cs) ELSE Checked(q, b, cs)

\* The default project is looked for, and made if there is none; the index lets
\* there be one.
Default(j) ==
  /\ job[j].at = "default"
  /\ job' = [job EXCEPT ![j] = IF default = None THEN [@ EXCEPT !.at = "make"]
                               ELSE Resolved(@, default, board[default])]
  /\ UNCHANGED <<board, default, todo, torn, loose, split, jobbed>>

MakeDefault(j) ==
  /\ job[j].at = "make"
  /\ IF default # None THEN job' = Finish(j) /\ UNCHANGED <<board, default>>
     ELSE \E b \in Boards :
            /\ Unused(b)
            /\ board' = [board EXCEPT ![b] = NewBoard] /\ default' = b
            /\ job' = [job EXCEPT ![j] = Resolved(@, b, NewBoard)]
  /\ UNCHANGED <<todo, torn, loose, split, jobbed>>

-------------------------------------------------------------------------------
(* Projects *)

CreateBoard(b) ==
  /\ Unused(b)
  /\ board' = [board EXCEPT ![b] = NewBoard]
  /\ \/ UNCHANGED default
     \/ default = None /\ default' = b
  /\ torn' = torn \ {b}
  /\ UNCHANGED <<todo, job, loose, split, jobbed>>

DeleteBoard(b) ==
  /\ board[b] # None
  /\ board' = [board EXCEPT ![b] = None]
  /\ default' = IF default = b THEN None ELSE default
  /\ job' = Orphaned(b, job)
  /\ loose' = loose \union On(b)
  /\ UNCHANGED <<todo, torn, split, jobbed>>

-------------------------------------------------------------------------------
(* Todos *)

\* createTodo with a project and without a status.
Pick(j) ==
  LET q == job[j] IN
  /\ q.at = "pick"
  /\ job' = [job EXCEPT ![j] = IF board[q.board] = None THEN NoJob ELSE Picked(@, board[q.board])]
  /\ UNCHANGED <<board, default, todo, torn, loose, split, jobbed>>

ReadTodo(j) ==
  LET q == job[j] IN
  /\ q.op = "update" /\ q.at = "read"
  /\ job' = IF todo[q.todo] = None THEN Finish(j)
            ELSE [job EXCEPT ![j].at = "check", ![j].seen = <<todo[q.todo]>>]
  /\ UNCHANGED <<board, default, todo, torn, loose, split, jobbed>>

\* Without a project, also one that a status was picked of, the default is looked for.
Check(j) ==
  LET q == job[j]  b == Target(q).board IN
  /\ q.at = "check"
  /\ job' = [job EXCEPT ![j] = IF b = None THEN [@ EXCEPT !.at = "default"]
                               ELSE Checked(@, b, board[b])]
  /\ UNCHANGED <<board, default, todo, torn, loose, split, jobbed>>

\* An update that names the project or the status alone, when the other is no longer
\* the one it was checked with.
Crosses(q) ==
  /\ q.op = "update" /\ todo[q.todo] # None
  /\ \/ q.board = None /\ todo[q.todo].board # q.seen[1].board
     \/ q.name = None /\ todo[q.todo].status # q.seen[1].status

\* The document to be: all of a new one, of an old one the fields the request names.
Written(q) ==
  IF q.op = "todo" THEN [board |-> q.on, status |-> q.name]
  ELSE IF todo[q.todo] = None THEN None
  ELSE [board |-> IF q.board = None THEN todo[q.todo].board ELSE q.board,
        status |-> IF q.name = None THEN todo[q.todo].status ELSE q.name]

WriteTodo(j) ==
  LET q == job[j]  t == q.todo IN
  /\ q.at = "write"
  /\ todo' = [todo EXCEPT ![t] = Written(q)]
  /\ loose' = IF Written(q) = None \/ q.fresh THEN loose \ {t} ELSE loose \union {t}
  /\ split' = IF Crosses(q) THEN split \union {t} ELSE split \ {t}
  /\ job' = Finish(j)
  /\ UNCHANGED <<board, default, torn, jobbed>>

DeleteTodo(t) ==
  /\ todo[t] # None
  /\ todo' = [todo EXCEPT ![t] = None]
  /\ UNCHANGED <<board, default, job, torn, loose, split, jobbed>>

Fail(j) ==
  /\ job[j] # NoJob /\ job' = Finish(j)
  /\ UNCHANGED <<board, default, todo, torn, loose, split, jobbed>>

Next ==
  \/ \E j \in Jobs :
       \/ BeginColumn(j) \/ BeginTodo(j) \/ BeginUpdate(j) \/ BeginDefault(j)
       \/ Read(j) \/ Push(j) \/ Replace(j) \/ Rename(j) \/ Default(j) \/ MakeDefault(j)
       \/ Pick(j) \/ ReadTodo(j) \/ Check(j) \/ WriteTodo(j) \/ Fail(j)
  \/ \E b \in Boards : CreateBoard(b) \/ DeleteBoard(b)
  \/ \E t \in Todos : DeleteTodo(t)

Spec == Init /\ [][Next]_vars

-------------------------------------------------------------------------------
(* Properties *)

TypeOK ==
  /\ \A b \in Boards : board[b] # None => board[b] \in Seq(Column)
  /\ default \in Boards \union {None}
  /\ \A t \in Todos : todo[t] # None => todo[t].board \in Boards
  /\ torn \subseteq Boards /\ loose \subseteq Todos /\ split \subseteq Todos /\ jobbed \in 0..MaxJobs

\* 'Project must have at least one status', whatever deletions overlap: without a
\* status any would be allowed, and the board has nowhere to show its todos.
KeepsAColumn == \A b \in Boards : board[b] # None => board[b] # <<>>

\* The columns are numbered as they stand, through every reorder and deletion;
\* only a push that did not know of another change breaks it.
NumberedInOrder ==
  \A b \in Boards \ torn : board[b] # None =>
    \A k \in DOMAIN board[b] : board[b][k].order = k

\* A todo is in a column of its board, wherever it has been moved and whatever columns
\* are added meanwhile.  It may be in none, until it is next updated, after its column
\* was dropped, renamed or moved or its board deleted since it was checked; and after
\* two updates crossed of which one wrote the project alone and the other the status,
\* each checked with a half that the other was replacing.  Crossing updates that name
\* both, or of which one fails, leave it in a column.
TodoFits ==
  \A t \in Todos \ (loose \union split) : todo[t] # None =>
    board[todo[t].board] # None /\ todo[t].status \in Allowed(todo[t].board)
===============================================================================
