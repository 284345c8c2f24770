------------------------------ MODULE Attachments ------------------------------
(* Files sent to a room: a record is written as processing, the file is put into *)
(* the object store under its name and the time, the record is marked, and the    *)
(* AI service is told. A client may choose the record's id, and so may send a      *)
(* file again under it; another may delete the object, which no record knows of.   *)
EXTENDS Naturals

CONSTANTS Uploads,    \* sent files, each with a content of its own
          Ids,        \* record ids that clients choose
          Names,      \* file names, reduced to letters and digits
          None,
          MaxTries,   \* bound, MAX_RETRIES in the code: puts of one upload
          MaxTime,    \* bound: milliseconds
          MaxFaults   \* bound: failing calls, slow puts

VARIABLES att,      \* Attachment records: [status, key, file] or None
          object,   \* the object store
          up,       \* uploads
          late,     \* puts given up on that may still be carried out
          clock,
          crowded,  \* history: records with two uploads at a time
          twins,    \* history: names sent twice in a millisecond, with that millisecond
          deleted,  \* history: keys whose object was deleted
          faults

vars == <<att, object, up, late, clock, crowded, twins, deleted, faults>>

\* A record has the client's id, or one of its own.
Records == Ids \union Uploads

\* The path of a file in its room's folder.
Keys == Names \X (0 .. MaxTime)

\* A record of a file.
Attachment == [status : {"processing", "uploaded", "failed"}, key : Keys, file : Uploads]

Upload ==
  [pc : {"idle", "find", "create", "put", "mark", "event", "fail", "over"},
   id : Records \union {None}, name : Names \union {None}, key : Keys \union {None},
   tries : 0 .. MaxTries, told : {"nothing", "ok", "error"}]

\* What the modules that use this one assume of the constants.
ConstantsAssumption ==
  /\ MaxTries \in Nat \ {0} /\ MaxTime \in Nat /\ MaxFaults \in Nat
  /\ None \notin Attachment /\ None \notin Keys /\ None \notin Uploads

NoUpload == [pc |-> "idle", id |-> None, name |-> None, key |-> None, tries |-> 0, told |-> "nothing"]

TypeOK ==
  /\ att \in [Records -> Attachment \union {None}]
  /\ object \in [Keys -> Uploads \union {None}]
  /\ up \in [Uploads -> Upload]
  /\ late \subseteq Keys \X Uploads
  /\ clock \in 0 .. MaxTime
  /\ crowded \subseteq Records /\ twins \subseteq Keys /\ deleted \subseteq Keys
  /\ faults \in 0 .. MaxFaults

Init ==
  /\ att = [r \in Records |-> None]
  /\ object = [k \in Keys |-> None]
  /\ up = [u \in Uploads |-> NoUpload]
  /\ late = {} /\ clock = 0
  /\ crowded = {} /\ twins = {} /\ deleted = {}
  /\ faults = 0

history == <<crowded, twins, deleted>>

-------------------------------------------------------------------------------
(* uploadFileForRoom *)

Goto(u, pc) == up' = [up EXCEPT ![u].pc = pc]
End(u, told) == up' = [up EXCEPT ![u].pc = "over", ![u].told = told]
Fault == faults < MaxFaults /\ faults' = faults + 1

Tick == clock < MaxTime /\ clock' = clock + 1 /\ UNCHANGED <<att, object, up, late, history, faults>>

\* Mutant: the name alone.
KeyOfName(name) == <<name, 0>>

\* The reduced name, the time and the extension.
KeyOf(name) == <<name, clock>>

\* Uploads under way for a record, and uploads of one name begun in this millisecond.
For(r) == {u \in Uploads : up[u].id = r /\ up[u].pc # "over"}
SameMoment(name) == {u \in Uploads : up[u].key = <<name, clock>>}

\* Files of one message are uploaded side by side: they have one time.
Send(u, r, name) ==
  /\ up[u].pc = "idle" /\ r \in Ids \union {u}
  /\ up' = [up EXCEPT ![u] = [NoUpload EXCEPT !.pc = IF r = u THEN "create" ELSE "find", !.id = r,
                                              !.name = name, !.key = KeyOf(name)]]
  /\ crowded' = IF For(r) = {} THEN crowded ELSE crowded \union {r}
  /\ twins' = IF SameMoment(name) = {} THEN twins ELSE twins \union {<<name, clock>>}
  /\ UNCHANGED <<att, object, late, clock, deleted, faults>>

Record(u) == [status |-> "processing", key |-> up[u].key, file |-> u]

\* A write of the record of r: done, or it fails, and may have been done all the same.
Write(r, record) == att' = [att EXCEPT ![r] = record]
WriteFails(r, record) == Fault /\ (Write(r, record) \/ UNCHANGED att)

\* findByIdAndUpdate: the record of an earlier upload is overwritten.
Find(u) ==
  /\ up[u].pc = "find"
  /\ \/ att[up[u].id] = None /\ Goto(u, "create") /\ UNCHANGED <<att, faults>>
     \/ att[up[u].id] # None /\ Write(up[u].id, Record(u)) /\ Goto(u, "put") /\ UNCHANGED faults
     \/ att[up[u].id] # None /\ WriteFails(up[u].id, Record(u)) /\ End(u, "error")
     \/ att[up[u].id] = None /\ Fault /\ UNCHANGED att /\ End(u, "error")
  /\ UNCHANGED <<object, late, clock, history>>

\* A second record of one id is refused, and so is the upload.
Create(u) ==
  /\ up[u].pc = "create"
  /\ \/ att[up[u].id] # None /\ End(u, "error") /\ UNCHANGED <<att, faults>>
     \/ att[up[u].id] = None /\ Write(up[u].id, Record(u)) /\ Goto(u, "put") /\ UNCHANGED faults
     \/ att[up[u].id] = None /\ WriteFails(up[u].id, Record(u)) /\ End(u, "error")
  /\ UNCHANGED <<object, late, clock, history>>

\* A put fails, or takes longer than anyone waits, and is tried again.
Put(u) ==
  /\ up[u].pc = "put"
  /\ Goto(u, "mark")
  /\ object' = [object EXCEPT ![up[u].key] = u]
  /\ UNCHANGED <<att, late, clock, history, faults>>

Retry(u) ==
  /\ up[u].pc = "put" /\ Fault
  /\ up' = [up EXCEPT ![u].tries = @ + 1, ![u].pc = IF up[u].tries + 1 = MaxTries THEN "fail" ELSE "put"]
  /\ late' \in {late, late \union {<<up[u].key, u>>}}
  /\ UNCHANGED <<att, object, clock, history>>

LatePut ==
  /\ \E p \in late : object' = [object EXCEPT ![p[1]] = p[2]] /\ late' = late \ {p}
  /\ UNCHANGED <<att, up, clock, history, faults>>

Marked(r, status) == [att[r] EXCEPT !.status = status]

Mark(u) ==
  /\ up[u].pc = "mark"
  /\ \/ Write(up[u].id, Marked(up[u].id, "uploaded")) /\ Goto(u, "event") /\ UNCHANGED faults
     \/ WriteFails(up[u].id, Marked(up[u].id, "uploaded")) /\ Goto(u, "fail")
  /\ UNCHANGED <<object, late, clock, history>>

\* The AI service is told of a file in a message; nobody looks whether it could be.
Dispatch(u) ==
  /\ up[u].pc = "event"
  /\ End(u, "ok")
  /\ UNCHANGED <<att, object, late, clock, history, faults>>

\* The sender is told an error, be the record marked or not.
MarkFailed(u) ==
  /\ up[u].pc = "fail"
  /\ \/ Write(up[u].id, Marked(up[u].id, "failed")) /\ UNCHANGED faults
     \/ WriteFails(up[u].id, Marked(up[u].id, "failed"))
  /\ End(u, "error")
  /\ UNCHANGED <<object, late, clock, history>>

-------------------------------------------------------------------------------
\* The object of any folder and name that a caller gives; its record stays.
DeleteFile(k) ==
  /\ object[k] # None
  /\ object' = [object EXCEPT ![k] = None]
  /\ deleted' = deleted \union {k}
  /\ UNCHANGED <<att, up, late, clock, crowded, twins, faults>>

\* getAttachments: every record of the room, whatever its status.
GetAttachments == {r \in Records : att[r] # None}

Next ==
  \/ Tick \/ LatePut \/ (\E k \in Keys : DeleteFile(k))
  \/ \E u \in Uploads, r \in Records, name \in Names : Send(u, r, name)
  \/ \E u \in Uploads :
       Find(u) \/ Create(u) \/ Put(u) \/ Retry(u) \/ Mark(u) \/ Dispatch(u) \/ MarkFailed(u)

Spec == Init /\ [][Next]_vars

-------------------------------------------------------------------------------
(* Properties *)

\* A file listed as uploaded opens, and is the one its record was written for, however
\* often its puts were tried, unless somebody deleted the object; of two files of one name
\* and millisecond it may be either. A sender who was told so finds it listed as uploaded.
\* This is for records with one upload at a time.
OpensItsFile ==
  \A r \in GetAttachments \ crowded :
    LET key == att[r].key
        file == att[r].file
    IN
    /\ att[r].status = "uploaded" /\ key \notin deleted =>
         object[key] # None /\ (key \notin twins => object[key] = file)
    /\ up[file].told = "ok" => att[r].status = "uploaded"
===============================================================================
