--------------------------- MODULE DatasetExport ---------------------------
(***************************************************************************)
(* local/data/exportDataSet.py: from a set of lineups the script collects  *)
(* the ids of the objects to export, topic by topic, and writes the SQL    *)
(* commands that dump them.                                                *)
(*                                                                         *)
(* The source database is a graph: rows that are stored, rows whose Thrift *)
(* record holds no object, and references between ids.  An id may be       *)
(* referenced and not stored.  A station refers to its schedule days, as   *)
(* the column schedule_day.station says.  exportedIds is one set, since an *)
(* id belongs to one topic.  An exception of the script's own is the       *)
(* control state "crashed", one of the database "failed".  The lists of a  *)
(* Thrift object are taken to be present.                                  *)
(***************************************************************************)
EXTENDS Integers, FiniteSets, Sequences, FiniteSetsExt, SequencesExt

CONSTANTS
  Objects,      \* ids of the source database, all topics
  Collections,  \* topics exported whole (14 in the script)
  TopicOf,      \* the topic of an id
  Databases,    \* bound: contents of the source database and request
  ChunkSize,    \* ids per SELECT, 1000
  FileSize,     \* ids per dump file, 512
  None

\* The topics with a handler of their own, and those they refer to.
SelectedTopics ==
  {"affiliation", "team", "university", "conference", "lineup", "headend",
   "station", "day", "program", "person", "image"}

Topics == Collections \cup SelectedTopics

\* What a reference may be, for the handlers below.
Reference ==
  {<<"affiliation", "station">>, <<"lineup", "station">>,
   <<"lineup", "headend">>, <<"station", "day">>, <<"station", "image">>,
   <<"day", "program">>, <<"program", "program">>, <<"program", "person">>,
   <<"program", "image">>, <<"person", "program">>, <<"person", "image">>,
   <<"team", "image">>, <<"university", "image">>, <<"conference", "image">>}

ASSUME ExportAssumption ==
  /\ IsFiniteSet(Objects)
  /\ None \notin Objects
  /\ Collections \cap SelectedTopics = {}
  /\ TopicOf \in [Objects -> Topics]
  /\ \A d \in Databases :
       /\ d.stored \subseteq Objects
       /\ d.empty \subseteq d.stored
       /\ d.window \subseteq {o \in Objects : TopicOf[o] = "day"}
       /\ d.requested \subseteq {o \in Objects : TopicOf[o] = "lineup"}
       /\ d.refs \subseteq Objects \X Objects
       /\ \A r \in d.refs : <<TopicOf[r[1]], TopicOf[r[2]]>> \in Reference
  /\ ChunkSize \in Nat
  /\ FileSize \in Nat

VARIABLES
  db,        \* stored, empty, window (days asked for), requested, refs
  pc,        \* the call of the main program that runs next
  exported,  \* exportedIds
  todo,      \* chunks the running handler has still to select
  last,      \* the row the running handler read last
  sql        \* the commands in export_data.sql

vars == <<db, pc, exported, todo, last, sql>>

-----------------------------------------------------------------------------
(* Reading the database.                                                   *)

OfTopic(ids, t) == {o \in ids : TopicOf[o] = t}

Rows(t) == OfTopic(db.stored, t)

Refs(ids, t) ==
  {p \in Objects : TopicOf[p] = t /\ \E o \in ids : <<o, p>> \in db.refs}

\* Mutants: slices that overlap by one; a last, shorter slice forgotten.
chunkedListOverlap(list, count) ==
  LET c == Max({1, count})
  IN  [i \in 1 .. (Len(list) + c - 1) \div c |->
         SubSeq(list, (i - 1) * c + 1, Min({i * c + 1, Len(list)}))]

chunkedListShort(list, count) ==
  LET c == Max({1, count})
  IN  [i \in 1 .. Len(list) \div c |-> SubSeq(list, (i - 1) * c + 1, i * c)]

\* list[i:i + count] for i in range(0, len(list), max(1, count))
chunkedList(list, count) ==
  LET c == Max({1, count})
  IN  [i \in 1 .. (Len(list) + c - 1) \div c |->
         SubSeq(list, (i - 1) * c + 1, Min({i * c, Len(list)}))]

-----------------------------------------------------------------------------
(* The calls of the main program, in order; a handler that works in chunks *)
(* takes a snapshot of its ids when it starts.                             *)

\* Mutant: the lineups are read after the schedules.
AfterLineupsLate ==
  [collections |-> "affiliates", affiliates |-> "teams",
   teams |-> "universities", universities |-> "conferences",
   conferences |-> "schedules", schedules |-> "lineups",
   lineups |-> "programs", programs |-> "persons",
   persons |-> "stations", stations |-> "write"]

After ==
  [collections |-> "affiliates", affiliates |-> "teams",
   teams |-> "universities", universities |-> "conferences",
   conferences |-> "lineups", lineups |-> "schedules",
   schedules |-> "programs", programs |-> "persons",
   persons |-> "stations", stations |-> "write"]

ChunkTopic ==
  [schedules |-> "station", programs |-> "program", persons |-> "person",
   stations |-> "station"]

Start(step) ==
  /\ pc' = step
  /\ last' = None
  /\ IF step \in DOMAIN ChunkTopic
     THEN \E list \in SetToSeqs(OfTopic(exported', ChunkTopic[step])) :
            todo' = chunkedList(list, ChunkSize)
     ELSE todo' = <<>>

Crash == pc' = "crashed" /\ UNCHANGED <<db, exported, todo, last, sql>>

\* A handler that reads whole tables adds ids and returns.
Finish(step, ids) ==
  /\ exported' = exported \cup ids
  /\ Start(After[step])
  /\ UNCHANGED <<db, sql>>

\* A handler adds the ids one chunk gave it and goes on to the next.
EndChunk(ids, row) ==
  /\ exported' = exported \cup ids
  /\ todo' = Tail(todo)
  /\ last' = row
  /\ UNCHANGED <<db, pc, sql>>

Chunk == ToSet(Head(todo))

\* The last row of a cursor over rows; it has no order.
LastRow(rows) == IF rows = {} THEN {last} ELSE rows

Init ==
  /\ db \in Databases
  /\ pc = "connect"
  /\ exported = {}
  /\ todo = <<>>
  /\ last = None
  /\ sql = {}

\* Arguments that cannot be parsed or a refused connection: sys.exit(1).
Connect ==
  /\ pc = "connect"
  /\ pc' \in {"collections", "exited"}
  /\ UNCHANGED <<db, exported, todo, last, sql>>

\* execute or the cursor raises; nothing catches it.
QueryFails ==
  /\ pc \in DOMAIN After
  /\ pc' = "failed"
  /\ UNCHANGED <<db, exported, todo, last, sql>>

handleFullCollection ==
  /\ pc = "collections"
  /\ Finish(pc, {o \in db.stored : TopicOf[o] \in Collections})

handleAffiliates ==
  /\ pc = "affiliates"
  /\ LET rows == Rows("affiliation")
     IN  IF rows \cap db.empty # {}
         THEN Crash
         ELSE Finish(pc, rows \cup Refs(rows, "station"))

handleTeams ==
  /\ pc = "teams"
  /\ LET rows == Rows("team")
     IN  IF rows \cap db.empty # {}
         THEN Crash
         ELSE Finish(pc, rows \cup Refs(rows, "image"))

\* These two look whether the record holds an object.
handleUniversities ==
  /\ pc = "universities"
  /\ LET rows == Rows("university")
     IN  Finish(pc, rows \cup Refs(rows \ db.empty, "image"))

handleConferences ==
  /\ pc = "conferences"
  /\ LET rows == Rows("conference")
     IN  Finish(pc, rows \cup Refs(rows \ db.empty, "image"))

\* An empty list of lineups makes an empty IN list, which the server rejects.
handleLineups ==
  /\ pc = "lineups"
  /\ LET rows == Rows("lineup") \cap db.requested
     IN  IF db.requested = {} \/ rows \cap db.empty # {}
         THEN Crash
         ELSE Finish(pc, rows \cup Refs(rows, "station") \cup Refs(rows, "headend"))

\* Mutants: the condition on the station forgotten; the average printed after
\* the loop, as in handlePrograms.
handleSchedulesAllStations ==
  /\ pc = "schedules"
  /\ todo # <<>>
  /\ LET days == (Rows("day") \cap db.window) \ db.empty
     IN  EndChunk(days \cup Refs(days, "program"), None)

handleSchedulesAverageAfter ==
  /\ pc = "schedules"
  /\ todo # <<>>
  /\ LET days == (Rows("day") \cap db.window \cap Refs(Chunk, "day")) \ db.empty
     IN  IF OfTopic(exported, "day") \cup days = {}
         THEN Crash
         ELSE EndChunk(days \cup Refs(days, "program"), None)

\* The rows of a chunk of stations.  The average printed at a multiple of
\* 1000 days divides by zero when the first row of all holds no object.
handleSchedules ==
  /\ pc = "schedules"
  /\ todo # <<>>
  /\ LET rows == Rows("day") \cap db.window \cap Refs(Chunk, "day")
         days == rows \ db.empty
         none == OfTopic(exported, "day") = {}
     IN  \/ none /\ rows # days /\ Crash
         \/ /\ none => (rows = {} \/ days # {})
            /\ EndChunk(days \cup Refs(days, "program"), None)

\* The closing print reads a variable that only the loop assigns.
endSchedules ==
  /\ pc = "schedules"
  /\ todo = <<>>
  /\ IF OfTopic(exported, "station") = {} THEN Crash ELSE Finish(pc, {})

\* Programs added by a relationship are not in the snapshot.  The average
\* printed after a chunk divides by the number of programs read so far.
handlePrograms ==
  /\ pc = "programs"
  /\ todo # <<>>
  /\ LET rows == Rows("program") \cap Chunk
     IN  \E row \in LastRow(rows) :
           IF row = None \/ rows \cap db.empty # {}
           THEN Crash
           ELSE EndChunk(Refs(rows, "image") \cup Refs(rows, "program")
                           \cup Refs(rows, "person"), row)

\* The loop over the cursor only decodes: what follows it, outside the loop
\* by its indentation, sees the last row read, of an earlier chunk if this
\* one gave none.
handlePerson ==
  /\ pc = "persons"
  /\ todo # <<>>
  /\ \E row \in LastRow(Rows("person") \cap Chunk) :
       IF row = None \/ row \in db.empty
       THEN Crash
       ELSE EndChunk(Refs({row}, "image") \cup Refs({row}, "program"), row)

handleStations ==
  /\ pc = "stations"
  /\ todo # <<>>
  /\ LET rows == Rows("station") \cap Chunk
     IN  IF rows \cap db.empty # {}
         THEN Crash
         ELSE EndChunk(Refs(rows, "image"), None)

endHandler ==
  /\ pc \in {"programs", "persons", "stations"}
  /\ todo = <<>>
  /\ Finish(pc, {})

\* One \copy command per chunk, to a file named by topic and fileCount.  The
\* order of list(ids) matters to no one.
exportRecordsToFile(t) ==
  LET chunks == chunkedList(SetToSeq(OfTopic(exported, t)), FileSize)
  IN  {[topic |-> t, file |-> i - 1, ids |-> ToSet(chunks[i])] : i \in DOMAIN chunks}

exportAll ==
  /\ pc = "write"
  /\ sql' = UNION {exportRecordsToFile(t) : t \in Topics}
  /\ pc' = "script"
  /\ UNCHANGED <<db, exported, todo, last>>

\* runExportData.sh, which runs the commands, is written last.
createExportScript ==
  /\ pc = "script"
  /\ pc' = "done"
  /\ UNCHANGED <<db, exported, todo, last, sql>>

Next ==
  \/ Connect
  \/ QueryFails
  \/ handleFullCollection
  \/ handleAffiliates
  \/ handleTeams
  \/ handleUniversities
  \/ handleConferences
  \/ handleLineups
  \/ handleSchedules
  \/ endSchedules
  \/ handlePrograms
  \/ handlePerson
  \/ handleStations
  \/ endHandler
  \/ exportAll
  \/ createExportScript

Spec == Init /\ [][Next]_vars

-----------------------------------------------------------------------------
(* Properties.                                                             *)

Steps == DOMAIN After \cup {"connect", "write", "script", "done", "crashed", "failed", "exited"}

\* The script's variables keep their types: chunks, the last row and the
\* commands name only ids that were collected.
TypeOK ==
  /\ pc \in Steps
  /\ exported \subseteq Objects
  /\ todo \in Seq(Seq(exported))
  /\ last \in exported \cup {None}
  /\ \A c \in sql : c.topic \in Topics /\ c.file \in Nat /\ c.ids \subseteq exported

\* Only what belongs to the request is exported: an id is of a table that is
\* exported whole, a requested lineup, or named by an object that is itself
\* exported.  Each handler adds ids that another one relies on.
NothingUnrelated ==
  \A o \in exported :
    \/ o \in db.stored /\ TopicOf[o] \in Collections \cup
                            {"affiliation", "team", "university", "conference"}
    \/ o \in db.requested
    \/ \E p \in exported : <<p, o>> \in db.refs

\* Every station that is exported, a lineup's or an affiliation's, has the
\* days asked for and, if it is stored, its logos exported.  The order of
\* the handlers and the chunks must not let one slip.
StationsComplete ==
  pc \in {"write", "script", "done"} =>
    \A s \in OfTopic(exported, "station") :
      /\ (Rows("day") \cap db.window \cap Refs({s}, "day")) \ db.empty \subseteq exported
      /\ s \in db.stored => Refs({s}, "image") \subseteq exported

\* What handlePrograms is for: every stored program of an event of an exported
\* day has its images, related programs and credited persons exported.
EventProgramsComplete ==
  pc \in {"persons", "stations", "write", "script", "done"} =>
    \A p \in Rows("program") \cap Refs(OfTopic(exported, "day"), "program") :
      Refs({p}, "image") \cup Refs({p}, "program") \cup Refs({p}, "person")
        \subseteq exported

\* The dump holds each exported id once: every id is in exactly one command,
\* of its own topic, and no two commands write the same file.
WrittenOnce ==
  pc \in {"script", "done"} =>
    /\ \A o \in exported :
         {c.topic : c \in {d \in sql : o \in d.ids}} = {TopicOf[o]}
         /\ Cardinality({c \in sql : o \in c.ids}) = 1
    /\ \A c, d \in sql : c.topic = d.topic /\ c.file = d.file => c = d

\* The database holds what a run needs: every row has its object, every id
\* that is referenced is stored, and the request leads to a station.
GoodData ==
  /\ db.empty = {}
  /\ \A r \in db.refs : r[2] \in db.stored
  /\ Refs(Rows("lineup") \cap db.requested, "station") # {}

\* On good data only the database can stop the script: the averages it prints
\* never divide by zero and the variables its loops leave are bound.
GoodDataExports == GoodData => pc # "crashed"

\* "all related objects referenced by schedule events": every stored person
\* that is exported has its images and award programs exported.
PersonsComplete ==
  pc = "done" =>
    \A q \in Rows("person") \cap exported :
      Refs({q}, "image") \cup Refs({q}, "program") \subseteq exported

=============================================================================
