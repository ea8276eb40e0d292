------------------------------- MODULE Documents -------------------------------
(***************************************************************************)
(* The reading of one document (src/documents): a worker of the queue      *)
(* reads it with AI or locally, a person reviews and confirms what was     *)
(* read, or the office lets it be confirmed alone and may undo that; the   *)
(* deadlines of a confirmed reading become tasks.  Every handler loads the *)
(* DocumentExtraction row, works on its copy and saves the whole row; none *)
(* locks it.                                                               *)
(***************************************************************************)
EXTENDS Naturals, FiniteSets

CONSTANTS
    Handlers, \* workers of the queue and requests of people
    MaxTasks, \* bound: tasks made
    MaxLoads  \* bound: times a handler takes the row up

ASSUME DocAssumption == MaxTasks \in Nat /\ MaxLoads \in Nat

VARIABLES
    extraction, \* DocumentExtraction: [status, by: reviewed_by, auto: auto_task_ids]
    queue,      \* messages to process_document in the queue
    level,      \* AutonomyLevel of document_extraction: "review" or "auto"
    agenda,     \* tasks of its deadlines that exist
    made,       \* tasks made so far
    handler,    \* a handler: [pc, copy: the row as it loaded it and changed it]
    loads,      \* loads counted against MaxLoads
    emitted,    \* times the rules were told that the document is confirmed
    confirmed,  \* history: a person's confirmation was saved
    again,      \* history: confirmations of a reading that was confirmed already
    undone,     \* history: automatic confirmations undone
    overtaken,  \* history: a handler loaded the row while another was between loading and saving
    broken      \* history: a handler died or failed between its steps

docVars == <<extraction, queue, level, agenda, made, handler, loads, emitted, confirmed, again, undone, overtaken, broken>>

DocStatus == {"pending", "processing", "review", "confirmed", "failed", "skipped"}
DocRow == [status : DocStatus, by : {"nobody", "person"}, auto : SUBSET (1 .. MaxTasks)]
DocHandler == [pc : {"idle", "start", "reading", "autoTasks", "autoSave", "fails",
                     "tasks", "confirm", "undo", "undoSave", "requeue"}, copy : DocRow]
NewRow == [status |-> "pending", by |-> "nobody", auto |-> {}]
AtRest == [pc |-> "idle", copy |-> NewRow]

\* The upload commits the document and then enqueues its reading, if the broker answers.
DocInit ==
    /\ extraction = NewRow /\ queue \in {0, 1} /\ level \in {"review", "auto"} /\ agenda = {} /\ made = 0
    /\ handler = [h \in Handlers |-> AtRest] /\ loads = 0
    /\ emitted = 0 /\ confirmed = FALSE /\ again = 0 /\ undone = 0 /\ overtaken = FALSE /\ broken = FALSE

\* A reading is long, but it holds the row as "processing", which no person may confirm: only
\* another reading crosses it.
Crosses(h, pc) ==
    \E g \in Handlers \ {h} : handler[g].pc # "idle" /\ (handler[g].pc = "reading" => pc = "start")

Load(h, pc) ==
    /\ handler[h].pc = "idle" /\ loads < MaxLoads
    /\ handler' = [handler EXCEPT ![h] = [pc |-> pc, copy |-> extraction]]
    /\ loads' = loads + 1
    /\ overtaken' = (overtaken \/ Crosses(h, pc))

GoesOn(h, pc) == handler' = [handler EXCEPT ![h].pc = pc]
Stops(h) == handler' = [handler EXCEPT ![h] = AtRest]
SaveAs(h, status) == extraction' = [handler[h].copy EXCEPT !.status = status]

-----------------------------------------------------------------------------
\* Mutant of Readable: a message that comes again reads the document again.
ReadableAgain == extraction.status \in DocStatus

\* process_document: what is confirmed is left alone ...
Readable == extraction.status # "confirmed"

Take(h) ==
    /\ queue > 0
    /\ queue' = queue - 1
    /\ \/ Readable /\ Load(h, "start")
       \/ ~Readable /\ handler[h].pc = "idle" /\ UNCHANGED <<handler, loads, overtaken>>
    /\ UNCHANGED <<extraction, level, agenda, made, emitted, confirmed, again, undone, broken>>

\* ... else the row says "processing" ...
StartReading(h) ==
    /\ handler[h].pc = "start"
    /\ SaveAs(h, "processing")
    /\ GoesOn(h, "reading")
    /\ UNCHANGED <<queue, level, agenda, made, loads, emitted, confirmed, again, undone, overtaken, broken>>

\* ... and after minutes the draft to review; a reading by AI that is sure enough is confirmed alone
\* if the office allows it.  What follows the save may still raise.
FinishReading(h) ==
    /\ handler[h].pc = "reading"
    /\ SaveAs(h, "review")
    /\ Stops(h) \/ GoesOn(h, "fails") \/ (level = "auto" /\ GoesOn(h, "autoTasks"))
    /\ UNCHANGED <<queue, level, agenda, made, loads, emitted, confirmed, again, undone, overtaken, broken>>

\* Skip, a file the antivirus blocks, or any exception.
StopReading(h) ==
    /\ handler[h].pc = "reading"
    /\ \E status \in {"skipped", "failed"} : SaveAs(h, status)
    /\ Stops(h)
    /\ UNCHANGED <<queue, level, agenda, made, loads, emitted, confirmed, again, undone, overtaken, broken>>

\* auto_confirm makes the tasks, if the office lets deadlines become tasks alone ...
AutoTasks(h) ==
    /\ handler[h].pc = "autoTasks"
    /\ \/ /\ made < MaxTasks
          /\ made' = made + 1 /\ agenda' = agenda \cup {made + 1}
          /\ handler' = [handler EXCEPT ![h] = [pc |-> "autoSave", copy |-> [handler[h].copy EXCEPT !.auto = {made + 1}]]]
       \/ /\ handler' = [handler EXCEPT ![h] = [pc |-> "autoSave", copy |-> [handler[h].copy EXCEPT !.auto = {}]]]
          /\ UNCHANGED <<made, agenda>>
    /\ UNCHANGED <<extraction, queue, level, loads, emitted, confirmed, again, undone, overtaken, broken>>

\* ... and saves; an exception after the first task was made ends as "failed", and so does one after the
\* save, before or after the rules were told.
AutoSave(h) ==
    /\ handler[h].pc = "autoSave"
    /\ \/ SaveAs(h, "confirmed") /\ emitted' = emitted + 1 /\ UNCHANGED broken /\ Stops(h)
       \/ SaveAs(h, "confirmed") /\ emitted' \in {emitted, emitted + 1} /\ broken' = TRUE /\ GoesOn(h, "fails")
       \/ SaveAs(h, "failed") /\ UNCHANGED emitted /\ broken' = TRUE /\ Stops(h)
    /\ UNCHANGED <<queue, level, agenda, made, loads, confirmed, again, undone, overtaken>>

\* The exception after the save: the row as this reading holds it is saved over, as "failed".
FailReading(h) ==
    /\ handler[h].pc = "fails"
    /\ SaveAs(h, "failed")
    /\ Stops(h)
    /\ UNCHANGED <<queue, level, agenda, made, loads, emitted, confirmed, again, undone, overtaken, broken>>

-----------------------------------------------------------------------------
\* DocumentExtractionConfirmView takes a reading that is ready or confirmed ...
AskConfirm(h) ==
    /\ extraction.status \in {"review", "confirmed"}
    /\ Load(h, "tasks")
    /\ again' = IF extraction.status = "confirmed" THEN again + 1 ELSE again
    /\ UNCHANGED <<extraction, queue, level, agenda, made, emitted, confirmed, undone, broken>>

\* ... makes the tasks of what the person left in it ...
MakeTasks(h) ==
    /\ handler[h].pc = "tasks"
    /\ \/ made < MaxTasks /\ made' = made + 1 /\ agenda' = agenda \cup {made + 1}
       \/ UNCHANGED <<made, agenda>>
    /\ GoesOn(h, "confirm")
    /\ UNCHANGED <<extraction, queue, level, loads, emitted, confirmed, again, undone, overtaken, broken>>

\* ... and saves; the rules are told once.
Confirms(copy) == [copy EXCEPT !.status = "confirmed", !.by = "person"]

ConfirmReading(h) ==
    /\ handler[h].pc = "confirm"
    /\ extraction' = Confirms(handler[h].copy)
    /\ emitted' = IF handler[h].copy.status = "confirmed" THEN emitted ELSE emitted + 1
    /\ confirmed' = TRUE
    /\ Stops(h)
    /\ UNCHANGED <<queue, level, agenda, made, loads, again, undone, overtaken, broken>>

\* undo_auto: only what nobody reviewed; its tasks are deleted ...
Undoable == extraction.status = "confirmed" /\ extraction.by = "nobody"

AskUndo(h) ==
    /\ Undoable
    /\ Load(h, "undo")
    /\ UNCHANGED <<extraction, queue, level, agenda, made, emitted, confirmed, again, undone, broken>>

DeleteTasks(h) ==
    /\ handler[h].pc = "undo"
    /\ agenda' = agenda \ handler[h].copy.auto
    /\ GoesOn(h, "undoSave")
    /\ UNCHANGED <<extraction, queue, level, made, loads, emitted, confirmed, again, undone, overtaken, broken>>

\* ... the reading goes back to review, and the office to reviewing everything.
UndoSave(h) ==
    /\ handler[h].pc = "undoSave"
    /\ extraction' = [handler[h].copy EXCEPT !.status = "review", !.auto = {}]
    /\ level' = "review"
    /\ undone' = undone + 1
    /\ Stops(h)
    /\ UNCHANGED <<queue, agenda, made, loads, emitted, confirmed, again, overtaken, broken>>

\* DocumentExtractionReprocessView: what is confirmed, waiting or being read is left alone ...
Reprocessable == extraction.status \in {"review", "failed", "skipped"}

AskReprocess(h) ==
    /\ Reprocessable
    /\ Load(h, "requeue")
    /\ UNCHANGED <<extraction, queue, level, agenda, made, emitted, confirmed, again, undone, broken>>

\* ... else the row waits again, and the message is sent if the broker answers.
Requeue(h) ==
    /\ handler[h].pc = "requeue"
    /\ extraction' = [extraction EXCEPT !.status = "pending"]
    /\ queue' \in {queue, queue + 1}
    /\ Stops(h)
    /\ UNCHANGED <<level, agenda, made, loads, emitted, confirmed, again, undone, overtaken, broken>>

\* set_level: the office raises or lowers the autonomy of its readings.
SetLevel ==
    /\ level' \in {"review", "auto"} \ {level}
    /\ UNCHANGED <<extraction, queue, agenda, made, handler, loads, emitted, confirmed, again, undone, overtaken, broken>>

\* A process dies: the message of a worker (the queue gives up after max_attempts) comes again.
HandlerDies(h) ==
    /\ handler[h].pc # "idle"
    /\ queue' \in IF handler[h].pc \in {"start", "reading", "autoTasks", "autoSave", "fails"} THEN {queue, queue + 1} ELSE {queue}
    /\ broken' = (broken \/ handler[h].pc \notin {"start", "reading"})
    /\ Stops(h)
    /\ UNCHANGED <<extraction, level, agenda, made, loads, emitted, confirmed, again, undone, overtaken>>

DocNext ==
    \/ \E h \in Handlers :
        \/ Take(h) \/ StartReading(h) \/ FinishReading(h) \/ StopReading(h) \/ AutoTasks(h) \/ AutoSave(h) \/ FailReading(h)
        \/ AskConfirm(h) \/ MakeTasks(h) \/ ConfirmReading(h) \/ AskUndo(h) \/ DeleteTasks(h) \/ UndoSave(h)
        \/ AskReprocess(h) \/ Requeue(h) \/ HandlerDies(h)
    \/ SetLevel

DocSpec == DocInit /\ [][DocNext]_docVars

-----------------------------------------------------------------------------
DocTypeOK ==
    /\ extraction \in DocRow /\ handler \in [Handlers -> DocHandler]
    /\ queue \in Nat /\ level \in {"review", "auto"} /\ agenda \subseteq 1 .. made /\ made \in 0 .. MaxTasks
    /\ {loads, emitted, again, undone} \subseteq Nat /\ {confirmed, overtaken, broken} \subseteq BOOLEAN

\* What a person confirmed is not taken back by a reading that is repeated, by a worker that comes
\* back from the dead or by an undo (src/documents/pipeline.py:266), unless a handler loaded the row
\* while another was between loading and saving it, or two workers read it at once.  A reading alone is
\* not such a moment: the row says "processing" for its minutes and no person may confirm it.
PersonStands == confirmed /\ ~overtaken => extraction.status = "confirmed" /\ extraction.by = "person"

\* The tasks of a document are those of its confirmation: one that is not confirmed, or whose
\* automatic confirmation was undone, has none in the agenda, and each confirmation gives one set and
\* tells the rules once (src/documents/pipeline.py:395, 437); unless one handler overtook
\* another or one broke.
TasksOfConfirmed ==
    ~overtaken /\ ~broken =>
        /\ (\A h \in Handlers : handler[h].pc \in {"idle", "reading"}) /\ extraction.status # "confirmed" => agenda = {}
        /\ (\A h \in Handlers : handler[h].pc # "undo") => Cardinality(agenda) <= 1 + again
        /\ emitted <= 1 + undone

\* A confirmation holds, with the tasks it made: PersonStands and TasksOfConfirmed.
ConfirmationHolds == PersonStands /\ TasksOfConfirmed
=============================================================================
