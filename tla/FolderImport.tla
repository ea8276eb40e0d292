----------------------------- MODULE FolderImport -----------------------------
(***************************************************************************)
(* The import of an office's clients from folders (src/imports/folders.py):*)
(* a preview lists the folders, one request starts it, and a task of the   *)
(* queue makes or finds a contact for each folder and stores its files, in *)
(* steps of 40 seconds that save where they stopped and queue the next.    *)
(* A task that dies or raises is delivered again, MaxTries times in all    *)
(* (Q_CLUSTER).                                                            *)
(***************************************************************************)
EXTENDS Naturals, Sequences, FiniteSets

CONSTANTS
    Jobs,        \* previews of the same folders: the first import and the next ones
    Zips,        \* those whose files come from a .zip kept until the end; the others come from Drive
    Plan,        \* the folders: a sequence of [name, cpf, files: a sequence]
    NoCpf,       \* a folder without a document number in its name
    Askers,      \* requests that start or discard an import
    Importers,   \* workers of the queue
    NoJob,       \* a process without an import
    MaxTries,    \* Q_CLUSTER max_attempts
    MaxAsks,     \* bound: requests made
    MaxPauses,   \* bound: steps that ran out of time
    MaxTrouble   \* bound: deaths, failures, and answers the broker did not give

Files == UNION {{Plan[i].files[n] : n \in DOMAIN Plan[i].files} : i \in DOMAIN Plan}
Names == {Plan[i].name : i \in DOMAIN Plan}
Cpfs == {Plan[i].cpf : i \in DOMAIN Plan}

ASSUME ImportAssumption ==
    /\ Zips \subseteq Jobs /\ NoJob \notin Jobs /\ MaxTries \in Nat \ {0}
    /\ IsFiniteSet(Importers) /\ IsFiniteSet(Askers)
    /\ Plan \in Seq([name : Names, cpf : Cpfs, files : Seq(Files)])

VARIABLES
    import,     \* FolderImport: [status, done: progress.feitas, cur: progress.atual,
                \*               kept: the plan, and the .zip of one, are there]
    contacts,   \* the contacts of the office, in the order they were made
    docs, links, \* Document and ClientDocument rows of each contact and file
    messages,   \* messages in the queue of each import and attempt
    request,    \* a request: [pc, job]
    step,       \* a worker: [pc, job, attempt, done, cur, known: its index of contacts, already]
    asks, pauses, trouble,
    missed,     \* history: files of an import that could not be fetched
    abandoned,  \* history: imports whose message was lost for good
    together,   \* history: two imports ran at once
    torn        \* history: a step ended between a document and its link

importVars == <<import, contacts, docs, links, messages, request, step, asks, pauses, trouble, missed, abandoned, together,
                torn>>

MaxContacts == Len(Plan) * Cardinality(Importers)
NoFolder == [pos |-> 0, n |-> 0, contact |-> 0]
NoRequest == [pc |-> "idle", job |-> NoJob]
NoStep == [pc |-> "idle", job |-> NoJob, attempt |-> 0, done |-> 0, cur |-> NoFolder, known |-> {}, already |-> {}]

ImportInit ==
    /\ import = [j \in Jobs |-> [status |-> "listed", done |-> 0, cur |-> NoFolder, kept |-> TRUE]]
    /\ contacts = <<>>
    /\ docs = [cf \in (1 .. MaxContacts) \X Files |-> 0] /\ links = docs
    /\ messages = [m \in Jobs \X (1 .. MaxTries) |-> 0]
    /\ request = [r \in Askers |-> NoRequest] /\ step = [w \in Importers |-> NoStep]
    /\ asks = 0 /\ pauses = 0 /\ trouble = 0 /\ missed = {} /\ abandoned = {} /\ together = FALSE /\ torn = FALSE

Mishap == trouble < MaxTrouble /\ trouble' = trouble + 1

-----------------------------------------------------------------------------
\* FolderImportRunView.post loads a preview nobody used ...
AskImport(r, j) ==
    /\ request[r].pc = "idle" /\ import[j].status = "listed" /\ asks < MaxAsks
    /\ asks' = asks + 1
    /\ request' = [request EXCEPT ![r] = [pc |-> "start", job |-> j]]
    /\ UNCHANGED <<import, contacts, docs, links, messages, step, pauses, trouble, missed, abandoned, together, torn>>

\* ... and start says it is running ...
SaveStart(r) ==
    LET j == request[r].job IN
    /\ request[r].pc = "start"
    /\ import' = [import EXCEPT ![j].status = "running", ![j].done = 0, ![j].cur = NoFolder]
    /\ request' = [request EXCEPT ![r].pc = "enqueue"]
    /\ UNCHANGED <<contacts, docs, links, messages, step, asks, pauses, trouble, missed, abandoned, together, torn>>

\* ... and queues it; the broker may be down.
EnqueueStart(r) ==
    LET j == request[r].job IN
    /\ request[r].pc = "enqueue"
    /\ request' = [request EXCEPT ![r] = NoRequest]
    /\ \/ messages' = [messages EXCEPT ![<<j, 1>>] = messages[<<j, 1>>] + 1] /\ UNCHANGED <<trouble, abandoned>>
       \/ Mishap /\ abandoned' = abandoned \cup {j} /\ UNCHANGED messages
    /\ UNCHANGED <<import, contacts, docs, links, step, asks, pauses, missed, together, torn>>

\* FolderImportDetailView.delete, and cleanup_stale for a preview two days old: only a preview.
AskDiscard(r, j) ==
    /\ request[r].pc = "idle" /\ import[j].status = "listed" /\ asks < MaxAsks
    /\ asks' = asks + 1
    /\ request' = [request EXCEPT ![r] = [pc |-> "discard", job |-> j]]
    /\ UNCHANGED <<import, contacts, docs, links, messages, step, pauses, trouble, missed, abandoned, together, torn>>

SaveDiscard(r) ==
    LET j == request[r].job IN
    /\ request[r].pc = "discard"
    /\ import' = [import EXCEPT ![j].status = "canceled", ![j].kept = FALSE]
    /\ abandoned' = IF import[j].status = "running" /\ j \in Zips THEN abandoned \cup {j} ELSE abandoned
    /\ request' = [request EXCEPT ![r] = NoRequest]
    /\ UNCHANGED <<contacts, docs, links, messages, step, asks, pauses, trouble, missed, together, torn>>

-----------------------------------------------------------------------------
\* The message of a step that died or raised comes again, so many times.
Redeliver(w) ==
    LET j == step[w].job
        again == step[w].attempt < MaxTries
    IN /\ messages' = IF again THEN [messages EXCEPT ![<<j, step[w].attempt + 1>>] = messages[<<j, step[w].attempt + 1>>] + 1]
                      ELSE messages
       /\ abandoned' = IF again THEN abandoned ELSE abandoned \cup {j}
       /\ step' = [step EXCEPT ![w] = NoStep]

\* Folders are left, and the import loaded has no plan to read them from.
Planless(j) == ~import[j].kept /\ import[j].done < Len(Plan)

\* run, for an import that is running, loads where the last step stopped, the plan and the contacts there
\* are; a .zip is looked for first.
Take(w, j, attempt) ==
    /\ step[w].pc = "idle" /\ messages[<<j, attempt>>] > 0
    /\ messages' = [messages EXCEPT ![<<j, attempt>>] = messages[<<j, attempt>>] - 1]
    /\ step' = IF import[j].status # "running" THEN step
               ELSE [step EXCEPT ![w] = [pc |-> IF j \notin Zips /\ Planless(j) THEN "failed" ELSE "fetcher", job |-> j,
                                         attempt |-> attempt, done |-> import[j].done, cur |-> import[j].cur,
                                         known |-> DOMAIN contacts, already |-> {}]]
    /\ together' = (together \/ (import[j].status = "running" /\ \E v \in Importers \ {w} : step[v].pc # "idle"))
    /\ UNCHANGED <<import, contacts, docs, links, request, asks, pauses, trouble, missed, abandoned, torn>>

\* Without its .zip the task raises; a Drive that is not authorized any more fails the import.
Fetcher(w) ==
    LET j == step[w].job IN
    /\ step[w].pc = "fetcher"
    /\ \/ j \in Zips /\ ~import[j].kept /\ Redeliver(w) /\ UNCHANGED <<import, trouble>>
       \/ j \notin Zips /\ Mishap
          /\ import' = [import EXCEPT ![j].status = "failed"]
          /\ step' = [step EXCEPT ![w] = NoStep] /\ UNCHANGED <<messages, abandoned>>
       \/ (j \in Zips => import[j].kept)
          /\ step' = [step EXCEPT ![w].pc = "folder"]
          /\ UNCHANGED <<import, messages, abandoned, trouble>>
    /\ UNCHANGED <<contacts, docs, links, request, asks, pauses, missed, together, torn>>

\* _match: the contact with the same document number, else one of the index with the same name.
SameDocument(c) == {i \in DOMAIN contacts : c.cpf # NoCpf /\ contacts[i].cpf = c.cpf}
SameName(w, c) == {i \in step[w].known : contacts[i].name = c.name}
Matches(w, c) == IF SameDocument(c) # {} THEN SameDocument(c) ELSE SameName(w, c)

\* The names of the documents the contact has; mutant: of those that are linked to the client.
StoredLinked(contact) == {f \in Files : links[<<contact, f>>] > 0}
Stored(contact) == {f \in Files : docs[<<contact, f>>] > 0}

\* The next folder: the contact where the last step stopped, the one that matches, or a new one.
OpenFolder(w) ==
    LET s == step[w]
        pos == s.done + 1
        found == IF s.cur.pos = pos THEN {s.cur.contact} ELSE Matches(w, Plan[pos])
        n == IF s.cur.pos = pos THEN s.cur.n ELSE 0
    IN /\ s.pc = "folder" /\ pos <= Len(Plan)
       /\ \E contact \in IF found # {} THEN found ELSE {Len(contacts) + 1} :
            /\ contacts' = IF found # {} THEN contacts
                           ELSE Append(contacts, [name |-> Plan[pos].name, cpf |-> Plan[pos].cpf])
            /\ step' = [step EXCEPT ![w].pc = "file", ![w].cur = [pos |-> pos, n |-> n, contact |-> contact],
                            ![w].known = s.known \cup {contact}, ![w].already = Stored(contact)]
       /\ UNCHANGED <<import, docs, links, messages, request, asks, pauses, trouble, missed, abandoned, together, torn>>

Working(w) == step[w].pc = "file" /\ step[w].cur.n < Len(Plan[step[w].cur.pos].files)
NextFile(w) == Plan[step[w].cur.pos].files[step[w].cur.n + 1]

\* The client has a document of that name.
IsRepeated(w) == NextFile(w) \in step[w].already

SkipFile(w) ==
    /\ Working(w)
    /\ \/ IsRepeated(w) /\ UNCHANGED <<trouble, missed>>
       \/ ~IsRepeated(w) /\ Mishap /\ missed' = missed \cup {<<step[w].job, NextFile(w)>>}
    /\ step' = [step EXCEPT ![w].cur.n = step[w].cur.n + 1]
    /\ UNCHANGED <<import, contacts, docs, links, messages, request, asks, pauses, abandoned, together, torn>>

\* A file is fetched and stored as a Document ...
SaveDocument(w) ==
    LET cf == <<step[w].cur.contact, NextFile(w)>> IN
    /\ Working(w) /\ ~IsRepeated(w)
    /\ docs' = [docs EXCEPT ![cf] = docs[cf] + 1]
    /\ step' = [step EXCEPT ![w].pc = "link"]
    /\ UNCHANGED <<import, contacts, links, messages, request, asks, pauses, trouble, missed, abandoned, together, torn>>

\* ... then linked to the client.
LinkDocument(w) ==
    LET cf == <<step[w].cur.contact, Plan[step[w].cur.pos].files[step[w].cur.n + 1]>> IN
    /\ step[w].pc = "link"
    /\ links' = [links EXCEPT ![cf] = links[cf] + 1]
    /\ step' = [step EXCEPT ![w].pc = "file", ![w].already = step[w].already \cup {cf[2]}, ![w].cur.n = step[w].cur.n + 1]
    /\ UNCHANGED <<import, contacts, docs, messages, request, asks, pauses, trouble, missed, abandoned, together, torn>>

CloseFolder(w) ==
    LET j == step[w].job IN
    /\ step[w].pc = "file" /\ ~Working(w)
    /\ import' = [import EXCEPT ![j].done = step[w].cur.pos, ![j].cur = NoFolder]
    /\ step' = [step EXCEPT ![w].pc = "folder", ![w].done = step[w].cur.pos, ![w].cur = NoFolder]
    /\ UNCHANGED <<contacts, docs, links, messages, request, asks, pauses, trouble, missed, abandoned, together, torn>>

\* 40 seconds are over: where it stopped is saved ...
Pause(w) ==
    LET j == step[w].job IN
    /\ Working(w) /\ pauses < MaxPauses
    /\ pauses' = pauses + 1
    /\ import' = [import EXCEPT ![j].done = step[w].done, ![j].cur = step[w].cur]
    /\ step' = [step EXCEPT ![w].pc = "next"]
    /\ UNCHANGED <<contacts, docs, links, messages, request, asks, trouble, missed, abandoned, together, torn>>

\* ... and the next step queued; with the broker down the task raises.
EnqueueNext(w) ==
    LET j == step[w].job IN
    /\ step[w].pc = "next"
    /\ \/ messages' = [messages EXCEPT ![<<j, 1>>] = messages[<<j, 1>>] + 1] /\ step' = [step EXCEPT ![w] = NoStep]
          /\ UNCHANGED <<trouble, abandoned>>
       \/ Mishap /\ Redeliver(w)
    /\ UNCHANGED <<import, contacts, docs, links, request, asks, pauses, missed, together, torn>>

\* Something unexpected fails the import: what was stored stays.
Fails(w) ==
    /\ step[w].pc \in {"file", "link"} /\ Mishap
    /\ step' = [step EXCEPT ![w].pc = "failed"]
    /\ torn' = (torn \/ step[w].pc = "link")
    /\ UNCHANGED <<import, contacts, docs, links, messages, request, asks, pauses, missed, abandoned, together>>

\* discard_archive removes the .zip, if it came from one, from the disk ...
Discard(w) ==
    LET j == step[w].job
        completed == step[w].pc = "folder" /\ step[w].done = Len(Plan)
    IN /\ completed \/ step[w].pc = "failed"
       /\ import' = IF j \in Zips THEN [import EXCEPT ![j].kept = FALSE] ELSE import
       /\ step' = [step EXCEPT ![w].pc = IF completed THEN "saveDone" ELSE "saveFailed"]
       /\ UNCHANGED <<contacts, docs, links, messages, request, asks, pauses, trouble, missed, abandoned, together, torn>>

\* ... before the end of the import is saved, without its plan.
SaveEnd(w) ==
    LET j == step[w].job IN
    /\ step[w].pc \in {"saveDone", "saveFailed"}
    /\ import' = [import EXCEPT ![j].status = IF step[w].pc = "saveDone" THEN "done" ELSE "failed",
                      ![j].done = step[w].done, ![j].cur = step[w].cur, ![j].kept = FALSE]
    /\ step' = [step EXCEPT ![w] = NoStep]
    /\ UNCHANGED <<contacts, docs, links, messages, request, asks, pauses, trouble, missed, abandoned, together, torn>>

\* The queue kills a task after 60 seconds, or the machine stops.
WorkerDies(w) ==
    /\ step[w].pc # "idle" /\ Mishap
    /\ Redeliver(w)
    /\ torn' = (torn \/ step[w].pc = "link")
    /\ UNCHANGED <<import, contacts, docs, links, request, asks, pauses, missed, together>>

RequestDies(r) ==
    /\ request[r].pc # "idle" /\ Mishap
    /\ abandoned' = IF request[r].pc = "enqueue" THEN abandoned \cup {request[r].job} ELSE abandoned
    /\ request' = [request EXCEPT ![r] = NoRequest]
    /\ UNCHANGED <<import, contacts, docs, links, messages, step, asks, pauses, missed, together, torn>>

ImportNext ==
    \/ \E r \in Askers :
        \/ \E j \in Jobs : AskImport(r, j) \/ AskDiscard(r, j)
        \/ SaveStart(r) \/ EnqueueStart(r) \/ SaveDiscard(r) \/ RequestDies(r)
    \/ \E w \in Importers :
        \/ \E j \in Jobs, a \in 1 .. MaxTries : Take(w, j, a)
        \/ Fetcher(w) \/ OpenFolder(w) \/ SkipFile(w) \/ SaveDocument(w) \/ LinkDocument(w) \/ CloseFolder(w)
        \/ Pause(w) \/ EnqueueNext(w) \/ Fails(w) \/ Discard(w) \/ SaveEnd(w) \/ WorkerDies(w)

ImportSpec == ImportInit /\ [][ImportNext]_importVars

-----------------------------------------------------------------------------
ImportTypeOK ==
    /\ \A j \in Jobs : import[j].status \in {"listed", "running", "done", "failed", "canceled"} /\ import[j].done \in 0 .. Len(Plan)
    /\ Len(contacts) <= MaxContacts /\ abandoned \subseteq Jobs /\ missed \subseteq Jobs \X Files
    /\ \A m \in DOMAIN messages : messages[m] \in 0 .. Cardinality(Askers)

IsOf(contact, folder) ==
    contacts[contact].name = folder.name \/ (folder.cpf # NoCpf /\ contacts[contact].cpf = folder.cpf)

\* Importing again is safe (src/imports/folders.py:10): however often an import is started, stopped,
\* killed, delivered and taken up again, a client of the folders is one contact and a file one document,
\* unless two imports ran at once.
NothingDoubled ==
    ~together =>
        /\ \A cf \in DOMAIN docs : docs[cf] <= 1 /\ links[cf] <= docs[cf]
        /\ \A c, d \in DOMAIN contacts : IsOf(c, contacts[d]) => c = d

\* An import that says it is done stored every file it could fetch, whatever ran beside it, and linked
\* every document unless a step ended between the two (line 452).
DoneIsWhole ==
    /\ \A j \in Jobs : import[j].status = "done" =>
        \A i \in DOMAIN Plan : \A n \in DOMAIN Plan[i].files :
            LET f == Plan[i].files[n] IN
            <<j, f>> \in missed \/ \E c \in DOMAIN contacts : IsOf(c, Plan[i]) /\ docs[<<c, f>>] > 0
    /\ ~torn => \A cf \in DOMAIN docs :
        docs[cf] = links[cf] + Cardinality({w \in Importers : step[w].pc = "link" /\ step[w].cur.contact = cf[1]
                                                /\ Plan[step[w].cur.pos].files[step[w].cur.n + 1] = cf[2]})

\* An import that says it is running has a message or a worker, unless its message was never sent or
\* came its last time, or its files were discarded under it: nothing else ends it (lines 397, 402).
RunningRuns ==
    \A j \in Jobs \ abandoned : import[j].status = "running" =>
        \/ \E a \in 1 .. MaxTries : messages[<<j, a>>] > 0
        \/ \E w \in Importers : step[w].job = j
        \/ \E r \in Askers : request[r] = [pc |-> "enqueue", job |-> j]

\* The three promises of an import: NothingDoubled, DoneIsWhole and RunningRuns.
ImportedOnce == NothingDoubled /\ DoneIsWhole /\ RunningRuns
=============================================================================
