----------------------------- MODULE EmailIntake -----------------------------
(***************************************************************************)
(* The e-mails of the offices: every five minutes a task reads what is not *)
(* seen in a mailbox and saves each message (src/tasks/tasks.py), and a    *)
(* second task classifies it and tells the rules (src/emails/triage.py).   *)
(* Tasks come from a queue that delivers one that died or raised again, up *)
(* to MaxAttempts times; the reading swallows its errors and is simply     *)
(* scheduled again.                                                        *)
(***************************************************************************)
EXTENDS Naturals, Sequences, FiniteSets

CONSTANTS
    Boxes,       \* MailBox rows, of one office or of several
    Mails,       \* messages by their Message-Id
    Sent,        \* the copies: <<mailbox, message>>, one for each person it was sent to
    NoBox, NoMail,
    Readers,     \* tasks that run fetch_emails
    Triagers,    \* tasks that run triage_email
    MaxAttempts, \* Q_CLUSTER max_attempts
    MaxMishaps   \* bound: deaths, answers the broker did not give, people without an office

ASSUME MailAssumption ==
    /\ Sent \subseteq Boxes \X Mails /\ IsFiniteSet(Sent)
    /\ NoBox \notin Boxes /\ NoMail \notin Mails /\ MaxAttempts \in Nat \ {0} /\ MaxMishaps \in Nat

VARIABLES
    inbox,   \* each copy of a message: "none", "unseen" or "seen"
    saved,   \* EmailMessage rows, in order: [box, mail]
    reader,  \* a reading: [pc, box, todo: what is left of the list it fetched, mail: the one in hand]
    waiting, \* messages to triage_email: [row, attempt]
    triager, \* a triage: [pc, row, attempt]
    triaged, told, charged, \* of each row: EmailTriage rows, times the rules were told, credits taken
    mishaps,
    fetched, \* history: copies a reading went through
    dropped, \* history: rows whose triage, or news of it, was lost between two steps
    repaid   \* history: triages that died after the credit was taken

mailVars == <<inbox, saved, reader, waiting, triager, triaged, told, charged, mishaps, fetched, dropped, repaid>>

RowIds == 1 .. Cardinality(Sent)
NotReading == [pc |-> "idle", box |-> NoBox, todo |-> {}, mail |-> NoMail]
NotTriaging == [pc |-> "idle", row |-> 0, attempt |-> 0]

MailInit ==
    /\ inbox = [c \in Sent |-> "none"] /\ saved = <<>>
    /\ reader = [f \in Readers |-> NotReading] /\ waiting = {} /\ triager = [t \in Triagers |-> NotTriaging]
    /\ triaged = [i \in RowIds |-> 0] /\ told = triaged /\ charged = triaged
    /\ mishaps = 0 /\ fetched = {} /\ dropped = {} /\ repaid = 0

Trouble == mishaps < MaxMishaps /\ mishaps' = mishaps + 1

-----------------------------------------------------------------------------
\* The mail server: a message arrives, and the person may read it first.
Arrives(c) ==
    /\ inbox[c] = "none" /\ inbox' = [inbox EXCEPT ![c] = "unseen"]
    /\ UNCHANGED <<saved, reader, waiting, triager, triaged, told, charged, mishaps, fetched, dropped, repaid>>

PersonReads(c) ==
    /\ inbox[c] = "unseen" /\ inbox' = [inbox EXCEPT ![c] = "seen"]
    /\ UNCHANGED <<saved, reader, waiting, triager, triaged, told, charged, mishaps, fetched, dropped, repaid>>

\* fetch_emails takes the list of what is not seen; it leaves everything unseen.
Read(f, b) ==
    LET list == {m \in Mails : <<b, m>> \in Sent /\ inbox[b, m] = "unseen"} IN
    /\ reader[f].pc = "idle" /\ list # {}
    /\ reader' = [reader EXCEPT ![f] = [pc |-> "list", box |-> b, todo |-> list, mail |-> NoMail]]
    /\ UNCHANGED <<inbox, saved, waiting, triager, triaged, told, charged, mishaps, fetched, dropped, repaid>>

\* EmailMessage.message_id is unique on the whole platform; mutant: it is not.
IsNewAlways(m) == m \in Mails
IsNew(m) == \A i \in DOMAIN saved : saved[i].mail # m

\* The next message of the list is saved, or passed over as a duplicate.
SaveMail(f, m) ==
    LET r == reader[f] IN
    /\ r.pc = "list" /\ m \in r.todo
    /\ fetched' = fetched \cup {<<r.box, m>>}
    /\ IF IsNew(m) /\ Len(saved) < Cardinality(RowIds)
       THEN /\ saved' = Append(saved, [box |-> r.box, mail |-> m])
            /\ reader' = [reader EXCEPT ![f].pc = "enqueue", ![f].mail = m, ![f].todo = r.todo \ {m}]
       ELSE reader' = [reader EXCEPT ![f].todo = r.todo \ {m}] /\ UNCHANGED saved
    /\ UNCHANGED <<inbox, waiting, triager, triaged, told, charged, mishaps, dropped, repaid>>

RowInHand(f) == CHOOSE i \in DOMAIN saved : saved[i].mail = reader[f].mail /\ \A j \in DOMAIN saved : saved[j].mail = reader[f].mail => j <= i

\* Its triage is queued; without the broker the error is logged.
EnqueueTriage(f) ==
    /\ reader[f].pc = "enqueue"
    /\ reader' = [reader EXCEPT ![f].pc = "list", ![f].mail = NoMail]
    /\ \/ waiting' = waiting \cup {[row |-> RowInHand(f), attempt |-> 1]} /\ UNCHANGED <<mishaps, dropped>>
       \/ Trouble /\ dropped' = dropped \cup {RowInHand(f)} /\ UNCHANGED waiting
    /\ UNCHANGED <<inbox, saved, triager, triaged, told, charged, fetched, repaid>>

EndRead(f) ==
    /\ reader[f].pc = "list" /\ reader[f].todo = {}
    /\ reader' = [reader EXCEPT ![f] = NotReading]
    /\ UNCHANGED <<inbox, saved, waiting, triager, triaged, told, charged, mishaps, fetched, dropped, repaid>>

ReaderDies(f) ==
    /\ reader[f].pc # "idle" /\ Trouble
    /\ dropped' = IF reader[f].pc = "enqueue" THEN dropped \cup {RowInHand(f)} ELSE dropped
    /\ reader' = [reader EXCEPT ![f] = NotReading]
    /\ UNCHANGED <<inbox, saved, waiting, triager, triaged, told, charged, fetched, repaid>>

-----------------------------------------------------------------------------
\* A triage that died or raised is delivered again.
ComesAgain(t) ==
    LET again == triager[t].attempt < MaxAttempts IN
    /\ waiting' = IF again THEN waiting \cup {[row |-> triager[t].row, attempt |-> triager[t].attempt + 1]} ELSE waiting
    /\ triager' = [triager EXCEPT ![t] = NotTriaging]

\* triage_email: a message that has its triage is left alone, and so is one of a person without an office.
TakeMail(t, w) ==
    /\ triager[t].pc = "idle" /\ w \in waiting
    /\ waiting' = waiting \ {w}
    /\ \/ /\ triager' = IF triaged[w.row] > 0 THEN triager
                        ELSE [triager EXCEPT ![t] = [pc |-> "classify", row |-> w.row, attempt |-> w.attempt]]
          /\ UNCHANGED <<mishaps, dropped>>
       \/ triaged[w.row] = 0 /\ Trouble /\ dropped' = dropped \cup {w.row} /\ UNCHANGED triager
    /\ UNCHANGED <<inbox, saved, reader, triaged, told, charged, fetched, repaid>>

\* By the rules, or by AI where the office allows it, which costs a credit.
Classify(t) ==
    /\ triager[t].pc = "classify"
    /\ \E ai \in BOOLEAN : charged' = IF ai THEN [charged EXCEPT ![triager[t].row] = charged[triager[t].row] + 1] ELSE charged
    /\ triager' = [triager EXCEPT ![t].pc = "create"]
    /\ UNCHANGED <<inbox, saved, reader, waiting, triaged, told, mishaps, fetched, dropped, repaid>>

\* A message has one triage (OneToOneField): the second one raises.
CreateTriage(t) ==
    LET row == triager[t].row IN
    /\ triager[t].pc = "create"
    /\ IF triaged[row] = 0
       THEN /\ triaged' = [triaged EXCEPT ![row] = 1]
            /\ triager' = [triager EXCEPT ![t].pc = "emit"] /\ UNCHANGED waiting
       ELSE ComesAgain(t) /\ UNCHANGED triaged
    /\ UNCHANGED <<inbox, saved, reader, told, charged, mishaps, fetched, dropped, repaid>>

\* emit queues the rules that wait for an e-mail, and swallows what goes wrong.
TellRules(t) ==
    LET row == triager[t].row IN
    /\ triager[t].pc = "emit"
    /\ triager' = [triager EXCEPT ![t] = NotTriaging]
    /\ \/ told' = [told EXCEPT ![row] = told[row] + 1] /\ UNCHANGED <<mishaps, dropped>>
       \/ Trouble /\ dropped' = dropped \cup {row} /\ UNCHANGED told
    /\ UNCHANGED <<inbox, saved, reader, waiting, triaged, charged, fetched, repaid>>

TriagerDies(t) ==
    LET over == triager[t].pc = "emit" \/ triager[t].attempt = MaxAttempts IN
    /\ triager[t].pc # "idle" /\ Trouble
    /\ dropped' = IF over THEN dropped \cup {triager[t].row} ELSE dropped
    /\ repaid' = IF triager[t].pc = "create" THEN repaid + 1 ELSE repaid
    /\ ComesAgain(t)
    /\ UNCHANGED <<inbox, saved, reader, triaged, told, charged, fetched>>

MailNext ==
    \/ \E c \in Sent : Arrives(c) \/ PersonReads(c)
    \/ \E f \in Readers :
        \/ \E b \in Boxes : Read(f, b)
        \/ \E m \in Mails : SaveMail(f, m)
        \/ EnqueueTriage(f) \/ EndRead(f) \/ ReaderDies(f)
    \/ \E t \in Triagers :
        \/ \E w \in waiting : TakeMail(t, w)
        \/ Classify(t) \/ CreateTriage(t) \/ TellRules(t) \/ TriagerDies(t)

MailSpec == MailInit /\ [][MailNext]_mailVars

-----------------------------------------------------------------------------
MailTypeOK ==
    /\ inbox \in [Sent -> {"none", "unseen", "seen"}] /\ Len(saved) <= Cardinality(RowIds)
    /\ waiting \subseteq [row : RowIds, attempt : 1 .. MaxAttempts] /\ mishaps \in 0 .. MaxMishaps
    /\ dropped \subseteq RowIds /\ triaged \in [RowIds -> Nat] /\ told \in [RowIds -> Nat] /\ charged \in [RowIds -> Nat]

Rests ==
    /\ \A f \in Readers : reader[f].pc = "idle"
    /\ \A t \in Triagers : triager[t].pc = "idle"
    /\ waiting = {}

\* One e-mail, one triage (src/emails/triage.py:112): a message read in the same state by many readings
\* is saved once, and triaged, told to the rules and paid for once, unless a triage died with its credit
\* taken; and when nothing is left to do, every message saved has been triaged and told, except those a
\* death or the broker cut between two steps that nobody repeats (src/tasks/tasks.py:143,
\* src/emails/triage.py:146).
MailHandledOnce ==
    /\ \A i, j \in DOMAIN saved : saved[i].mail = saved[j].mail => i = j
    /\ \A i \in RowIds : triaged[i] <= 1 /\ told[i] <= triaged[i] /\ charged[i] <= 1 + repaid
    /\ Rests => \A i \in DOMAIN saved : i \in dropped \/ (triaged[i] = 1 /\ told[i] = 1)

\* src/tasks/tasks.py:65: a reading creates an EmailMessage for each new message of the mailbox it reads.
EachMailSaved == \A c \in fetched : \E i \in DOMAIN saved : saved[i] = [box |-> c[1], mail |-> c[2]]
=============================================================================
