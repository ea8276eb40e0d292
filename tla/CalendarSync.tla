------------------------------ MODULE CalendarSync ------------------------------
(***************************************************************************)
(* One task of Cadrius and its event in the person's Google calendar       *)
(* (src/gcal/sync.py, src/gcal/signals.py): a save of the task enqueues a  *)
(* push, which creates or changes the event; every 15 minutes a pull takes *)
(* back what the person changed in Google; TaskEventMap ties the two and   *)
(* tells the echo of a push from a change of the person.                   *)
(***************************************************************************)
EXTENDS Naturals, FiniteSets

CONSTANTS
    Syncers,   \* workers of the queue and requests that push or pull
    Dates,     \* scheduled_at of the task
    MaxEvents, \* bound: events created in Google
    MaxTrouble, \* bound: failures of Google, of a worker or of the connection
    MaxClock   \* bound: changes in Google and saves of the task, which order the timestamps

ASSUME CsAssumption == Dates # {} /\ MaxEvents \in Nat /\ MaxTrouble \in Nat /\ MaxClock \in Nat

VARIABLES
    task,    \* UserTask: [date, done, sync: sincronizar, here: not deleted]
    link,    \* GoogleCalendarLink: "active", "reauth" or "none"
    map,     \* TaskEventMap: [id, at: last_synced_at]; id 0: none
    token,   \* sync_token: the pull has seen what changed in Google until then
    events,  \* Google: event id -> [date, done, live, at: updated]
    clock,
    pushes,  \* messages to push_task in the queue
    removals, \* messages to delete_event in the queue: event ids
    syncer,  \* a worker: [pc, copy: the task it loaded, map, at: the time it started, seen: the pulled events]
    lost,    \* history: a push was not enqueued (broker or connection down), or was given up
    parted,  \* history: Cadrius lost hold of a live event
    crossed, \* history: two workers pushed or pulled at the same time
    doubled, \* history: two workers pushed at the same time, one of them to create the event
    during,  \* history: the person moved the event between a pull's reading and its saving
    wish,    \* history: the date the person chose last, here or in Google
    raced,   \* history: the task was saved or pushed between the person's change in Google and its pull
    trouble  \* failures so far

csVars == <<task, link, map, token, events, clock, pushes, removals, syncer, lost, parted, crossed, doubled, during, wish, raced, trouble>>

NoEvent == [id |-> 0, at |-> 0]
Free == [pc |-> "idle", map |-> NoEvent, at |-> 0, copy |-> {}, seen |-> {}]
Ids == 1 .. MaxEvents
Created == DOMAIN events

CsInit ==
    /\ \E d \in Dates : task = [date |-> d, done |-> FALSE, sync |-> TRUE, here |-> TRUE] /\ wish = d
    /\ link = "active" /\ map = NoEvent /\ token = 0 /\ events = <<>> /\ clock = 0
    /\ pushes = 1 /\ removals = {}
    /\ syncer = [s \in Syncers |-> Free]
    /\ lost = FALSE /\ parted = FALSE /\ crossed = FALSE /\ doubled = FALSE /\ during = FALSE /\ raced = FALSE /\ trouble = 0

Tick == clock < MaxClock /\ clock' = clock + 1
Trouble == trouble < MaxTrouble /\ trouble' = trouble + 1
Idle(s) == syncer[s].pc = "idle"
Busy == \E s \in Syncers : ~Idle(s)
Creates(s) == syncer[s].pc \in {"post", "posted"}
Rests(s) == syncer' = [syncer EXCEPT ![s] = Free]
At(s, pc) == syncer[s].pc = pc
Goes(s, pc) == syncer' = [syncer EXCEPT ![s].pc = pc]
Pushing(s) == syncer[s].pc \in {"remove", "patch", "patched", "post", "posted"}
Live(id) == id \in Created /\ events[id].live
Unseen == \E id \in Created : events[id].at > token

\* The task sends a push if there is something to do; the broker may be down.
SyncNeeded == (task.sync /\ link = "active") \/ map.id # 0

Sent == pushes' = pushes + 1 /\ UNCHANGED lost
Unsent == UNCHANGED pushes /\ lost' = TRUE
Enqueues == IF SyncNeeded THEN Sent \/ Unsent ELSE UNCHANGED pushes /\ lost' = (lost \/ task.sync)

-----------------------------------------------------------------------------
\* The person ticks the task as done or not done.  PATCH loads the row and saves all of it; its load
\* and save are one step here: nothing but a pull writes the row besides it.
TickTask ==
    /\ task.here /\ Tick
    /\ task' = [task EXCEPT !.done = ~task.done]
    /\ Enqueues
    /\ raced' = (raced \/ Unseen)
    /\ UNCHANGED <<link, map, token, events, removals, syncer, parted, crossed, doubled, during, wish, trouble>>

\* Mutant of DeleteTask: a removal is sent for a task that has no event.
DeleteTaskBlindly ==
    /\ task.here
    /\ task' = [task EXCEPT !.here = FALSE]
    /\ map' = NoEvent /\ removals' = removals \cup {map.id}
    /\ UNCHANGED <<link, token, events, clock, pushes, syncer, lost, parted, crossed, doubled, during, wish, raced, trouble>>

\* The task is deleted, and its TaskEventMap with it: the message carries the event.
DeleteTask ==
    /\ task.here
    /\ task' = [task EXCEPT !.here = FALSE]
    /\ map' = NoEvent
    /\ \/ removals' = removals \cup ({map.id} \ {0}) /\ UNCHANGED lost
       \/ map.id # 0 /\ UNCHANGED removals /\ lost' = TRUE
    /\ UNCHANGED <<link, token, events, clock, pushes, syncer, parted, crossed, doubled, during, wish, raced, trouble>>

\* The person moves the event in Google ...
MoveEvent ==
    \E id \in Created, d \in Dates :
        /\ Live(id) /\ d # events[id].date /\ Tick
        /\ events' = [events EXCEPT ![id].date = d, ![id].at = clock + 1]
        /\ wish' = IF id = map.id THEN d ELSE wish
        /\ raced' = (raced \/ pushes > 0 \/ \E s \in Syncers : Pushing(s))
        /\ during' = (during \/ \E s \in Syncers : At(s, "pulled"))
        /\ UNCHANGED <<task, link, map, token, pushes, removals, syncer, lost, parted, crossed, doubled, trouble>>

\* ... or deletes it.
DropEvent ==
    \E id \in Created :
        /\ Live(id) /\ Tick
        /\ events' = [events EXCEPT ![id].live = FALSE, ![id].at = clock + 1]
        /\ UNCHANGED <<task, link, map, token, pushes, removals, syncer, lost, parted, crossed, doubled, during, wish, raced, trouble>>

-----------------------------------------------------------------------------
\* push_task reads the task and its map, and removes the event of a task that is not synchronised or
\* whose person is not connected.
Wanted == task.sync /\ link = "active"

Takes(s, pc) ==
    /\ syncer' = [syncer EXCEPT ![s] = [pc |-> pc, map |-> map, at |-> clock, copy |-> {task}, seen |-> {}]]
    /\ crossed' = (crossed \/ Busy)
    /\ doubled' = (doubled \/ \E t \in Syncers : Pushing(t) /\ (Creates(t) \/ pc = "post"))

TakePush(s) ==
    /\ Idle(s) /\ pushes > 0
    /\ pushes' = pushes - 1
    /\ \/ (~task.here \/ (~Wanted /\ map.id = 0)) /\ UNCHANGED <<syncer, crossed, doubled>>
       \/ task.here /\ ~Wanted /\ map.id # 0 /\ Takes(s, "remove")
       \/ task.here /\ Wanted /\ map.id # 0 /\ Takes(s, "patch")
       \/ task.here /\ Wanted /\ map.id = 0 /\ Takes(s, "post")
    /\ lost' = (lost \/ (task.sync /\ link # "active"))
    /\ UNCHANGED <<task, link, map, token, events, clock, removals, parted, during, wish, raced, trouble>>

\* Mutant of Removes: the removal is only logged.
RemovesNot(id) == Live(id) /\ UNCHANGED <<events, clock, parted>>

\* A removal that Google refuses, because the person must connect again, is only logged.
Removes(id) ==
    \/ /\ link = "active" /\ Tick
       /\ events' = IF Live(id) THEN [events EXCEPT ![id].live = FALSE, ![id].at = clock + 1] ELSE events
       /\ UNCHANGED parted
    \/ /\ link # "active"
       /\ parted' = (parted \/ Live(id)) /\ UNCHANGED <<events, clock>>

RemoveEvent(s) ==
    /\ At(s, "remove")
    /\ Removes(syncer[s].map.id)
    /\ map' = IF map.id = syncer[s].map.id THEN NoEvent ELSE map
    /\ Rests(s)
    /\ UNCHANGED <<task, link, token, pushes, removals, lost, crossed, doubled, during, wish, raced, trouble>>

\* The event of a task, written now (event_body).
Body(copy) == [date |-> copy.date, done |-> copy.done, live |-> TRUE, at |-> clock + 1]

\* PATCH the event; one deleted in Google is created again.
PatchEvent(s) ==
    /\ At(s, "patch")
    /\ IF Live(syncer[s].map.id)
       THEN /\ Tick
            /\ \E body \in syncer[s].copy : events' = [events EXCEPT ![syncer[s].map.id] = Body(body)]
            /\ Goes(s, "patched") /\ UNCHANGED <<map, doubled>>
       ELSE /\ map' = NoEvent /\ Goes(s, "post")
            /\ doubled' = (doubled \/ \E t \in Syncers \ {s} : Pushing(t))
            /\ UNCHANGED <<events, clock>>
    /\ UNCHANGED <<task, link, token, pushes, removals, lost, parted, crossed, during, wish, raced, trouble>>

\* The map keeps the time the push started; saving a map that is gone is an exception.
KeepTime(s) ==
    /\ At(s, "patched")
    /\ map' = IF map.id = syncer[s].map.id THEN [map EXCEPT !.at = syncer[s].at] ELSE map
    /\ Rests(s)
    /\ UNCHANGED <<task, link, token, events, clock, pushes, removals, lost, parted, crossed, doubled, during, wish, raced, trouble>>

PostEvent(s) ==
    /\ At(s, "post") /\ link = "active"
    /\ Tick /\ Cardinality(Created) < MaxEvents
    /\ LET id == Cardinality(Created) + 1
       IN /\ \E body \in syncer[s].copy : events' = [i \in Created \cup {id} |-> IF i = id THEN Body(body) ELSE events[i]]
          /\ syncer' = [syncer EXCEPT ![s].pc = "posted", ![s].map.id = id]
    /\ UNCHANGED <<task, link, map, token, pushes, removals, lost, parted, crossed, doubled, during, wish, raced, trouble>>

\* update_or_create of the map; the task may be gone.
KeepEvent(s) ==
    /\ At(s, "posted")
    /\ \/ /\ task.here
          /\ map' = [id |-> syncer[s].map.id, at |-> syncer[s].at] /\ wish' = task.date
          /\ UNCHANGED parted
       \/ ~task.here /\ parted' = TRUE /\ UNCHANGED <<map, wish>>
    /\ Rests(s)
    /\ UNCHANGED <<task, link, token, events, clock, pushes, removals, lost, crossed, doubled, during, raced, trouble>>

\* delete_event, for a task that was deleted: nothing is done without an active connection.
DeleteEvent ==
    \E id \in removals :
        /\ removals' = removals \ {id}
        /\ Removes(id)
        /\ UNCHANGED <<task, link, map, token, pushes, syncer, lost, crossed, doubled, during, wish, raced, trouble>>

\* Google fails, an answer of it is lost, or the worker dies: the queue delivers the message again,
\* up to max_attempts.
SyncBreaks(s) ==
    /\ Pushing(s)
    /\ parted' = (parted \/ At(s, "posted"))
    /\ Sent \/ Unsent
    /\ Rests(s)
    /\ Trouble
    /\ UNCHANGED <<task, link, map, token, events, clock, removals, crossed, doubled, during, wish, raced>>

-----------------------------------------------------------------------------
\* pull_link asks Google what changed since the token ...
PullEvents(s) ==
    /\ Idle(s) /\ link = "active" /\ Unseen
    /\ syncer' = [syncer EXCEPT ![s] = [Free EXCEPT !.pc = "pulled", !.at = clock,
                                                    !.seen = {[id |-> id, event |-> events[id]] : id \in {i \in Created : events[i].at > token}}]]
    /\ crossed' = (crossed \/ Busy)
    /\ UNCHANGED <<task, link, map, token, events, clock, pushes, removals, lost, parted, doubled, during, wish, raced, trouble>>

\* ... and takes what is of a task it knows: a deleted event ends the synchronisation, the echo of a
\* push is left alone ...
Echo(event) == event.at <= map.at

ApplyPulled(s) ==
    /\ At(s, "pulled")
    /\ LET mine == {e \in syncer[s].seen : e.id = map.id}
       IN IF \A e \in mine : e.event.live /\ Echo(e.event)
          THEN UNCHANGED <<task, map>>
          ELSE \E e \in mine :
                  IF ~e.event.live
                  THEN task' = [task EXCEPT !.sync = FALSE] /\ map' = NoEvent
                  ELSE task' = [task EXCEPT !.date = e.event.date] /\ map' = [map EXCEPT !.at = clock]
    /\ Goes(s, "applied")
    /\ UNCHANGED <<link, token, events, clock, pushes, removals, lost, parted, crossed, doubled, during, wish, raced, trouble>>

\* ... and keeps the new token.
KeepToken(s) ==
    /\ At(s, "applied")
    /\ token' = syncer[s].at
    /\ Rests(s)
    /\ UNCHANGED <<task, link, map, events, clock, pushes, removals, lost, parted, crossed, doubled, during, wish, raced, trouble>>

\* The pull fails or its worker dies; the next one asks from the same token.
PullBreaks(s) ==
    /\ syncer[s].pc \in {"pulled", "applied"}
    /\ Rests(s)
    /\ Trouble
    /\ UNCHANGED <<task, link, map, token, events, clock, pushes, removals, lost, parted, crossed, doubled, during, wish, raced>>

-----------------------------------------------------------------------------
\* Google refuses the person's token, in a push or a pull ...
LoseAccess ==
    /\ link = "active" /\ link' = "reauth"
    /\ syncer' = [s \in Syncers |-> IF syncer[s].pc \in {"patch", "post", "pulled"} THEN Free ELSE syncer[s]]
    /\ lost' = (lost \/ syncer' # syncer)
    /\ Trouble
    /\ UNCHANGED <<task, map, token, events, clock, pushes, removals, parted, crossed, doubled, during, wish, raced>>

\* ... the person connects again: the pull starts from nothing ...
Connect ==
    /\ link # "active" /\ link' = "active" /\ token' = 0
    /\ UNCHANGED <<task, map, events, clock, pushes, removals, syncer, lost, parted, crossed, doubled, during, wish, raced, trouble>>

\* ... or disconnects: the maps go, the events stay in Google, and the workers at it fail.
Disconnect ==
    /\ link # "none" /\ link' = "none" /\ map' = NoEvent
    /\ syncer' = [s \in Syncers |-> Free]
    /\ lost' = (lost \/ Busy)
    /\ parted' = (parted \/ Live(map.id) \/ \E s \in Syncers : At(s, "post") \/ At(s, "posted"))
    /\ Trouble
    /\ UNCHANGED <<task, token, events, clock, pushes, removals, crossed, doubled, during, wish, raced>>

CsNext ==
    \/ \E s \in Syncers :
        \/ TakePush(s) \/ RemoveEvent(s) \/ PatchEvent(s) \/ KeepTime(s) \/ PostEvent(s) \/ KeepEvent(s)
        \/ SyncBreaks(s) \/ PullEvents(s) \/ ApplyPulled(s) \/ KeepToken(s) \/ PullBreaks(s)
    \/ TickTask \/ DeleteTask \/ MoveEvent \/ DropEvent \/ DeleteEvent \/ LoseAccess \/ Connect \/ Disconnect

CsSpec == CsInit /\ [][CsNext]_csVars

-----------------------------------------------------------------------------
CsTypeOK ==
    /\ task \in [date : Dates, done : BOOLEAN, sync : BOOLEAN, here : BOOLEAN]
    /\ link \in {"active", "reauth", "none"} /\ map.id \in 0 .. MaxEvents /\ map.at \in 0 .. MaxClock
    /\ token \in 0 .. MaxClock /\ Created \subseteq Ids /\ pushes \in Nat /\ removals \subseteq Created

\* A task has one event in Google, the one Cadrius knows of (TaskEventMap: "para atualizar em vez de
\* duplicar", src/gcal/models.py:70), and a task that was deleted none once its removal is handled,
\* whatever fails and comes again; unless two workers pushed at once to create it, a message was lost,
\* or Cadrius lost hold of an event: its creation was not recorded, its removal was refused, or the
\* person disconnected.
OneEvent ==
    ~doubled /\ ~parted /\ ~lost =>
        \A id \in Created : Live(id) =>
            id = map.id \/ id \in removals \/ \E s \in Syncers : At(s, "posted") /\ syncer[s].map.id = id

Settled ==
    ~Busy /\ pushes = 0 /\ ~Unseen /\ link = "active" /\ task.here /\ task.sync /\ map.id # 0 /\ ~crossed /\ ~lost

\* When everything was pushed and pulled, the task and its event agree, and on the date the person
\* chose last, here or in Google, unless the task was saved or pushed before that choice was pulled
\* (src/gcal/sync.py:124, 183); unless workers pushed or pulled at once, a push was lost, or the
\* person moved the event during a pull.
BothAgree ==
    Settled /\ ~during =>
        /\ Live(map.id) /\ events[map.id].date = task.date /\ events[map.id].done = task.done
        /\ ~raced => task.date = wish

\* Cadrius and Google keep one and the same event: OneEvent and BothAgree.
CalendarsAgree == OneEvent /\ BothAgree
=============================================================================
