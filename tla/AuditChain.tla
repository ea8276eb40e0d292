------------------------------ MODULE AuditChain ------------------------------
(***************************************************************************)
(* The audit trail of the platform (src/audit): every record is linked to  *)
(* the one before it by hash, under a lock on the single head row; the     *)
(* retention job removes the oldest records and leaves a checkpoint; a     *)
(* daily job walks the chain and says whether somebody changed it.         *)
(*                                                                         *)
(* A hash is named by the seq of the row that carries it: uid makes every  *)
(* payload distinct, so two rows never share one.  GENESIS_HASH is 0.      *)
(***************************************************************************)
EXTENDS Integers, FiniteSets

CONSTANTS
    Writers,   \* requests and workers that record something
    NoWriter,
    Purgers,   \* processes that may run purge_audit
    Verifiers, \* processes that may run verify_audit_chain
    MaxSeq,    \* bound: sequence numbers the database gives
    MaxHarm    \* bound: changes made outside the application

ASSUME AuditAssumption ==
    /\ NoWriter \notin Writers
    /\ MaxSeq \in Nat /\ MaxHarm \in Nat

VARIABLES
    events,      \* committed AuditEvent rows [seq, prev, intact]
    chainHead,   \* AuditChainHead.last_hash
    checkpoints, \* last_hash of the AuditCheckpoint rows
    headLock,    \* the transaction that holds the head row for update
    inserted,    \* rows a transaction of a caller has inserted and not committed
    nextSeq,     \* the database's sequence: a rolled back number is not given again
    purge,       \* purge_old_events of each purger
    walk,        \* verify_chain of each verifier
    harm         \* history: rows changed or removed outside the application

auditVars == <<events, chainHead, checkpoints, headLock, inserted, nextSeq, purge, walk, harm>>

Row == [seq : Nat, prev : Nat, intact : BOOLEAN]

\* The check of every row as verify_chain walks it: prev_hash must be the hash of the row before
\* it, of the checkpoint for the first, and the payload must still give the stored hash.
WalkOk(start, rows) ==
    \A r \in rows :
        /\ r.intact
        /\ r.prev < r.seq
        /\ r.prev = start \/ \E q \in rows : q.seq = r.prev
        /\ \A q \in rows : ~(r.prev < q.seq /\ q.seq < r.seq)

\* Mutant: the order lost its minus sign.
OldestCheckpoint ==
    IF checkpoints = {} THEN 0 ELSE CHOOSE c \in checkpoints : \A d \in checkpoints : c <= d

\* AuditCheckpoint.objects.order_by('-purged_until_seq').first()
LatestCheckpoint ==
    IF checkpoints = {} THEN 0 ELSE CHOOSE c \in checkpoints : \A d \in checkpoints : d <= c

AuditInit ==
    /\ events = {} /\ chainHead = 0 /\ checkpoints = {} /\ headLock = NoWriter
    /\ inserted = [w \in Writers |-> {}] /\ nextSeq = 1
    /\ purge = [p \in Purgers |-> [pc |-> "idle", last |-> 0]]
    /\ walk = [v \in Verifiers |-> [pc |-> "idle", start |-> 0, ok |-> TRUE, raced |-> FALSE]]
    /\ harm = {}

\* The newest hash a transaction sees: its own uncommitted rows, then the committed head.
LastHash(rows) == IF rows = {} THEN chainHead ELSE (CHOOSE r \in rows : \A q \in rows : q.seq <= r.seq).seq

\* Mutant: the head is read without select_for_update.
HeadNotLocked(w) == TRUE

\* select_for_update on the head row: free, or already held by the same transaction.
HeadFree(w) == headLock \in {NoWriter, w}

NewEvent(prev) == [seq |-> nextSeq, prev |-> prev, intact |-> TRUE]

\* log() outside a transaction: its own atomic block locks, inserts, moves the head and commits.
AddEvent ==
    /\ headLock = NoWriter
    /\ nextSeq <= MaxSeq
    /\ events' = events \cup {NewEvent(chainHead)}
    /\ chainHead' = nextSeq
    /\ nextSeq' = nextSeq + 1

LogAlone ==
    /\ AddEvent
    /\ UNCHANGED <<checkpoints, headLock, inserted, purge, walk, harm>>

\* log() inside the caller's transaction: the block is a savepoint, the lock stays until it ends.
LogInside(w) ==
    /\ HeadFree(w)
    /\ nextSeq <= MaxSeq
    /\ inserted' = [inserted EXCEPT ![w] = inserted[w] \cup {NewEvent(LastHash(inserted[w]))}]
    /\ headLock' = w
    /\ nextSeq' = nextSeq + 1
    /\ UNCHANGED <<events, chainHead, checkpoints, purge, walk, harm>>

\* An error after the insert (a lost connection, a deadlock the database breaks): the block is
\* rolled back, the exception is swallowed, only the number is gone.
LogFails ==
    /\ nextSeq <= MaxSeq
    /\ nextSeq' = nextSeq + 1
    /\ UNCHANGED <<events, chainHead, checkpoints, headLock, inserted, purge, walk, harm>>

Commit(w) ==
    /\ inserted[w] # {}
    /\ events' = events \cup inserted[w]
    /\ chainHead' = LastHash(inserted[w])
    /\ inserted' = [inserted EXCEPT ![w] = {}]
    /\ headLock' = NoWriter
    /\ UNCHANGED <<checkpoints, nextSeq, purge, walk, harm>>

\* The caller's operation fails or its process dies: its records go with it.
Rollback(w) ==
    /\ inserted[w] # {}
    /\ inserted' = [inserted EXCEPT ![w] = {}]
    /\ headLock' = NoWriter
    /\ UNCHANGED <<events, chainHead, checkpoints, nextSeq, purge, walk, harm>>

\* The last record older than the cutoff.  occurred_at is taken under the head lock, so the old
\* records are those up to some row; none may be old enough.
ReadOld(p) ==
    /\ purge[p].pc = "idle"
    /\ \E last \in events : purge' = [purge EXCEPT ![p] = [pc |-> "read", last |-> last.seq]]
    /\ UNCHANGED <<events, chainHead, checkpoints, headLock, inserted, nextSeq, walk, harm>>

\* Mutant: = for <=.
RemainingButOne(last) == {r \in events : r.seq # last}

\* DELETE FROM audit_auditevent WHERE seq <= last.seq
Remaining(last) == {r \in events : r.seq > last}

\* The checkpoint and the deletion are one transaction.
DeleteOld(p) ==
    /\ purge[p].pc = "read"
    /\ checkpoints' = checkpoints \cup {purge[p].last}
    /\ events' = Remaining(purge[p].last)
    /\ purge' = [purge EXCEPT ![p].pc = "deleted"]
    /\ walk' = [v \in Verifiers |-> [walk[v] EXCEPT !.raced = walk[v].raced \/ walk[v].pc = "started"]]
    /\ UNCHANGED <<chainHead, headLock, inserted, nextSeq, harm>>

\* 'retention.purged', or the process died before it.
PurgeLogged(p) ==
    /\ purge[p].pc = "deleted"
    /\ purge' = [purge EXCEPT ![p] = [pc |-> "idle", last |-> 0]]
    /\ AddEvent \/ UNCHANGED <<events, chainHead, nextSeq>>
    /\ UNCHANGED <<checkpoints, headLock, inserted, walk, harm>>

\* verify_chain reads the checkpoint with one query ...
StartWalk(v) ==
    /\ walk[v].pc = "idle"
    /\ walk' = [walk EXCEPT ![v] = [pc |-> "started", start |-> LatestCheckpoint, ok |-> TRUE, raced |-> FALSE]]
    /\ UNCHANGED <<events, chainHead, checkpoints, headLock, inserted, nextSeq, purge, harm>>

\* ... and the rows with another, whose snapshot it walks.
Walk(v) ==
    /\ walk[v].pc = "started"
    /\ walk' = [walk EXCEPT ![v].pc = "walked", ![v].ok = WalkOk(walk[v].start, events)]
    /\ UNCHANGED <<events, chainHead, checkpoints, headLock, inserted, nextSeq, purge, harm>>

\* 'audit.chain_verified' or 'audit.chain_broken'.
WalkLogged(v) ==
    /\ walk[v].pc = "walked"
    /\ walk' = [walk EXCEPT ![v] = [pc |-> "idle", start |-> 0, ok |-> TRUE, raced |-> FALSE]]
    /\ AddEvent \/ UNCHANGED <<events, chainHead, nextSeq>>
    /\ UNCHANGED <<checkpoints, headLock, inserted, purge, harm>>

\* A hand outside the application, which no trigger stopped: a row's content is changed, or a row
\* is removed.
Harm ==
    /\ Cardinality(harm) < MaxHarm
    /\ \A v \in Verifiers : walk[v].pc = "idle"
    /\ \E r \in events :
        \/ events' = (events \ {r}) \cup {[r EXCEPT !.intact = FALSE]}
        \/ events' = events \ {r}
    /\ harm' = harm \cup {r.seq : r \in events \ events'}
    /\ UNCHANGED <<chainHead, checkpoints, headLock, inserted, nextSeq, purge, walk>>

AuditNext ==
    \/ LogAlone \/ LogFails \/ Harm
    \/ \E w \in Writers : LogInside(w) \/ Commit(w) \/ Rollback(w)
    \/ \E p \in Purgers : ReadOld(p) \/ DeleteOld(p) \/ PurgeLogged(p)
    \/ \E v \in Verifiers : StartWalk(v) \/ Walk(v) \/ WalkLogged(v)

AuditSpec == AuditInit /\ [][AuditNext]_auditVars

-----------------------------------------------------------------------------
AuditTypeOK ==
    /\ events \subseteq Row /\ chainHead \in Nat /\ checkpoints \subseteq Nat /\ nextSeq \in Nat \ {0}
    /\ headLock \in Writers \cup {NoWriter} /\ inserted \in [Writers -> SUBSET Row]
    /\ purge \in [Purgers -> [pc : {"idle", "read", "deleted"}, last : Nat]]
    /\ walk \in [Verifiers -> [pc : {"idle", "started", "walked"}, start : Nat, ok : BOOLEAN, raced : BOOLEAN]]
    /\ harm \subseteq Nat

\* However writers, transactions that roll back and overlapping purges interleave, the committed
\* records always link up from the newest checkpoint: the walk of verify_chain would succeed, and
\* the head carries the hash the next record has to follow (src/audit/service.py:117).
ChainLinksUp ==
    harm = {} =>
        /\ WalkOk(LatestCheckpoint, events)
        /\ chainHead = LatestCheckpoint \/ \E r \in events : r.seq = chainHead

\* A change made outside the application shows as long as the changed row, or a row after the
\* removed one, is still there and no purge has taken the place of the change.
HarmShows ==
    \E h \in harm :
        \/ \E r \in events : r.seq = h
        \/ h > LatestCheckpoint /\ \E r \in events : r.seq > h

\* The verdict of verify_chain is right: a walk no purge overlapped says the chain is whole exactly
\* when no change made outside the application shows.  (A purge between its two queries makes it
\* report a whole chain as broken: src/audit/verify.py:13.)
VerdictIsRight ==
    [][\A v \in Verifiers : Walk(v) /\ ~walk[v].raced => (walk'[v].ok <=> ~HarmShows)]_auditVars

\* The chain, with its locks, checkpoints and transactions, is a trail that only grows at its end
\* and is shortened at its beginning; and it always links up: ChainLinksUp.
Trail == INSTANCE AuditTrail WITH
    kept <- {r.seq : r \in events}, top <- chainHead, touched <- harm # {}
TrailKept == Trail!TrailSpec /\ [][ChainLinksUp']_auditVars
=============================================================================
