--------------------------- MODULE AuditChainProofs ---------------------------
(***************************************************************************)
(* Proofs about AuditChain, for any number of writers, purgers, verifiers, *)
(* records and changes from outside: its types; that the committed records *)
(* always link up and are a trail in the sense of AuditTrail; and that the *)
(* verdict of a verification no purge overlapped is right.                 *)
(***************************************************************************)
EXTENDS AuditChain, FiniteSetTheorems, WellFoundedInduction, TLAPS

Seqs == {r.seq : r \in events}
Lasts == {purge[p].last : p \in {q \in Purgers : purge[q].pc = "read"}}

\* The numbers of committed records that somebody still knows of.
Known == Seqs \cup harm \cup checkpoints \cup Lasts

\* There is a latest checkpoint, once there is one (so that LatestCheckpoint chooses it).
CheckpointsTop == checkpoints # {} => \E c \in checkpoints : \A d \in checkpoints : d <= c

\* The rows of an open transaction follow the head and one another, and the transaction holds the lock.
Follows(r, rows, head) ==
    /\ head < r.seq /\ head <= r.prev /\ r.prev < r.seq /\ r.intact
    /\ r.prev = head \/ \E q \in rows : q.seq = r.prev
    /\ \A q \in rows : ~(r.prev < q.seq /\ q.seq < r.seq) /\ (q.seq = r.seq => q = r)

PendingLinked(w) ==
    /\ inserted[w] # {} => headLock = w /\ \E r \in inserted[w] : \A q \in inserted[w] : q.seq <= r.seq
    /\ \A r \in inserted[w] : r.seq < nextSeq /\ Follows(r, inserted[w], chainHead)

\* A committed row follows the record before it, which is there, purged or changed from outside.
RowLinked(r) ==
    /\ LatestCheckpoint < r.seq /\ r.prev < r.seq
    /\ \A n \in Known : ~(r.prev < n /\ n < r.seq)
    /\ r.prev <= LatestCheckpoint \/ r.prev \in Seqs \cup harm
    /\ r.intact <=> r.seq \notin harm

Linked ==
    /\ chainHead < nextSeq /\ \A n \in Known : n <= chainHead
    /\ chainHead <= LatestCheckpoint \/ chainHead \in Seqs \cup harm
    /\ \A r, q \in events : r.seq = q.seq => r = q
    /\ \A r \in events : RowLinked(r)

\* A walk no purge overlapped started at the checkpoint that is the latest still.
WalksStart == \A v \in Verifiers : walk[v].pc = "started" /\ ~walk[v].raced => walk[v].start = LatestCheckpoint

IInv == AuditTypeOK /\ CheckpointsTop /\ (\A w \in Writers : PendingLinked(w)) /\ Linked /\ WalksStart

-----------------------------------------------------------------------------
\* The latest checkpoint is one of them, or the genesis, and none is later.
LEMMA Latest ==
    ASSUME checkpoints \subseteq Nat, CheckpointsTop
    PROVE  /\ LatestCheckpoint \in Nat
           /\ \A c \in checkpoints : c <= LatestCheckpoint
           /\ checkpoints # {} => LatestCheckpoint \in checkpoints
           /\ checkpoints = {} => LatestCheckpoint = 0
<1>1. CASE checkpoints = {}
  BY <1>1 DEF LatestCheckpoint
<1>2. CASE checkpoints # {}
  <2>1. PICK c \in checkpoints : \A d \in checkpoints : d <= c
    BY <1>2 DEF CheckpointsTop
  <2>2. LatestCheckpoint \in checkpoints /\ \A d \in checkpoints : d <= LatestCheckpoint
    BY <1>2, <2>1 DEF LatestCheckpoint
  <2> QED
    BY <1>2, <2>2
<1> QED
  BY <1>1, <1>2

\* A new checkpoint is the latest, or the latest stays.
LEMMA LatestAdded ==
    ASSUME checkpoints \subseteq Nat, CheckpointsTop, NEW n \in Nat, checkpoints' = checkpoints \cup {n}
    PROVE  /\ CheckpointsTop'
           /\ LatestCheckpoint' = IF n <= LatestCheckpoint THEN LatestCheckpoint ELSE n
<1>1. CheckpointsTop'
  <2>1. CASE n <= LatestCheckpoint
    <3>1. \/ LatestCheckpoint \in checkpoints
          \/ checkpoints = {} /\ n = 0
      BY <2>1, Latest
    <3> QED
      BY <2>1, <3>1, Latest DEF CheckpointsTop
  <2>2. CASE ~(n <= LatestCheckpoint)
    BY <2>2, Latest DEF CheckpointsTop
  <2> QED
    BY <2>1, <2>2
<1>2. /\ LatestCheckpoint' \in Nat /\ LatestCheckpoint' \in checkpoints'
      /\ \A c \in checkpoints' : c <= LatestCheckpoint'
  <2>1. PICK c \in checkpoints' : \A d \in checkpoints' : d <= c
    BY <1>1 DEF CheckpointsTop
  <2>2. LatestCheckpoint' \in checkpoints' /\ \A d \in checkpoints' : d <= LatestCheckpoint'
    BY <2>1 DEF LatestCheckpoint
  <2> QED
    BY <2>2
<1>3. /\ LatestCheckpoint \in Nat /\ \A c \in checkpoints : c <= LatestCheckpoint
      /\ LatestCheckpoint \in checkpoints \/ LatestCheckpoint = 0
  BY Latest
<1> QED
  BY <1>1, <1>2, <1>3

\* The hash a transaction links its next row to.
LEMMA LastHashIs ==
    ASSUME NEW rows \in SUBSET Row, chainHead \in Nat,
           rows # {} => \E r \in rows : \A q \in rows : q.seq <= r.seq
    PROVE  /\ LastHash(rows) \in Nat
           /\ rows = {} => LastHash(rows) = chainHead
           /\ rows # {} => \E r \in rows : LastHash(rows) = r.seq
           /\ \A q \in rows : q.seq <= LastHash(rows)
<1>1. CASE rows = {}
  BY <1>1 DEF LastHash
<1>2. CASE rows # {}
  <2>1. PICK r \in rows : r = CHOOSE x \in rows : \A q \in rows : q.seq <= x.seq
    BY <1>2
  <2>2. \A q \in rows : q.seq <= r.seq
    BY <1>2, <2>1
  <2>3. LastHash(rows) = r.seq
    BY <1>2, <2>1 DEF LastHash
  <2> QED
    BY <1>2, <2>2, <2>3 DEF Row
<1> QED
  BY <1>1, <1>2

-----------------------------------------------------------------------------
LEMMA KnownIsNat == AuditTypeOK => Known \subseteq Nat /\ Seqs \subseteq Nat
<1> SUFFICES ASSUME AuditTypeOK PROVE Known \subseteq Nat /\ Seqs \subseteq Nat
  OBVIOUS
<1>1. Seqs \subseteq Nat
  BY DEF AuditTypeOK, Seqs, Row
<1>2. Lasts \subseteq Nat
  BY DEF AuditTypeOK, Lasts
<1> QED
  BY <1>1, <1>2 DEF AuditTypeOK, Known

\* New committed rows that follow the head and one another leave the chain linked.
LEMMA AppendLinked ==
    ASSUME IInv, NEW new \in SUBSET Row, nextSeq' \in Nat,
           \A r \in new : Follows(r, new, chainHead) /\ r.seq <= chainHead',
           \E r \in new : chainHead' = r.seq, chainHead' < nextSeq',
           events' = events \cup new, checkpoints' = checkpoints, harm' = harm, Lasts' \subseteq Lasts
    PROVE  Linked'
<1> USE DEF Row
<1>1. /\ Known \subseteq Nat /\ chainHead \in Nat /\ chainHead' \in Nat /\ events \subseteq Row
      /\ LatestCheckpoint \in Nat /\ LatestCheckpoint' = LatestCheckpoint
  BY KnownIsNat, Latest DEF IInv, AuditTypeOK, LatestCheckpoint
<1>2. /\ Seqs' = Seqs \cup {r.seq : r \in new}
      /\ Known' \subseteq Known \cup {r.seq : r \in new}
  BY DEF Known, Seqs
<1>3. LatestCheckpoint <= chainHead
  <2>1. LatestCheckpoint = 0 \/ LatestCheckpoint \in Known
    BY Latest DEF IInv, AuditTypeOK, Known
  <2> QED
    BY <1>1, <2>1 DEF IInv, Linked
<1>4. \A n \in Known' : n <= chainHead'
  BY <1>1, <1>2 DEF IInv, Linked, Follows
<1>5. chainHead' \in Seqs'
  BY <1>2
<1>6. \A r \in events : r.seq \in Known /\ r.seq <= chainHead
  BY DEF IInv, Linked, Known, Seqs
<1>7. \A r, q \in events' : r.seq = q.seq => r = q
  <2>1. \A r \in events, q \in new : r.seq # q.seq
    BY <1>1, <1>6 DEF Follows
  <2> QED
    BY <2>1 DEF IInv, Linked, Follows
<1>8. ASSUME NEW r \in events PROVE RowLinked(r)'
  <2>1. RowLinked(r)
    BY DEF IInv, Linked
  <2>2. \A q \in new : r.seq < q.seq
    BY <1>1, <1>6 DEF Follows
  <2>3. \A n \in Known' : ~(r.prev < n /\ n < r.seq)
    BY <1>1, <1>2, <2>1, <2>2 DEF RowLinked
  <2> QED
    BY <1>1, <1>2, <2>1, <2>3 DEF RowLinked
<1>9. ASSUME NEW r \in new PROVE RowLinked(r)'
  <2>1. /\ chainHead < r.seq /\ chainHead <= r.prev /\ r.prev < r.seq /\ r.intact
        /\ r.prev = chainHead \/ \E q \in new : q.seq = r.prev
        /\ \A q \in new : ~(r.prev < q.seq /\ q.seq < r.seq)
    BY DEF Follows
  <2>2. LatestCheckpoint' < r.seq
    BY <1>1, <1>3, <2>1
  <2>3. \A n \in Known' : ~(r.prev < n /\ n < r.seq)
    BY <1>1, <1>2, <2>1 DEF IInv, Linked
  <2>4. r.prev <= LatestCheckpoint' \/ r.prev \in Seqs' \cup harm'
    BY <1>1, <1>2, <2>1 DEF IInv, Linked
  <2>5. r.seq \notin harm'
    BY <1>1, <2>1 DEF IInv, Linked, Known
  <2> QED
    BY <2>1, <2>2, <2>3, <2>4, <2>5 DEF RowLinked
<1> QED
  BY <1>4, <1>5, <1>7, <1>8, <1>9 DEF Linked

-----------------------------------------------------------------------------
LEMMA AuditTypeStep == IInv /\ [AuditNext]_auditVars => AuditTypeOK'
<1> SUFFICES ASSUME IInv, [AuditNext]_auditVars PROVE AuditTypeOK'
  OBVIOUS
<1> USE DEF AuditTypeOK, Row
<1>0. AuditTypeOK
  BY DEF IInv
<1>1. ASSUME AddEvent PROVE events' \subseteq Row /\ chainHead' \in Nat /\ nextSeq' \in Nat \ {0}
  <2>1. NewEvent(chainHead) \in Row
    BY <1>0 DEF NewEvent
  <2>2. events' \subseteq Row
    BY <1>0, <1>1, <2>1 DEF AddEvent
  <2>3. chainHead' \in Nat /\ nextSeq' \in Nat \ {0}
    BY <1>0, <1>1 DEF AddEvent
  <2> QED
    BY <2>2, <2>3
<1>2. ASSUME NEW w \in Writers
      PROVE  LastHash(inserted[w]) \in Nat
  <2>1. inserted[w] \in SUBSET Row /\ chainHead \in Nat /\ PendingLinked(w)
    BY <1>0 DEF IInv
  <2> QED
    BY <2>1, LastHashIs DEF PendingLinked
<1>3. CASE LogAlone
  BY <1>0, <1>1, <1>3 DEF LogAlone
<1>4. CASE LogFails
  BY <1>0, <1>4 DEF LogFails
<1>5. CASE Harm
  <2>1. PICK r \in events : \/ events' = (events \ {r}) \cup {[r EXCEPT !.intact = FALSE]}
                            \/ events' = events \ {r}
    BY <1>5 DEF Harm
  <2>2. events' \subseteq Row
    <3>1. r \in Row /\ [r EXCEPT !.intact = FALSE] \in Row
      BY <1>0
    <3> HIDE DEF Row
    <3> QED
      BY <1>0, <2>1, <3>1
  <2>3. harm' \subseteq Nat
    BY <1>0, <1>5 DEF Harm
  <2> QED
    BY <1>0, <1>5, <2>2, <2>3 DEF Harm
<1>6. ASSUME NEW w \in Writers, LogInside(w) PROVE AuditTypeOK'
  <2>1. NewEvent(LastHash(inserted[w])) \in Row
    BY <1>0, <1>2 DEF NewEvent
  <2> QED
    BY <1>0, <1>6, <2>1 DEF LogInside
<1>7. ASSUME NEW w \in Writers, Commit(w) PROVE AuditTypeOK'
  BY <1>0, <1>2, <1>7 DEF Commit
<1>8. ASSUME NEW w \in Writers, Rollback(w) PROVE AuditTypeOK'
  BY <1>0, <1>8 DEF Rollback
<1>9. ASSUME NEW p \in Purgers, ReadOld(p) PROVE AuditTypeOK'
  BY <1>0, <1>9 DEF ReadOld
<1>10. ASSUME NEW p \in Purgers, DeleteOld(p) PROVE AuditTypeOK'
  <2>1. purge' \in [Purgers -> [pc : {"idle", "read", "deleted"}, last : Nat]]
    BY <1>0, <1>10 DEF DeleteOld
  <2>2. walk' \in [Verifiers -> [pc : {"idle", "started", "walked"}, start : Nat, ok : BOOLEAN, raced : BOOLEAN]]
    BY <1>0, <1>10 DEF DeleteOld
  <2>3. checkpoints' \subseteq Nat /\ events' \subseteq Row
    BY <1>0, <1>10 DEF DeleteOld, Remaining
  <2> QED
    BY <1>0, <1>10, <2>1, <2>2, <2>3 DEF DeleteOld
<1>11. ASSUME NEW p \in Purgers, PurgeLogged(p) PROVE AuditTypeOK'
  BY <1>0, <1>1, <1>11 DEF PurgeLogged
<1>12. ASSUME NEW v \in Verifiers, StartWalk(v) PROVE AuditTypeOK'
  BY <1>0, <1>12, Latest DEF StartWalk, IInv
<1>13. ASSUME NEW v \in Verifiers, Walk(v) PROVE AuditTypeOK'
  <2>1. WalkOk(walk[v].start, events) \in BOOLEAN
    BY DEF WalkOk
  <2>2. PICK good : good = WalkOk(walk[v].start, events)
    OBVIOUS
  <2>3. PICK row : row = [walk[v] EXCEPT !.pc = "walked", !.ok = good]
    OBVIOUS
  <2>4. row \in [pc : {"idle", "started", "walked"}, start : Nat, ok : BOOLEAN, raced : BOOLEAN]
    <3>1. walk[v] \in [pc : {"idle", "started", "walked"}, start : Nat, ok : BOOLEAN, raced : BOOLEAN] /\ good \in BOOLEAN
      BY <1>0, <2>1, <2>2
    <3> HIDE DEF AuditTypeOK
    <3> QED
      BY <2>3, <3>1
  <2>5. walk' = [walk EXCEPT ![v] = row]
    <3>1. walk' = [walk EXCEPT ![v].pc = "walked", ![v].ok = WalkOk(walk[v].start, events)]
      BY <1>13 DEF Walk
    <3> QED
      BY <1>0, <2>2, <2>3, <3>1
  <2>6. walk' \in [Verifiers -> [pc : {"idle", "started", "walked"}, start : Nat, ok : BOOLEAN, raced : BOOLEAN]]
    BY <1>0, <2>4, <2>5
  <2> QED
    BY <1>0, <1>13, <2>6 DEF Walk
<1>14. ASSUME NEW v \in Verifiers, WalkLogged(v) PROVE AuditTypeOK'
  BY <1>0, <1>1, <1>14 DEF WalkLogged
<1>15. CASE UNCHANGED auditVars
  BY <1>0, <1>15 DEF auditVars
<1> QED
  BY <1>3, <1>4, <1>5, <1>6, <1>7, <1>8, <1>9, <1>10, <1>11, <1>12, <1>13, <1>14, <1>15 DEF AuditNext

-----------------------------------------------------------------------------
\* A record added on its own, with no transaction open, leaves everything linked.
LEMMA AddLinked ==
    ASSUME IInv, AddEvent, checkpoints' = checkpoints, inserted' = inserted, headLock' = headLock,
           harm' = harm, Lasts' \subseteq Lasts
    PROVE  /\ Linked' /\ CheckpointsTop' /\ LatestCheckpoint' = LatestCheckpoint
           /\ \A w \in Writers : PendingLinked(w)'
<1> DEFINE new == {NewEvent(chainHead)}
<1>1. /\ chainHead \in Nat /\ nextSeq \in Nat /\ chainHead < nextSeq
      /\ events' = events \cup new /\ chainHead' = nextSeq /\ nextSeq' = nextSeq + 1
  BY DEF IInv, AuditTypeOK, Linked, AddEvent
<1>2. new \in SUBSET Row
  BY <1>1 DEF NewEvent, Row
<1>3. \A r \in new : Follows(r, new, chainHead) /\ r.seq <= chainHead'
  BY <1>1 DEF NewEvent, Follows
<1>4. \E r \in new : chainHead' = r.seq
  BY <1>1 DEF NewEvent
<1>5. Linked'
  <2> HIDE DEF new
  <2>1. nextSeq' \in Nat /\ chainHead' < nextSeq'
    BY <1>1
  <2> QED
    BY <1>1, <1>2, <1>3, <1>4, <2>1, AppendLinked
<1>6. \A w \in Writers : inserted[w] = {}
  BY AuditAssumption DEF IInv, PendingLinked, AddEvent
<1>7. \A w \in Writers : PendingLinked(w)'
  BY <1>6 DEF PendingLinked
<1>8. CheckpointsTop' /\ LatestCheckpoint' = LatestCheckpoint
  BY DEF IInv, CheckpointsTop, LatestCheckpoint
<1> QED
  BY <1>5, <1>7, <1>8

\* What leaves the rows, the head and the checkpoints alone leaves the chain linked.
LEMMA RestLinked ==
    ASSUME IInv, events' = events, chainHead' = chainHead, checkpoints' = checkpoints, harm' = harm,
           nextSeq' \in Nat, nextSeq <= nextSeq', Lasts' \subseteq Lasts \cup Seqs
    PROVE  /\ Linked' /\ CheckpointsTop' /\ LatestCheckpoint' = LatestCheckpoint
<1>1. CheckpointsTop' /\ LatestCheckpoint' = LatestCheckpoint
  BY DEF IInv, CheckpointsTop, LatestCheckpoint
<1>2. Seqs' = Seqs /\ Known' \subseteq Known
  BY DEF Known, Seqs
<1>3. \A r \in events : RowLinked(r) => RowLinked(r)'
  BY <1>1, <1>2 DEF RowLinked
<1>4. chainHead \in Nat /\ nextSeq \in Nat /\ chainHead < nextSeq
  BY DEF IInv, AuditTypeOK, Linked
<1> QED
  BY <1>1, <1>2, <1>3, <1>4 DEF IInv, Linked

\* The open transactions stay linked while the head and their rows stay.
LEMMA RestPending ==
    ASSUME IInv, NEW w \in Writers, chainHead' = chainHead, inserted'[w] = inserted[w],
           inserted[w] # {} => headLock' = headLock, nextSeq' \in Nat, nextSeq <= nextSeq'
    PROVE  PendingLinked(w)'
<1>1. PendingLinked(w) /\ inserted[w] \subseteq Row /\ nextSeq \in Nat
  BY DEF IInv, AuditTypeOK
<1>2. \A r \in inserted[w] : r.seq < nextSeq'
  BY <1>1 DEF PendingLinked, Row
<1> QED
  BY <1>1, <1>2 DEF PendingLinked, Follows

-----------------------------------------------------------------------------
LEMMA InvInit == AuditInit => IInv
<1> SUFFICES ASSUME AuditInit PROVE IInv
  OBVIOUS
<1>1. AuditTypeOK
  BY DEF AuditInit, AuditTypeOK
<1>2. LatestCheckpoint = 0 /\ CheckpointsTop
  BY DEF AuditInit, LatestCheckpoint, CheckpointsTop
<1>3. \A w \in Writers : PendingLinked(w)
  BY DEF AuditInit, PendingLinked
<1>4. Known = {}
  BY DEF AuditInit, Known, Seqs, Lasts
<1>5. Linked
  BY <1>2, <1>4 DEF AuditInit, Linked
<1>6. WalksStart
  BY DEF AuditInit, WalksStart
<1> QED
  BY <1>1, <1>2, <1>3, <1>5, <1>6 DEF IInv

\* A transaction writes one more record.
LEMMA InsideStep ==
    ASSUME IInv, NEW w \in Writers, LogInside(w)
    PROVE  Linked' /\ CheckpointsTop' /\ WalksStart' /\ \A x \in Writers : PendingLinked(x)'
<1> DEFINE new == NewEvent(LastHash(inserted[w]))  rows == inserted[w]
<1>1. /\ chainHead \in Nat /\ nextSeq \in Nat /\ chainHead < nextSeq /\ rows \in SUBSET Row
      /\ PendingLinked(w) /\ nextSeq' = nextSeq + 1 /\ chainHead' = chainHead
      /\ inserted' = [inserted EXCEPT ![w] = rows \cup {new}] /\ headLock' = w
      /\ inserted \in [Writers -> SUBSET Row]
  BY DEF IInv, AuditTypeOK, Linked, LogInside
<1>2. /\ LastHash(rows) \in Nat /\ \A q \in rows : q.seq <= LastHash(rows)
      /\ rows = {} => LastHash(rows) = chainHead
      /\ rows # {} => \E r \in rows : LastHash(rows) = r.seq
  BY <1>1, LastHashIs DEF PendingLinked
<1>3. new.seq = nextSeq /\ new.prev = LastHash(rows) /\ new.intact
  BY DEF NewEvent
<1>4. chainHead <= LastHash(rows) /\ LastHash(rows) < nextSeq
  BY <1>1, <1>2 DEF PendingLinked, Follows, Row
<1> HIDE DEF new, rows
<1>5. Linked' /\ CheckpointsTop' /\ LatestCheckpoint' = LatestCheckpoint
  <2>1. /\ events' = events /\ checkpoints' = checkpoints /\ harm' = harm
        /\ nextSeq' \in Nat /\ nextSeq <= nextSeq'
    BY <1>1 DEF LogInside
  <2>2. Lasts' \subseteq Lasts \cup Seqs
    BY DEF LogInside, Lasts
  <2> QED
    BY <1>1, <2>1, <2>2, RestLinked
<1>6. PendingLinked(w)'
  <2>1. inserted'[w] = rows \cup {new}
    BY <1>1
  <2>2. \A q \in rows : q.seq < new.seq /\ q.seq \in Nat /\ q.prev \in Nat
    BY <1>1, <1>3 DEF PendingLinked, Row, rows
  <2>3. \A q \in rows \cup {new} : q.seq <= new.seq
    BY <1>1, <1>3, <2>2
  <2>4. Follows(new, rows \cup {new}, chainHead)
    BY <1>1, <1>2, <1>3, <1>4, <2>2 DEF Follows
  <2>5. ASSUME NEW r \in rows PROVE Follows(r, rows \cup {new}, chainHead)
    <3>1. Follows(r, rows, chainHead)
      BY <1>1 DEF PendingLinked, rows
    <3> QED
      BY <1>1, <1>3, <2>2, <3>1 DEF Follows
  <2>6. \A r \in rows \cup {new} : r.seq < nextSeq'
    BY <1>1, <1>3, <2>2
  <2>7. \A r \in inserted'[w] : Follows(r, inserted'[w], chainHead')
    BY <1>1, <2>1, <2>4, <2>5
  <2> QED
    BY <1>1, <2>1, <2>3, <2>6, <2>7 DEF PendingLinked
<1>7. ASSUME NEW x \in Writers, x # w PROVE PendingLinked(x)'
  <2>1. inserted[x] = {}
    BY <1>7, AuditAssumption DEF IInv, PendingLinked, LogInside, HeadFree
  <2>2. inserted'[x] = {}
    BY <1>1, <1>7, <2>1
  <2> QED
    BY <2>2 DEF PendingLinked
<1>8. WalksStart'
  BY <1>5 DEF IInv, WalksStart, LogInside
<1> QED
  BY <1>5, <1>6, <1>7, <1>8

\* A transaction ends: its records join the chain.
LEMMA CommitStep ==
    ASSUME IInv, NEW w \in Writers, Commit(w)
    PROVE  Linked' /\ CheckpointsTop' /\ WalksStart' /\ \A x \in Writers : PendingLinked(x)'
<1> DEFINE rows == inserted[w]
<1>1. /\ chainHead \in Nat /\ nextSeq \in Nat /\ rows \in SUBSET Row /\ rows # {}
      /\ PendingLinked(w) /\ events' = events \cup rows /\ chainHead' = LastHash(rows)
      /\ inserted' = [inserted EXCEPT ![w] = {}] /\ nextSeq' = nextSeq /\ checkpoints' = checkpoints /\ harm' = harm
      /\ inserted \in [Writers -> SUBSET Row]
  BY DEF IInv, AuditTypeOK, Commit
<1>2. /\ \E r \in rows : chainHead' = r.seq
      /\ \A r \in rows : r.seq <= chainHead'
  BY <1>1, LastHashIs DEF PendingLinked
<1>3. \A r \in rows : Follows(r, rows, chainHead) /\ r.seq < nextSeq
  BY <1>1 DEF PendingLinked
<1>4. Lasts' \subseteq Lasts
  BY DEF Commit, Lasts
<1>5. Linked'
  <2> HIDE DEF rows
  <2> QED
    BY <1>1, <1>2, <1>3, <1>4, AppendLinked
<1>6. CheckpointsTop' /\ LatestCheckpoint' = LatestCheckpoint
  BY <1>1 DEF IInv, CheckpointsTop, LatestCheckpoint
<1>7. ASSUME NEW x \in Writers PROVE PendingLinked(x)'
  <2>1. inserted'[x] = {}
    BY <1>1 DEF IInv, PendingLinked
  <2> QED
    BY <2>1 DEF PendingLinked
<1>8. WalksStart'
  BY <1>6 DEF IInv, WalksStart, Commit
<1> QED
  BY <1>5, <1>6, <1>7, <1>8

LEMMA RollbackStep ==
    ASSUME IInv, NEW w \in Writers, Rollback(w)
    PROVE  Linked' /\ CheckpointsTop' /\ WalksStart' /\ \A x \in Writers : PendingLinked(x)'
<1>1. /\ inserted' = [inserted EXCEPT ![w] = {}] /\ inserted[w] # {} /\ inserted \in [Writers -> SUBSET Row]
      /\ events' = events /\ chainHead' = chainHead /\ checkpoints' = checkpoints /\ harm' = harm
      /\ nextSeq' = nextSeq /\ nextSeq \in Nat
  BY DEF IInv, AuditTypeOK, Rollback
<1>2. Lasts' \subseteq Lasts \cup Seqs
  BY DEF Rollback, Lasts
<1>3. Linked' /\ CheckpointsTop' /\ LatestCheckpoint' = LatestCheckpoint
  BY <1>1, <1>2, RestLinked
<1>4. ASSUME NEW x \in Writers PROVE PendingLinked(x)'
  <2>1. inserted'[x] = {}
    BY <1>1 DEF IInv, PendingLinked
  <2> QED
    BY <2>1 DEF PendingLinked
<1>5. WalksStart'
  BY <1>3 DEF IInv, WalksStart, Rollback
<1> QED
  BY <1>3, <1>4, <1>5

\* Somebody changes or removes a row: it is in harm from then on, and the others stay linked.
LEMMA HarmStep ==
    ASSUME IInv, Harm
    PROVE  Linked' /\ CheckpointsTop' /\ WalksStart' /\ \A x \in Writers : PendingLinked(x)'
<1>1. PICK r \in events : \/ events' = (events \ {r}) \cup {[r EXCEPT !.intact = FALSE]}
                          \/ events' = events \ {r}
  BY DEF Harm
<1> DEFINE changed == [r EXCEPT !.intact = FALSE]
<1>2. /\ checkpoints' = checkpoints /\ chainHead' = chainHead /\ nextSeq' = nextSeq /\ inserted' = inserted
      /\ headLock' = headLock /\ Lasts' = Lasts /\ harm' = harm \cup {q.seq : q \in events \ events'}
      /\ \A v \in Verifiers : walk'[v].pc = "idle"
  BY DEF Harm, Lasts
<1>3. /\ events \subseteq Row /\ r \in Row /\ chainHead \in Nat /\ nextSeq \in Nat /\ Linked /\ RowLinked(r)
      /\ \A q, s \in events : q.seq = s.seq => q = s
  BY DEF IInv, AuditTypeOK, Linked
<1>4. CheckpointsTop' /\ LatestCheckpoint' = LatestCheckpoint
  BY <1>2 DEF IInv, CheckpointsTop, LatestCheckpoint
<1>5. CASE events' = events
  <2>1. harm' = harm /\ Known' = Known /\ Seqs' = Seqs
    BY <1>2, <1>5 DEF Known, Seqs
  <2>2. \A q \in events : RowLinked(q) => RowLinked(q)'
    BY <1>4, <2>1 DEF RowLinked
  <2>3. Linked'
    BY <1>2, <1>3, <1>4, <1>5, <2>1, <2>2 DEF Linked
  <2> QED
    BY <1>2, <1>4, <2>3 DEF IInv, WalksStart, PendingLinked
<1>6. CASE events' # events
  <2>1. changed.seq = r.seq /\ changed.prev = r.prev /\ ~changed.intact
    BY <1>3 DEF Row
  <2> HIDE DEF changed
  <2>2. events \ events' = {r}
    BY <1>1, <1>6 DEF changed
  <2>3. harm' = harm \cup {r.seq}
    BY <1>2, <2>2
  <2>4. events' = (events \ {r}) \cup {changed} \/ events' = events \ {r}
    BY <1>1 DEF changed
  <2>5. Seqs' \cup harm' = Seqs \cup harm
    BY <2>1, <2>3, <2>4 DEF Seqs
  <2>6. Known' = Known
    BY <1>2, <2>5 DEF Known
  <2>7. ASSUME NEW q \in events, q # r PROVE RowLinked(q)'
    <3>1. RowLinked(q) /\ q.seq # r.seq
      BY <1>3, <2>7 DEF Linked
    <3> QED
      BY <1>4, <2>3, <2>5, <2>6, <3>1 DEF RowLinked
  <2>8. RowLinked(changed)'
    <3>1. LatestCheckpoint < r.seq /\ r.prev < r.seq
          /\ (\A n \in Known : ~(r.prev < n /\ n < r.seq))
          /\ (r.prev <= LatestCheckpoint \/ r.prev \in Seqs \cup harm)
      BY <1>3 DEF RowLinked
    <3> QED
      BY <1>4, <2>1, <2>3, <2>5, <2>6, <3>1 DEF RowLinked, changed
  <2>9. \A q, s \in events' : q.seq = s.seq => q = s
    BY <1>3, <2>1, <2>4
  <2>10. Linked'
    BY <1>2, <1>3, <1>4, <2>4, <2>5, <2>6, <2>7, <2>8, <2>9 DEF Linked
  <2> QED
    BY <1>2, <1>4, <2>10 DEF IInv, WalksStart, PendingLinked
<1> QED
  BY <1>5, <1>6

LEMMA ReadStep ==
    ASSUME IInv, NEW p \in Purgers, ReadOld(p)
    PROVE  Linked' /\ CheckpointsTop' /\ WalksStart' /\ \A x \in Writers : PendingLinked(x)'
<1>1. /\ events' = events /\ chainHead' = chainHead /\ checkpoints' = checkpoints /\ harm' = harm
      /\ nextSeq' = nextSeq /\ inserted' = inserted /\ headLock' = headLock /\ walk' = walk
  BY DEF ReadOld
<1>2. Lasts' \subseteq Lasts \cup Seqs
  <2>1. PICK last \in events : purge' = [purge EXCEPT ![p] = [pc |-> "read", last |-> last.seq]]
    BY DEF ReadOld
  <2>2. purge \in [Purgers -> [pc : {"idle", "read", "deleted"}, last : Nat]]
    BY DEF IInv, AuditTypeOK
  <2> QED
    BY <2>1, <2>2 DEF Lasts, Seqs
<1>3. nextSeq \in Nat
  BY DEF IInv, AuditTypeOK
<1>4. Linked' /\ CheckpointsTop' /\ LatestCheckpoint' = LatestCheckpoint
  BY <1>1, <1>2, <1>3, RestLinked
<1>5. \A x \in Writers : PendingLinked(x)'
  BY <1>1, <1>3, RestPending
<1>6. WalksStart'
  BY <1>1, <1>4 DEF IInv, WalksStart
<1> QED
  BY <1>4, <1>5, <1>6

\* A purge moves the latest checkpoint up to the last row it removes, unless a later one is there.
LEMMA DeleteStep ==
    ASSUME IInv, NEW p \in Purgers, DeleteOld(p)
    PROVE  Linked' /\ CheckpointsTop' /\ WalksStart' /\ \A x \in Writers : PendingLinked(x)'
<1> DEFINE n == purge[p].last
<1>1. /\ checkpoints' = checkpoints \cup {n} /\ events' = Remaining(n) /\ purge[p].pc = "read"
      /\ chainHead' = chainHead /\ harm' = harm /\ nextSeq' = nextSeq /\ inserted' = inserted /\ headLock' = headLock
      /\ n \in Nat /\ checkpoints \subseteq Nat /\ CheckpointsTop /\ events \subseteq Row
      /\ purge \in [Purgers -> [pc : {"idle", "read", "deleted"}, last : Nat]]
      /\ chainHead \in Nat /\ nextSeq \in Nat /\ Linked
  BY DEF DeleteOld, IInv, AuditTypeOK
<1>2. n \in Lasts
  BY <1>1 DEF Lasts
<1>3. Lasts' \subseteq Lasts
  BY <1>1 DEF DeleteOld, Lasts
<1> HIDE DEF n
<1>4. /\ CheckpointsTop' /\ LatestCheckpoint' = IF n <= LatestCheckpoint THEN LatestCheckpoint ELSE n
      /\ LatestCheckpoint \in Nat /\ LatestCheckpoint' \in Nat
      /\ LatestCheckpoint <= LatestCheckpoint' /\ n <= LatestCheckpoint'
  BY <1>1, LatestAdded, Latest
<1>5. events' = {r \in events : r.seq > n} /\ Seqs' = {s \in Seqs : s > n}
  BY <1>1 DEF Remaining, Seqs
<1>6. Known' \subseteq Known
  BY <1>1, <1>2, <1>3, <1>5 DEF Known
<1>7. ASSUME NEW r \in events' PROVE RowLinked(r)'
  <2>1. RowLinked(r) /\ r.seq > n /\ r \in Row
    BY <1>1, <1>5 DEF Linked
  <2>2. LatestCheckpoint' < r.seq
    BY <1>4, <2>1 DEF RowLinked
  <2>3. r.prev <= LatestCheckpoint' \/ r.prev \in Seqs' \cup harm'
    BY <1>1, <1>4, <1>5, <2>1 DEF RowLinked, Row
  <2> QED
    BY <1>1, <1>6, <2>1, <2>2, <2>3 DEF RowLinked
<1>8. chainHead' <= LatestCheckpoint' \/ chainHead' \in Seqs' \cup harm'
  BY <1>1, <1>4, <1>5 DEF Linked
<1>9. Linked'
  BY <1>1, <1>5, <1>6, <1>7, <1>8 DEF Linked
<1>10. \A x \in Writers : PendingLinked(x)'
  BY <1>1, RestPending
<1>11. WalksStart'
  BY DEF IInv, AuditTypeOK, DeleteOld, WalksStart
<1> QED
  BY <1>4, <1>9, <1>10, <1>11

LEMMA InvStep == IInv /\ [AuditNext]_auditVars => IInv'
<1> SUFFICES ASSUME IInv, [AuditNext]_auditVars
             PROVE  Linked' /\ CheckpointsTop' /\ WalksStart' /\ \A x \in Writers : PendingLinked(x)'
  BY AuditTypeStep DEF IInv
<1> DEFINE Goal == Linked' /\ CheckpointsTop' /\ WalksStart' /\ \A x \in Writers : PendingLinked(x)'
<1>0. /\ nextSeq \in Nat /\ purge \in [Purgers -> [pc : {"idle", "read", "deleted"}, last : Nat]]
      /\ walk \in [Verifiers -> [pc : {"idle", "started", "walked"}, start : Nat, ok : BOOLEAN, raced : BOOLEAN]]
  BY DEF IInv, AuditTypeOK
<1>1. CASE LogAlone
  <2>1. Lasts' \subseteq Lasts /\ AddEvent /\ UNCHANGED <<checkpoints, inserted, headLock, harm, walk>>
    BY <1>1 DEF LogAlone, Lasts
  <2>2. Linked' /\ CheckpointsTop' /\ LatestCheckpoint' = LatestCheckpoint /\ \A x \in Writers : PendingLinked(x)'
    BY <2>1, AddLinked
  <2> QED
    BY <2>1, <2>2 DEF IInv, WalksStart
<1>2. ASSUME UNCHANGED <<events, chainHead, checkpoints, inserted, headLock, harm>>,
             nextSeq' \in Nat, nextSeq <= nextSeq', Lasts' \subseteq Lasts
      PROVE  Linked' /\ CheckpointsTop' /\ LatestCheckpoint' = LatestCheckpoint /\ \A x \in Writers : PendingLinked(x)'
  BY <1>2, RestLinked, RestPending
<1>3. CASE LogFails
  <2>1. Lasts' \subseteq Lasts /\ UNCHANGED <<events, chainHead, checkpoints, inserted, headLock, harm, walk>>
        /\ nextSeq' \in Nat /\ nextSeq <= nextSeq'
    BY <1>0, <1>3 DEF LogFails, Lasts
  <2> QED
    BY <1>2, <2>1 DEF IInv, WalksStart
<1>4. ASSUME NEW p \in Purgers, PurgeLogged(p) PROVE Goal
  <2>1. Lasts' \subseteq Lasts /\ UNCHANGED <<checkpoints, inserted, headLock, harm, walk>>
    BY <1>0, <1>4 DEF PurgeLogged, Lasts
  <2>2. CASE AddEvent
    BY <2>1, <2>2, AddLinked DEF IInv, WalksStart
  <2>3. CASE UNCHANGED <<events, chainHead, nextSeq>>
    BY <1>0, <1>2, <2>1, <2>3 DEF IInv, WalksStart
  <2> QED
    BY <1>4, <2>2, <2>3 DEF PurgeLogged
<1>5. ASSUME NEW v \in Verifiers, StartWalk(v) \/ Walk(v) PROVE Goal
  <2>1. Lasts' \subseteq Lasts /\ UNCHANGED <<events, chainHead, checkpoints, inserted, headLock, harm, nextSeq>>
    BY <1>5 DEF StartWalk, Walk, Lasts
  <2>2. Linked' /\ CheckpointsTop' /\ LatestCheckpoint' = LatestCheckpoint /\ \A x \in Writers : PendingLinked(x)'
    BY <1>0, <1>2, <2>1
  <2>3. WalksStart'
    BY <1>0, <1>5, <2>2 DEF IInv, WalksStart, StartWalk, Walk
  <2> QED
    BY <2>2, <2>3
<1>6. ASSUME NEW v \in Verifiers, WalkLogged(v) PROVE Goal
  <2>1. Lasts' \subseteq Lasts /\ UNCHANGED <<checkpoints, inserted, headLock, harm>>
    BY <1>6 DEF WalkLogged, Lasts
  <2>2. Linked' /\ CheckpointsTop' /\ LatestCheckpoint' = LatestCheckpoint /\ \A x \in Writers : PendingLinked(x)'
    <3>1. CASE AddEvent
      BY <2>1, <3>1, AddLinked
    <3>2. CASE UNCHANGED <<events, chainHead, nextSeq>>
      BY <1>0, <1>2, <2>1, <3>2
    <3> QED
      BY <1>6, <3>1, <3>2 DEF WalkLogged
  <2>3. WalksStart'
    BY <1>0, <1>6, <2>2 DEF IInv, WalksStart, WalkLogged
  <2> QED
    BY <2>2, <2>3
<1>7. CASE UNCHANGED auditVars
  <2>1. Lasts' \subseteq Lasts /\ UNCHANGED <<events, chainHead, checkpoints, inserted, headLock, harm, nextSeq, walk>>
    BY <1>7 DEF auditVars, Lasts
  <2> QED
    BY <1>0, <1>2, <2>1 DEF IInv, WalksStart
<1> QED
  BY <1>1, <1>3, <1>4, <1>5, <1>6, <1>7, InsideStep, CommitStep, RollbackStep, HarmStep, ReadStep, DeleteStep
  DEF AuditNext

LEMMA InvHolds == AuditSpec => []IInv
<1>1. AuditInit => IInv
  BY InvInit
<1>2. IInv /\ [AuditNext]_auditVars => IInv'
  BY InvStep
<1> QED
  BY <1>1, <1>2, PTL DEF AuditSpec

\* The state of the chain has the types AuditTypeOK gives it.
THEOREM AuditTypeCorrect == AuditSpec => []AuditTypeOK
<1>1. IInv => AuditTypeOK
  BY DEF IInv
<1> QED
  BY <1>1, InvHolds, PTL

-----------------------------------------------------------------------------
\* A set of natural numbers that is not empty has a least one: of the segments that end in its
\* members one has no other below it.
LEMMA LeastOf ==
    ASSUME NEW S \in SUBSET Nat, S # {}
    PROVE  \E n \in S : \A m \in S : n <= m
<1> DEFINE segments == {0 .. n : n \in S}
<1>1. segments \subseteq FiniteSubsetsOf(Nat) /\ segments # {}
  <2>1. \A n \in S : 0 .. n \in SUBSET Nat /\ IsFiniteSet(0 .. n)
    BY FS_Interval
  <2> QED
    BY <2>1 DEF FiniteSubsetsOf
<1>2. PICK X \in segments : \A Y \in segments : <<Y, X>> \notin StrictSubsetOrdering(Nat)
  <2> HIDE DEF segments
  <2> QED
    BY <1>1, FS_StrictSubsetOrderingWellFounded, WFMin
<1>3. PICK n \in S : X = 0 .. n
  OBVIOUS
<1>4. ASSUME NEW m \in S, ~(n <= m) PROVE FALSE
  <2>1. 0 .. m \subseteq 0 .. n /\ n \in 0 .. n /\ n \notin 0 .. m /\ 0 .. n \in SUBSET Nat
    BY <1>4
  <2>2. <<0 .. m, 0 .. n>> \in StrictSubsetOrdering(Nat)
    BY <2>1 DEF StrictSubsetOrdering
  <2> QED
    BY <1>2, <1>3, <2>2
<1> QED
  BY <1>4

\* The walk of the rows succeeds exactly when no change from outside shows: a changed row, or a row
\* after a removed one, breaks it, and nothing else does (HarmShows).
LEMMA WalkShows ==
    ASSUME IInv
    PROVE  WalkOk(LatestCheckpoint, events) <=> ~HarmShows
<1>1. /\ LatestCheckpoint \in Nat /\ events \subseteq Row /\ harm \subseteq Nat /\ Seqs \subseteq Nat
      /\ \A r \in events : RowLinked(r) /\ r.seq \in Nat /\ r.prev \in Nat
  BY KnownIsNat, Latest DEF IInv, AuditTypeOK, Linked, Row
<1>2. ASSUME ~HarmShows PROVE WalkOk(LatestCheckpoint, events)
  <2> SUFFICES ASSUME NEW r \in events
               PROVE  /\ r.intact /\ r.prev < r.seq
                      /\ r.prev = LatestCheckpoint \/ \E q \in events : q.seq = r.prev
                      /\ \A q \in events : ~(r.prev < q.seq /\ q.seq < r.seq)
    BY DEF WalkOk
  <2>1. r.seq \notin harm
    BY <1>2 DEF HarmShows
  <2>2. r.intact /\ r.prev < r.seq
    BY <1>1, <2>1 DEF RowLinked
  <2>3. \A q \in events : ~(r.prev < q.seq /\ q.seq < r.seq)
    BY <1>1 DEF RowLinked, Known, Seqs
  <2>4. ~(r.prev < LatestCheckpoint)
    <3>1. LatestCheckpoint \in checkpoints \/ LatestCheckpoint = 0
      BY Latest DEF IInv, AuditTypeOK
    <3>2. LatestCheckpoint < r.seq
      BY <1>1 DEF RowLinked
    <3> QED
      BY <1>1, <3>1, <3>2 DEF RowLinked, Known
  <2>5. r.prev = LatestCheckpoint \/ r.prev \in Seqs
    <3>1. r.prev <= LatestCheckpoint \/ r.prev \in Seqs \cup harm
      BY <1>1 DEF RowLinked
    <3>2. r.prev \in harm /\ r.prev > LatestCheckpoint => FALSE
      BY <1>1, <1>2, <2>2 DEF HarmShows
    <3> QED
      BY <1>1, <2>4, <3>1, <3>2
  <2> QED
    BY <2>2, <2>3, <2>5 DEF Seqs
<1>3. ASSUME HarmShows, WalkOk(LatestCheckpoint, events) PROVE FALSE
  <2>1. PICK h \in harm : \/ \E r \in events : r.seq = h
                          \/ h > LatestCheckpoint /\ \E r \in events : r.seq > h
    BY <1>3 DEF HarmShows
  <2>2. \A r \in events : r.seq # h
    BY <1>1, <1>3 DEF WalkOk, RowLinked
  <2> DEFINE later == {s \in Seqs : s > h}
  <2>3. later \in SUBSET Nat /\ later # {} /\ h \in Nat /\ h > LatestCheckpoint
    BY <1>1, <2>1, <2>2 DEF Seqs
  <2>4. PICK n \in later : \A m \in later : n <= m
    BY <2>3, LeastOf
  <2>5. PICK r \in events : r.seq = n
    BY <2>4 DEF Seqs
  <2>6. ~(r.prev < h /\ h < r.seq)
    BY <1>1 DEF RowLinked, Known
  <2>7. h < r.seq /\ h <= r.prev /\ r.prev < r.seq
    BY <1>1, <2>3, <2>4, <2>5, <2>6 DEF RowLinked
  <2>8. \E q \in events : q.seq = r.prev
    BY <1>1, <1>3, <2>3, <2>7 DEF WalkOk
  <2>9. r.prev \in later
    BY <1>1, <2>2, <2>3, <2>7, <2>8 DEF Seqs
  <2> QED
    BY <1>1, <2>3, <2>4, <2>5, <2>7, <2>9
<1> QED
  BY <1>2, <1>3

\* The verdict of verify_chain is right, whatever writers, purges and changes from outside did before
\* the walk: it says the chain is whole exactly when no change shows (src/audit/verify.py:13).
THEOREM VerdictCorrect == AuditSpec => VerdictIsRight
<1> DEFINE Verdict == \A v \in Verifiers : Walk(v) /\ ~walk[v].raced => (walk'[v].ok <=> ~HarmShows)
<1>1. IInv /\ [AuditNext]_auditVars => [Verdict]_auditVars
  <2> SUFFICES ASSUME IInv, NEW v \in Verifiers, Walk(v), ~walk[v].raced
               PROVE  walk'[v].ok <=> ~HarmShows
    OBVIOUS
  <2>1. walk[v].start = LatestCheckpoint
    BY DEF IInv, WalksStart, Walk
  <2>2. walk'[v].ok = WalkOk(walk[v].start, events)
    BY DEF IInv, AuditTypeOK, Walk
  <2> QED
    BY <2>1, <2>2, WalkShows
<1> HIDE DEF Verdict
<1>2. AuditSpec => [][Verdict]_auditVars
  BY <1>1, InvHolds, PTL DEF AuditSpec
<1> QED
  BY <1>2 DEF VerdictIsRight, Verdict

-----------------------------------------------------------------------------
\* The invariant gives ChainLinksUp.
LEMMA LinksUp == IInv => ChainLinksUp
<1> SUFFICES ASSUME IInv, harm = {}
             PROVE  /\ WalkOk(LatestCheckpoint, events)
                    /\ chainHead = LatestCheckpoint \/ \E r \in events : r.seq = chainHead
  BY DEF ChainLinksUp
<1>1. WalkOk(LatestCheckpoint, events)
  BY WalkShows DEF HarmShows
<1>2. chainHead \in Nat /\ LatestCheckpoint \in Nat /\ LatestCheckpoint <= chainHead
  <2>1. LatestCheckpoint \in Known \/ LatestCheckpoint = 0
    BY Latest DEF IInv, AuditTypeOK, Known
  <2>2. chainHead \in Nat /\ LatestCheckpoint \in Nat
    BY Latest DEF IInv, AuditTypeOK
  <2> QED
    BY <2>1, <2>2 DEF IInv, Linked
<1>3. chainHead <= LatestCheckpoint \/ chainHead \in Seqs
  BY DEF IInv, Linked
<1> QED
  BY <1>1, <1>2, <1>3 DEF Seqs

\* The row a purge has read as its last is still there, or purged already, or changed from outside.
LastsKnown == \A n \in Lasts : n <= LatestCheckpoint \/ n \in Seqs \cup harm

LEMMA LastsStep == IInv /\ LastsKnown /\ [AuditNext]_auditVars => LastsKnown'
<1> SUFFICES ASSUME IInv, LastsKnown, [AuditNext]_auditVars PROVE LastsKnown'
  OBVIOUS
<1>0. purge \in [Purgers -> [pc : {"idle", "read", "deleted"}, last : Nat]]
  BY DEF IInv, AuditTypeOK
<1>1. ASSUME checkpoints' = checkpoints, Lasts' \subseteq Lasts \cup Seqs, Seqs \cup harm \subseteq Seqs' \cup harm'
      PROVE  LastsKnown'
  <2>1. LatestCheckpoint' = LatestCheckpoint
    BY <1>1 DEF LatestCheckpoint
  <2> QED
    BY <1>1, <2>1 DEF LastsKnown
<1>2. ASSUME events \subseteq events' PROVE Seqs \subseteq Seqs'
  BY <1>2 DEF Seqs
<1>3. ASSUME AddEvent PROVE events \subseteq events'
  BY <1>3 DEF AddEvent
<1>4. CASE LogAlone \/ LogFails
  BY <1>1, <1>2, <1>3, <1>4 DEF LogAlone, LogFails, Lasts
<1>5. CASE Harm
  <2>1. checkpoints' = checkpoints /\ harm' = harm \cup {r.seq : r \in events \ events'} /\ Lasts' = Lasts
    BY <1>5 DEF Harm, Lasts
  <2>2. Seqs \cup harm \subseteq Seqs' \cup harm'
    BY <2>1 DEF Seqs
  <2> QED
    BY <1>1, <2>1, <2>2
<1>6. ASSUME NEW w \in Writers, LogInside(w) \/ Commit(w) \/ Rollback(w) PROVE LastsKnown'
  BY <1>1, <1>2, <1>6 DEF LogInside, Commit, Rollback, Lasts
<1>7. ASSUME NEW p \in Purgers, ReadOld(p) PROVE LastsKnown'
  <2>1. PICK last \in events : purge' = [purge EXCEPT ![p] = [pc |-> "read", last |-> last.seq]]
    BY <1>7 DEF ReadOld
  <2>2. Lasts' \subseteq Lasts \cup Seqs
    BY <1>0, <2>1 DEF Lasts, Seqs
  <2> QED
    BY <1>1, <1>2, <1>7, <2>2 DEF ReadOld
<1>8. ASSUME NEW p \in Purgers, DeleteOld(p) PROVE LastsKnown'
  <2> DEFINE n == purge[p].last
  <2>1. /\ checkpoints' = checkpoints \cup {n} /\ Seqs' = {s \in Seqs : s > n} /\ harm' = harm /\ n \in Nat
        /\ Lasts' \subseteq Lasts
    BY <1>0, <1>8 DEF DeleteOld, Remaining, Seqs, Lasts
  <2>2. Lasts \subseteq Nat /\ Seqs \subseteq Nat
    BY KnownIsNat DEF IInv, Known
  <2> HIDE DEF n
  <2>3. /\ LatestCheckpoint' = IF n <= LatestCheckpoint THEN LatestCheckpoint ELSE n
        /\ LatestCheckpoint \in Nat
    BY <2>1, LatestAdded, Latest DEF IInv, AuditTypeOK
  <2> SUFFICES ASSUME NEW m \in Lasts' PROVE m <= LatestCheckpoint' \/ m \in Seqs' \cup harm'
    BY DEF LastsKnown
  <2>4. m <= LatestCheckpoint \/ m \in Seqs \cup harm
    BY <2>1 DEF LastsKnown
  <2> QED
    BY <2>1, <2>2, <2>3, <2>4
<1>9. ASSUME NEW p \in Purgers, PurgeLogged(p) PROVE LastsKnown'
  <2>1. Lasts' \subseteq Lasts
    BY <1>0, <1>9 DEF PurgeLogged, Lasts
  <2> QED
    BY <1>1, <1>2, <1>3, <1>9, <2>1 DEF PurgeLogged
<1>10. ASSUME NEW v \in Verifiers, StartWalk(v) \/ Walk(v) \/ WalkLogged(v) PROVE LastsKnown'
  BY <1>1, <1>2, <1>3, <1>10 DEF StartWalk, Walk, WalkLogged, Lasts
<1>11. CASE UNCHANGED auditVars
  BY <1>1, <1>2, <1>11 DEF auditVars, Lasts
<1> QED
  BY <1>4, <1>5, <1>6, <1>7, <1>8, <1>9, <1>10, <1>11 DEF AuditNext

-----------------------------------------------------------------------------
\* Every step of the chain is a step of the trail: a step that adds rows grows it at its end, a
\* purge expires its oldest entries, and once a hand from outside has touched it all is a Touch.
LEMMA TrailStep ==
    IInv /\ IInv' /\ LastsKnown /\ [AuditNext]_auditVars => [Trail!TrailNext]_(Trail!trailVars)
<1> SUFFICES ASSUME IInv, IInv', LastsKnown, [AuditNext]_auditVars
             PROVE  [Trail!TrailNext]_(Trail!trailVars)
  OBVIOUS
<1> USE DEF Trail!trailVars, Trail!TrailNext
<1>0. /\ Seqs = {r.seq : r \in events} /\ Seqs' = {r.seq : r \in events'}
      /\ Seqs' \subseteq Nat /\ Seqs \subseteq Nat /\ chainHead' \in Nat /\ chainHead \in Nat
      /\ purge \in [Purgers -> [pc : {"idle", "read", "deleted"}, last : Nat]]
  <2>1. Seqs' \subseteq Nat
    BY DEF IInv, AuditTypeOK, Seqs, Row
  <2> QED
    BY <2>1, KnownIsNat DEF IInv, AuditTypeOK, Seqs
<1>1. CASE harm' # {}
  BY <1>0, <1>1 DEF Trail!Touch
<1>2. CASE harm' = {}
  <2>0. harm = {}
    <3>1. harm \subseteq harm'
      BY DEF AuditNext, auditVars, LogAlone, LogFails, Harm, LogInside, Commit, Rollback, ReadOld, DeleteOld,
             PurgeLogged, StartWalk, Walk, WalkLogged
    <3> QED
      BY <1>2, <3>1
  <2>1. ASSUME UNCHANGED <<events, chainHead>> PROVE [Trail!TrailNext]_(Trail!trailVars)
    BY <1>2, <2>0, <2>1
  <2>2. ASSUME NEW new \in SUBSET Nat, \A n \in new : chainHead < n /\ n <= chainHead',
               chainHead' \in new, Seqs' = Seqs \cup new
        PROVE  [Trail!TrailNext]_(Trail!trailVars)
    <3>1. chainHead' > chainHead
      BY <1>0, <2>2
    <3>2. new \in SUBSET (chainHead + 1 .. chainHead')
      BY <1>0, <2>2
    <3>3. Trail!Grow
      BY <1>0, <1>2, <2>0, <2>2, <3>1, <3>2 DEF Trail!Grow
    <3> QED
      BY <2>0, <3>3
  <2>3. CASE AddEvent
    <3>1. nextSeq \in Nat /\ chainHead < nextSeq
      BY DEF IInv, AuditTypeOK, Linked
    <3>2. chainHead' = nextSeq /\ events' = events \cup {NewEvent(chainHead)} /\ NewEvent(chainHead).seq = nextSeq
      BY <2>3 DEF AddEvent, NewEvent
    <3>3. Seqs' = Seqs \cup {nextSeq}
      BY <3>2 DEF Seqs
    <3>4. {nextSeq} \in SUBSET Nat /\ chainHead' \in {nextSeq} /\ \A n \in {nextSeq} : chainHead < n /\ n <= chainHead'
      BY <3>1, <3>2
    <3> QED
      BY <2>2, <3>3, <3>4
  <2>4. CASE Harm
    <3>1. \A r \in events : r \in events'
      BY <1>2, <2>4 DEF Harm
    <3>2. events' = events /\ chainHead' = chainHead
      BY <2>4, <3>1 DEF Harm
    <3> QED
      BY <2>1, <3>2
  <2>5. ASSUME NEW w \in Writers, Commit(w) PROVE [Trail!TrailNext]_(Trail!trailVars)
    <3> DEFINE rows == inserted[w]  new == {r.seq : r \in rows}
    <3>1. rows \in SUBSET Row /\ rows # {} /\ events' = events \cup rows /\ chainHead' = LastHash(rows) /\ PendingLinked(w)
      BY <2>5 DEF IInv, AuditTypeOK, Commit
    <3>2. chainHead' \in new /\ \A r \in rows : r.seq <= chainHead'
      BY <1>0, <3>1, LastHashIs DEF PendingLinked
    <3>3. \A r \in rows : chainHead < r.seq
      BY <3>1 DEF PendingLinked, Follows
    <3>4. new \in SUBSET Nat /\ Seqs' = Seqs \cup new
      BY <3>1 DEF Seqs, Row
    <3> QED
      BY <2>2, <3>2, <3>3, <3>4
  <2>6. ASSUME NEW p \in Purgers, DeleteOld(p) PROVE [Trail!TrailNext]_(Trail!trailVars)
    <3> DEFINE n == purge[p].last
    <3>1. n \in Lasts /\ n \in Nat /\ Seqs' = {s \in Seqs : s > n} /\ chainHead' = chainHead
      BY <1>0, <2>6 DEF DeleteOld, Remaining, Seqs, Lasts
    <3> HIDE DEF n
    <3>2. CASE n \in Seqs
      <4>1. Trail!Expire
        BY <1>0, <1>2, <2>0, <3>1, <3>2 DEF Trail!Expire
      <4> QED
        BY <2>0, <4>1
    <3>3. CASE n \notin Seqs
      <4>1. n <= LatestCheckpoint /\ LatestCheckpoint \in Nat
        BY <2>0, <3>1, <3>3, Latest DEF LastsKnown, IInv, AuditTypeOK
      <4>2. \A s \in Seqs : s > LatestCheckpoint
        BY DEF Seqs, IInv, Linked, RowLinked, AuditTypeOK, Row
      <4>3. Seqs' = Seqs
        BY SMTT(30), <1>0, <3>1, <4>1, <4>2
      <4> QED
        BY <1>0, <1>2, <2>0, <3>1, <4>3
    <3> QED
      BY <3>2, <3>3
  <2>7. CASE UNCHANGED auditVars
    BY <2>1, <2>7 DEF auditVars
  <2>8. CASE LogFails \/ \E w \in Writers : LogInside(w) \/ Rollback(w)
    BY <2>1, <2>8 DEF LogFails, LogInside, Rollback
  <2>9. CASE \/ \E p \in Purgers : ReadOld(p)
             \/ \E v \in Verifiers : StartWalk(v) \/ Walk(v)
    BY <2>1, <2>9 DEF ReadOld, StartWalk, Walk
  <2>10. CASE LogAlone \/ (\E p \in Purgers : PurgeLogged(p)) \/ (\E v \in Verifiers : WalkLogged(v))
    BY <2>1, <2>3, <2>10 DEF LogAlone, PurgeLogged, WalkLogged
  <2> QED
    BY <2>4, <2>5, <2>6, <2>7, <2>8, <2>9, <2>10 DEF AuditNext
<1> QED
  BY <1>1, <1>2

\* The chain with its locks, transactions and checkpoints implements the trail of AuditTrail, and as
\* long as nobody has changed it from outside it links up from the latest checkpoint to the head.
THEOREM TrailCorrect == AuditSpec => TrailKept
<1>1. AuditInit => Trail!TrailInit
  BY DEF AuditInit, Trail!TrailInit
<1>2. AuditInit => LastsKnown
  BY DEF AuditInit, LastsKnown, Lasts
<1>3. IInv /\ LastsKnown /\ [AuditNext]_auditVars => LastsKnown'
  BY LastsStep
<1>4. IInv /\ IInv' /\ LastsKnown /\ [AuditNext]_auditVars => [Trail!TrailNext]_(Trail!trailVars)
  BY TrailStep
<1>5. IInv => ChainLinksUp
  BY LinksUp
<1>6. AuditSpec => Trail!TrailSpec
  BY <1>1, <1>2, <1>3, <1>4, InvHolds, PTL DEF AuditSpec, Trail!TrailSpec
<1>7. AuditSpec => [][ChainLinksUp']_auditVars
  BY <1>5, InvHolds, PTL
<1> QED
  BY <1>6, <1>7 DEF TrailKept
=============================================================================
