--------------------------- MODULE FailoverTable ---------------------------
(***************************************************************************)
(* The failover table of a vbucket (ep-engine/src/failover-table.{h,cc}):  *)
(* a list of <<vb_uuid, by_seqno>> entries, newest first, each one naming  *)
(* a branch of the vbucket's history and the seqno at which it began.      *)
(* The operators below are the methods of class FailoverTable as functions *)
(* of the list; every method runs under the table's own lock, so each one  *)
(* is a single step of the modules that use them.                          *)
(***************************************************************************)
EXTENDS Naturals, Sequences

CONSTANT MaxFailoverEntries          \* max_entries of the table

ASSUME CapacityAssumption == MaxFailoverEntries \in Nat \ {0}

Entry == [vb_uuid : Nat, by_seqno : Nat]

(***************************************************************************)
(* The loop shared by createEntry and pruneEntries:                        *)
(*     for (itr = begin; itr != end; ++itr)                                *)
(*         if (itr->by_seqno > seqno) itr = table.erase(itr);              *)
(* erase() returns the element after the erased one and the loop's ++itr   *)
(* then steps over it unexamined.  When the erased element is the last     *)
(* one, ++itr is applied to end(); the list implementations ep-engine is   *)
(* built with are circular, so the scan starts again at begin().           *)
(***************************************************************************)
EraseAt(t, i) == SubSeq(t, 1, i - 1) \o SubSeq(t, i + 1, Len(t))

EraseAbove(t, seqno) ==
  LET Scan[u \in Seq(Entry), itr \in Nat] ==
        IF itr > Len(u) THEN u
        ELSE IF u[itr].by_seqno > seqno
             THEN LET v == EraseAt(u, itr)
                  IN  Scan[v, IF itr > Len(v) THEN 1 ELSE itr + 1]
             ELSE Scan[u, itr + 1]
  IN  Scan[t, 1]

\* Mutant: the table is never capped.
CappedMutant(t) == t

\* while (table.size() > max_entries) table.pop_back();
Capped(t) ==
  SubSeq(t, 1, IF Len(t) > MaxFailoverEntries THEN MaxFailoverEntries ELSE Len(t))

\* Mutant: the branches diverged from are kept.
createEntryMutant(t, high_seqno, uuid) ==
  Capped(<<[vb_uuid |-> uuid, by_seqno |-> high_seqno]>> \o t)

\* createEntry: drop the branches diverged from, then open a branch named by a
\* fresh random uuid.
createEntry(t, high_seqno, uuid) ==
  Capped(<<[vb_uuid |-> uuid, by_seqno |-> high_seqno]>> \o EraseAbove(t, high_seqno))

\* FailoverTable(size_t capacity): the table of a new vbucket.
NewTable(uuid) == createEntry(<< >>, 0, uuid)

pruneEntries(t, seqno) == EraseAbove(t, seqno)

getLatestEntry(t) == t[1]

(***************************************************************************)
(* needsRollback.  The reverse scan meets the oldest entry with the        *)
(* client's uuid first; the branch ends where the next newer one begins,   *)
(* or at the vbucket's current seqno for the newest.                       *)
(***************************************************************************)
KnowsBranch(t, uuid) == \E i \in DOMAIN t : t[i].vb_uuid = uuid

OldestOf(t, uuid) ==
  CHOOSE i \in DOMAIN t :
    /\ t[i].vb_uuid = uuid
    /\ \A j \in DOMAIN t : t[j].vb_uuid = uuid => j <= i

\* Mutant: every branch reaches to the vbucket's current seqno.
BranchUpperMutant(t, cur_seqno, uuid) == cur_seqno

BranchUpper(t, cur_seqno, uuid) ==
  LET i == OldestOf(t, uuid) IN IF i = 1 THEN cur_seqno ELSE t[i - 1].by_seqno

\* A client that has the whole snapshot counts as standing at its end.
EffectiveSnapStart(start, snap_start, snap_end) ==
  IF start = snap_end THEN start ELSE snap_start

\* Mutant: purged tombstones are not considered.
needsRollbackMutant(t, start, cur_seqno, uuid, snap_start, snap_end, purge_seqno) ==
  LET from  == EffectiveSnapStart(start, snap_start, snap_end)
      upper == BranchUpper(t, cur_seqno, uuid)
  IN  /\ start # 0
      /\ \/ ~KnowsBranch(t, uuid)
         \/ /\ KnowsBranch(t, uuid)
            /\ snap_end > upper
            /\ ~(from = start /\ upper = start)
            /\ from >= upper \/ from # start

needsRollback(t, start, cur_seqno, uuid, snap_start, snap_end, purge_seqno) ==
  LET from  == EffectiveSnapStart(start, snap_start, snap_end)
      upper == BranchUpper(t, cur_seqno, uuid)
  IN  /\ start # 0
      /\ \/ from < purge_seqno
         \/ ~KnowsBranch(t, uuid)
         \/ /\ KnowsBranch(t, uuid)
            /\ snap_end > upper
            /\ ~(from = start /\ upper = start)
            /\ from >= upper \/ from # start

\* Mutant: always the effective start of the client's snapshot.
RollbackSeqnoMutant(t, start, cur_seqno, uuid, snap_start, snap_end, purge_seqno) ==
  EffectiveSnapStart(start, snap_start, snap_end)

\* *rollback_seqno when needsRollback holds.
RollbackSeqno(t, start, cur_seqno, uuid, snap_start, snap_end, purge_seqno) ==
  LET from  == EffectiveSnapStart(start, snap_start, snap_end)
      upper == BranchUpper(t, cur_seqno, uuid)
  IN  IF from < purge_seqno \/ ~KnowsBranch(t, uuid) THEN 0
      ELSE IF from >= upper THEN upper ELSE from
=============================================================================
