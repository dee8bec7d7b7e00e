------------------------------ MODULE AuditChain ------------------------------
(****************************************************************************)
(* The audit trail of one run: the numbers and hashes _assign_audit_sequences *)
(* gives new events at flush (db/base.py), the unique index on (run_id,     *)
(* sequence), and verify_integrity (compliance/evidence.py).                *)
(*                                                                          *)
(* A hash is the list of everything it commits to, so two hashes are equal  *)
(* exactly when what they commit to is.                                     *)
(****************************************************************************)
EXTENDS Integers, Sequences, FiniteSets

CONSTANTS
  Sessions,       \* database sessions that add events to the run
  LegacyRows,     \* rows written before the chain column existed
  MaxRows,        \* bound on the rows of the trail
  RowLocks,       \* whether SELECT ... FOR UPDATE locks (it does not on SQLite)
  NoHash          \* NULL

\* NULL is the hash of nothing.
ASSUME AuditAssumption ==
  /\ LegacyRows \in Nat /\ MaxRows \in Nat
  /\ RowLocks \in BOOLEAN
  /\ NoHash \notin Seq(Nat \X Nat \X {"written", "altered"})

VARIABLES
  trail,       \* the committed rows
  flushing,    \* what each session is at
  issued       \* event ids given out

auditVars == <<trail, flushing, issued>>

Genesis == <<>>

Closed == [pc |-> "closed", ready |-> {}, pending |-> {}]

InitAudit ==
  /\ trail \in {{[id |-> n, sequence |-> n, fields |-> "written", hash |-> NoHash] :
                  n \in 0..legacy - 1} : legacy \in {0, LegacyRows}}
  /\ flushing = [s \in Sessions |-> Closed]
  /\ issued = LegacyRows

SequencesOf(rows) == {e.sequence : e \in rows}
TipOf(rows) == CHOOSE e \in rows : \A d \in rows : d.sequence <= e.sequence

\* audit_event_chain_hash: the fields of the event and the hash before it.
ChainHash(prev, e) == Append(prev, <<e.id, e.sequence, e.fields>>)

\* _assign_audit_sequences: n new events after the tip of the visible rows.  A
\* tip without a hash starts a fresh chain.
Assigned(visible, n) ==
  LET first == IF visible = {} THEN 0 ELSE TipOf(visible).sequence + 1
      start == IF visible = {} \/ TipOf(visible).hash = NoHash
               THEN Genesis ELSE TipOf(visible).hash
      event(i) == [id |-> issued + i - 1, sequence |-> first + i - 1,
                   fields |-> "written"]
      hash[i \in 0..n] == IF i = 0 THEN start ELSE ChainHash(hash[i - 1], event(i))
  IN  {[id |-> event(i).id, sequence |-> event(i).sequence,
        fields |-> event(i).fields, hash |-> hash[i]] : i \in 1..n}

\* A session loads the run, for update.
Load(s) ==
  /\ flushing[s].pc = "closed"
  /\ RowLocks => \A t \in Sessions : flushing[t].pc = "closed"
  /\ flushing' = [flushing EXCEPT ![s].pc = "open"]
  /\ UNCHANGED <<trail, issued>>

\* before_flush: the tip is read, among the rows that are committed or its own.
Flush(s, n) ==
  /\ flushing[s].pc = "open"
  /\ issued + n <= MaxRows + LegacyRows
  /\ flushing' = [flushing EXCEPT ![s].pc = "insert",
                                  ![s].ready = Assigned(trail \cup flushing[s].pending, n)]
  /\ issued' = issued + n
  /\ UNCHANGED trail

\* Slip: the index is not unique.
InsertAnyway(s) ==
  /\ flushing[s].pc = "insert"
  /\ flushing' = [flushing EXCEPT ![s] =
       [pc |-> "open", ready |-> {},
        pending |-> flushing[s].pending \cup flushing[s].ready]]
  /\ UNCHANGED <<trail, issued>>

\* The INSERT waits for a session that inserted the same number, and fails if
\* that number is committed; the failure rolls the session back.
Insert(s) ==
  /\ flushing[s].pc = "insert"
  /\ \A t \in Sessions \ {s} :
       SequencesOf(flushing[t].pending) \cap SequencesOf(flushing[s].ready) = {}
  /\ flushing' = [flushing EXCEPT ![s] =
       IF SequencesOf(trail) \cap SequencesOf(flushing[s].ready) # {}
       THEN Closed
       ELSE [pc |-> "open", ready |-> {},
             pending |-> flushing[s].pending \cup flushing[s].ready]]
  /\ UNCHANGED <<trail, issued>>

CommitEvents(s) ==
  /\ flushing[s].pc = "open"
  /\ trail' = trail \cup flushing[s].pending
  /\ flushing' = [flushing EXCEPT ![s] = Closed]
  /\ UNCHANGED issued

Rollback(s) ==
  /\ flushing[s].pc # "closed"
  /\ flushing' = [flushing EXCEPT ![s] = Closed]
  /\ UNCHANGED <<trail, issued>>

NextAudit ==
  \E s \in Sessions :
    \/ Load(s) \/ Insert(s) \/ CommitEvents(s) \/ Rollback(s)
    \/ \E n \in 1..2 : Flush(s, n)

----------------------------------------------------------------------------
(* verify_integrity, of a run's rows.                                       *)

SequenceOk(rows) ==
  /\ \A d, e \in rows : d # e => d.sequence # e.sequence
  /\ SequencesOf(rows) = 0..Cardinality(rows) - 1

\* _verify_audit_chain: from the stored hash before, and only if every row has
\* one.
ChainOk(rows) ==
  (\A e \in rows : e.hash # NoHash) =>
    \A e \in rows :
      LET before == {d \in rows : d.sequence < e.sequence}
          prev == IF before = {} THEN Genesis ELSE TipOf(before).hash
      IN  e.hash = ChainHash(prev, e)

Verified(rows) == SequenceOk(rows) /\ ChainOk(rows)

AuditTypeOK ==
  /\ \A e \in trail \cup UNION {flushing[s].pending \cup flushing[s].ready : s \in Sessions} :
       /\ e.id \in 0..MaxRows + LegacyRows
       /\ e.sequence \in 0..MaxRows + LegacyRows
  /\ \A s \in Sessions : flushing[s].pc \in {"closed", "open", "insert"}
  /\ issued \in 0..MaxRows + LegacyRows

----------------------------------------------------------------------------
(* One row altered, after the fact.                                         *)

Edited(rows) ==
  {(rows \ {e}) \cup {[e EXCEPT !.fields = "altered"]} : e \in rows}

Rehashed(rows) ==
  {(rows \ {p[1]}) \cup {[p[1] EXCEPT !.hash = p[2]]} :
     p \in {q \in rows \X ({Genesis} \cup {d.hash : d \in rows}) : q[1].hash # q[2]}}

\* The last row is an exception: what is left is a shorter trail.
Dropped(rows) == {rows \ {e} : e \in rows \ {TipOf(rows)}}

Swapped(rows) ==
  {(rows \ {p[1], p[2]}) \cup {[p[1] EXCEPT !.sequence = p[2].sequence],
                               [p[2] EXCEPT !.sequence = p[1].sequence]} :
     p \in {q \in rows \X rows : q[1] # q[2]}}

Repeated(rows) ==
  {rows \cup {[e EXCEPT !.sequence = TipOf(rows).sequence + 1]} : e \in rows}

Altered(rows) ==
  Edited(rows) \cup Rehashed(rows) \cup Dropped(rows) \cup Swapped(rows) \cup Repeated(rows)

\* Whatever sessions interleave, wait, fail and roll back, the trail verifies;
\* and a trail that is chained throughout no longer does once a row is edited,
\* rehashed, dropped (the last one excepted), swapped or repeated ("dropping,
\* reordering, or editing any row is detectable", db/base.py:30-33).
AuditTrailHolds ==
  /\ Verified(trail)
  /\ trail # {} /\ (\A e \in trail : e.hash # NoHash) =>
       \A rows \in Altered(trail) : ~Verified(rows)
=============================================================================
