----------------------------- MODULE TrxProofs ------------------------------
(***************************************************************************)
(* The index agrees with the rows, for any number of sessions, slots, keys *)
(* and transactions.  A statement computes rows, entries and operations    *)
(* and hands them to Keep, Trx_commit or Trx_rollback: the lemmas on these *)
(* three carry the agreement over, and the theorems have one case for each *)
(* statement.                                                              *)
(***************************************************************************)
EXTENDS Trx, TLAPS

RowsType == [Rids -> Row \cup {NoRow}]
IndexType == SUBSET (Keys \X Rids)
OpsType == [Rids -> OpTypes]

\* What a statement hands on: well typed, and sound.
Computed(rw, ix, id, ops) ==
  /\ rw \in RowsType
  /\ ix \in IndexType
  /\ id \in 0 .. MaxTrxId
  /\ ops \in OpsType
  /\ SoundIn(rw, ix)

IInv == TypeOK /\ IndexSound

\* The step ends in a sound state, and in a complete one if rw and ix are.
Carried(rw, ix) ==
  /\ rows' \in RowsType
  /\ index' \in IndexType
  /\ trx_id' \in [Sessions -> 0 .. MaxTrxId]
  /\ operations' \in [Sessions -> OpsType]
  /\ SoundIn(rows', index')
  /\ CompleteIn(rw, ix) => CompleteIn(rows', index')

\* Marks keep a row in its type and leave its key alone.
LEMMA MarkedRow ==
  ASSUME NEW row \in Row, NEW id \in 0 .. MaxTrxId, NEW d \in BOOLEAN
  PROVE  /\ set_record_trx_id(row, id, d) \in Row
         /\ set_record_trx_id(row, id, d).key = row.key
  BY DEF set_record_trx_id, Row

\* Committing an operation keeps the type of the slot; it empties the slot
\* exactly when the operation is DELETE, and never changes the key.
LEMMA CommittedRow ==
  ASSUME NEW row \in Row \cup {NoRow}, NEW op \in OpTypes
  PROVE  /\ CommitRow(row, op) \in Row \cup {NoRow}
         /\ row = NoRow \/ op = "DELETE" => CommitRow(row, op) = NoRow
         /\ row # NoRow /\ op # "DELETE" =>
              CommitRow(row, op) # NoRow /\ CommitRow(row, op).key = row.key
<1>1. 0 \in 0 .. MaxTrxId
  BY TrxAssumption
<1>2. CASE row = NoRow \/ op = "NONE"
  <2>1. CommitRow(row, op) = row
    BY <1>2 DEF CommitRow, OpTypes
  <2> QED BY <2>1, <1>2
<1>3. CASE row # NoRow /\ op \in {"INSERT", "UPDATE"}
  <2>1. CommitRow(row, op) = set_record_trx_id(row, 0, FALSE)
    BY <1>3 DEF CommitRow, OpTypes
  <2> QED BY <2>1, <1>1, <1>3, MarkedRow, TrxAssumption
<1>4. CASE row # NoRow /\ op = "DELETE"
  <2>1. CommitRow(row, op) = NoRow
    BY <1>4 DEF CommitRow, OpTypes
  <2> QED BY <2>1, <1>4
<1> QED BY <1>2, <1>3, <1>4 DEF OpTypes

\* Trx::commit removes the entries of the rows it deletes and no others.
LEMMA CommitCarries ==
  ASSUME TypeOK, NEW s \in Sessions, NEW rw, NEW ix, NEW id, NEW ops,
         Computed(rw, ix, id, ops), Trx_commit(s, rw, ix, ops)
  PROVE  Carried(rw, ix)
<1> DEFINE gone == {r \in Occupied(rw) : ops[r] = "DELETE"}
<1>1. \A r \in Rids : rw[r] \in Row \cup {NoRow} /\ ops[r] \in OpTypes
  BY DEF Computed, RowsType, OpsType
<1>2. rows' = [r \in Rids |-> CommitRow(rw[r], ops[r])] /\ index' = ix \ Entries(rw, gone)
  BY DEF Trx_commit
<1>3. \A r \in Rids : /\ rows'[r] \in Row \cup {NoRow}
                      /\ rw[r] = NoRow \/ ops[r] = "DELETE" => rows'[r] = NoRow
                      /\ rw[r] # NoRow /\ ops[r] # "DELETE" =>
                           rows'[r] # NoRow /\ rows'[r].key = rw[r].key
  BY <1>1, <1>2, CommittedRow
<1>4. rows' \in RowsType /\ index' \in IndexType
  BY <1>2, <1>3 DEF RowsType, IndexType, Computed
<1>5. trx_id' \in [Sessions -> 0 .. MaxTrxId] /\ operations' \in [Sessions -> OpsType]
  BY TrxAssumption DEF Trx_commit, EndTrx, TypeOK, OpsType, NoOps, OpTypes
<1>6. SoundIn(rows', index')
  <2> SUFFICES ASSUME NEW e \in index' PROVE e[2] \in Occupied(rows') /\ rows'[e[2]].key = e[1]
    BY DEF SoundIn
  <2>1. e \in ix /\ e \notin Entries(rw, gone) /\ e = <<e[1], e[2]>> /\ e[2] \in Rids
    BY <1>2 DEF Computed, IndexType
  <2>2. e[2] \in Occupied(rw) /\ rw[e[2]].key = e[1]
    BY <2>1 DEF Computed, SoundIn
  <2>3. e[2] \notin gone
    BY <2>1, <2>2 DEF Entries, Entry
  <2> QED BY <2>1, <2>2, <2>3, <1>3 DEF Occupied
<1>7. CompleteIn(rw, ix) => CompleteIn(rows', index')
  <2> SUFFICES ASSUME CompleteIn(rw, ix), NEW r \in Occupied(rows')
               PROVE  Entry(rows', r) \in index'
    BY DEF CompleteIn
  <2>1. r \in Rids /\ rw[r] # NoRow /\ ops[r] # "DELETE" /\ rows'[r].key = rw[r].key
    BY <1>3 DEF Occupied
  <2>2. Entry(rw, r) \in ix /\ Entry(rows', r) = Entry(rw, r)
    BY <2>1 DEF CompleteIn, Occupied, Entry
  <2>3. Entry(rw, r) \notin Entries(rw, gone)
    BY <2>1 DEF Entries, Entry
  <2> QED BY <2>2, <2>3, <1>2
<1> QED BY <1>4, <1>5, <1>6, <1>7 DEF Carried

\* A statement that leaves its operations queued leaves what it computed.
LEMMA KeepCarries ==
  ASSUME TypeOK, NEW s \in Sessions, NEW rw, NEW ix, NEW id, NEW ops,
         Computed(rw, ix, id, ops), Keep(s, rw, ix, id, ops)
  PROVE  Carried(rw, ix)
<1>1. trx_id' \in [Sessions -> 0 .. MaxTrxId] /\ operations' \in [Sessions -> OpsType]
  BY DEF Keep, TypeOK, OpsType, Computed
<1> QED BY <1>1 DEF Keep, Carried, Computed

\* Trx::rollback removes a row and its entry together.
LEMMA RollbackCarries ==
  ASSUME IInv, NEW s \in Sessions, Trx_rollback(s)
  PROVE  Carried(rows, index)
<1> DEFINE gone == RolledBackInserts(s)
<1>1. \A r \in Rids : rows[r] \in Row \cup {NoRow}
  BY DEF IInv, TypeOK
<1>2. index' = index \ Entries(rows, gone)
  BY DEF Trx_rollback
<1>3. \A r \in Rids : /\ rows'[r] \in Row \cup {NoRow}
                      /\ r \in gone \/ rows[r] = NoRow => rows'[r] = NoRow
                      /\ r \notin gone /\ rows[r] # NoRow =>
                           rows'[r] # NoRow /\ rows'[r].key = rows[r].key
  <2> SUFFICES ASSUME NEW r \in Rids
               PROVE  /\ rows'[r] \in Row \cup {NoRow}
                      /\ r \in gone \/ rows[r] = NoRow => rows'[r] = NoRow
                      /\ r \notin gone /\ rows[r] # NoRow =>
                           rows'[r] # NoRow /\ rows'[r].key = rows[r].key
    OBVIOUS
  <2>1. rows'[r] = IF r \in gone THEN NoRow
                   ELSE IF rows[r] # NoRow /\ operations[s][r] = "DELETE"
                        THEN set_record_trx_id(rows[r], 0, FALSE)
                   ELSE rows[r]
    BY DEF Trx_rollback
  <2>2. rows[r] # NoRow => /\ set_record_trx_id(rows[r], 0, FALSE) \in Row
                           /\ set_record_trx_id(rows[r], 0, FALSE).key = rows[r].key
    <3>1. 0 \in 0 .. MaxTrxId /\ FALSE \in BOOLEAN
      BY TrxAssumption
    <3> HIDE DEF gone
    <3> SUFFICES ASSUME rows[r] # NoRow
                 PROVE  /\ set_record_trx_id(rows[r], 0, FALSE) \in Row
                        /\ set_record_trx_id(rows[r], 0, FALSE).key = rows[r].key
      OBVIOUS
    <3>2. rows[r] \in Row
      BY <1>1
    <3> QED BY <3>1, <3>2, MarkedRow
  <2> QED BY <2>1, <2>2, <1>1, TrxAssumption
<1>4. rows' \in RowsType /\ index' \in IndexType
  <2>1. rows' = [r \in Rids |-> rows'[r]]
    BY DEF Trx_rollback
  <2> QED BY <2>1, <1>2, <1>3 DEF RowsType, IndexType, IInv, TypeOK
<1>5. trx_id' \in [Sessions -> 0 .. MaxTrxId] /\ operations' \in [Sessions -> OpsType]
  BY TrxAssumption DEF Trx_rollback, EndTrx, IInv, TypeOK, OpsType, NoOps, OpTypes
<1>6. SoundIn(rows', index')
  <2> SUFFICES ASSUME NEW e \in index' PROVE e[2] \in Occupied(rows') /\ rows'[e[2]].key = e[1]
    BY DEF SoundIn
  <2>1. e \in index /\ e \notin Entries(rows, gone) /\ e = <<e[1], e[2]>> /\ e[2] \in Rids
    BY <1>2 DEF IInv, TypeOK
  <2>2. e[2] \in Occupied(rows) /\ rows[e[2]].key = e[1]
    BY <2>1 DEF IInv, IndexSound, SoundIn
  <2>3. e[2] \notin gone
    BY <2>1, <2>2 DEF Entries, Entry
  <2> QED BY <2>1, <2>2, <2>3, <1>3 DEF Occupied
<1>7. CompleteIn(rows, index) => CompleteIn(rows', index')
  <2> SUFFICES ASSUME CompleteIn(rows, index), NEW r \in Occupied(rows')
               PROVE  Entry(rows', r) \in index'
    BY DEF CompleteIn
  <2>1. r \in Rids /\ rows[r] # NoRow /\ r \notin gone /\ rows'[r].key = rows[r].key
    BY <1>3 DEF Occupied
  <2>2. Entry(rows, r) \in index /\ Entry(rows', r) = Entry(rows, r)
    BY <2>1 DEF CompleteIn, Occupied, Entry
  <2>3. Entry(rows, r) \notin Entries(rows, gone)
    BY <2>1 DEF Entries, Entry
  <2> QED BY <2>2, <2>3, <1>2
<1> QED BY <1>4, <1>5, <1>6, <1>7 DEF Carried

\* A successful statement commits or keeps: either way the agreement carries.
LEMMA EndStatementCarries ==
  ASSUME TypeOK, NEW s \in Sessions, NEW rw, NEW ix, NEW id, NEW ops,
         Computed(rw, ix, id, ops), EndStatement(s, rw, ix, id, ops)
  PROVE  Carried(rw, ix)
BY CommitCarries, KeepCarries DEF EndStatement

\* The number of a started transaction is within its bound.
LEMMA StartedInRange ==
  ASSUME TypeOK, NEW s \in Sessions, start_if_not_started(s)
  PROVE  StartedId(s) \in 0 .. MaxTrxId /\ next_id' \in 0 .. MaxTrxId
<1>1. trx_id[s] \in 0 .. MaxTrxId /\ next_id \in 0 .. MaxTrxId /\ MaxTrxId \in Nat
  BY TrxAssumption DEF TypeOK
<1>2. CASE trx_id[s] = 0
  BY <1>1, <1>2 DEF start_if_not_started, StartedId
<1>3. CASE trx_id[s] # 0
  BY <1>1, <1>3 DEF start_if_not_started, StartedId
<1> QED BY <1>2, <1>3

\* Queueing operations gives a list of operations.
LEMMA QueueType ==
  ASSUME NEW ops \in OpsType, NEW R, NEW type \in OpTypes
  PROVE  Queue(ops, R, type) \in OpsType
BY DEF Queue, OpsType

\* What each statement has to show.
Preserved == IInv' /\ (IndexComplete => IndexComplete')

\* From what a step carries to the invariant of the next state.
LEMMA CarriedPreserves ==
  ASSUME IInv, NEW rw, NEW ix, Carried(rw, ix),
         has_index' = has_index, multi' \in [Sessions -> BOOLEAN], next_id' \in 0 .. MaxTrxId,
         has_index /\ CompleteIn(rows, index) => CompleteIn(rw, ix)
  PROVE  Preserved
<1>1. TypeOK'
  BY DEF IInv, TypeOK, Carried, RowsType, IndexType, OpsType
<1>2. IndexSound' <=> SoundIn(rows', index')
  BY DEF IndexSound, SoundIn, Occupied
<1>3. IndexComplete' <=> (has_index' => CompleteIn(rows', index'))
  BY DEF IndexComplete, CompleteIn, Occupied, Entry
<1> QED BY <1>1, <1>2, <1>3 DEF Preserved, IInv, Carried, IndexComplete

\* Without a change of rows or index, what is there is what was computed.
LEMMA ComputedNow ==
  ASSUME IInv, NEW id \in 0 .. MaxTrxId, NEW ops \in OpsType
  PROVE  Computed(rows, index, id, ops)
BY DEF IInv, TypeOK, Computed, RowsType, IndexType, IndexSound

\* New rows in free slots R, with their entries.
LEMMA AddedRows ==
  ASSUME IInv, NEW R \in SUBSET (Rids \ Occupied(rows)), NEW new \in [R -> Row],
         NEW rw, rw = [r \in Rids |-> IF r \in R THEN new[r] ELSE rows[r]],
         NEW ix, ix = insert_entry_of_indexes(index, Entries(rw, R)),
         NEW id \in 0 .. MaxTrxId, NEW ops \in OpsType
  PROVE  /\ Computed(rw, ix, id, ops)
         /\ has_index /\ CompleteIn(rows, index) => CompleteIn(rw, ix)
<1>1. /\ rows \in RowsType /\ index \in IndexType
      /\ \A r \in R : r \in Rids /\ rows[r] = NoRow /\ rw[r] = new[r] /\ rw[r] \in Row
      /\ \A r \in Rids \ R : rw[r] = rows[r]
  BY DEF IInv, TypeOK, RowsType, IndexType, Occupied
<1>2. rw \in RowsType
  BY <1>1 DEF RowsType
<1>3. \A r \in R : rw[r] # NoRow /\ rw[r].key \in Keys /\ Entry(rw, r) \in Keys \X Rids
  BY <1>1, TrxAssumption DEF Row, Entry
<1>4. ix \in IndexType
  BY <1>1, <1>3 DEF insert_entry_of_indexes, Entries, IndexType
<1>5. SoundIn(rw, ix)
  <2> SUFFICES ASSUME NEW e \in ix PROVE e[2] \in Occupied(rw) /\ rw[e[2]].key = e[1]
    BY DEF SoundIn
  <2>1. CASE e \in index
    <3>1. e[2] \in Occupied(rows) /\ rows[e[2]].key = e[1]
      BY <2>1 DEF IInv, IndexSound, SoundIn
    <3> QED BY <3>1, <1>1 DEF Occupied
  <2>2. CASE e \in Entries(rw, R)
    <3>1. PICK r \in R : e = <<rw[r].key, r>>
      BY <2>2 DEF Entries, Entry
    <3> QED BY <3>1, <1>1, <1>3 DEF Occupied
  <2> QED BY <2>1, <2>2 DEF insert_entry_of_indexes
<1>6. has_index /\ CompleteIn(rows, index) => CompleteIn(rw, ix)
  <2> SUFFICES ASSUME has_index, CompleteIn(rows, index), NEW r \in Occupied(rw)
               PROVE  Entry(rw, r) \in ix
    BY DEF CompleteIn
  <2>1. ix = index \cup Entries(rw, R)
    BY DEF insert_entry_of_indexes
  <2>2. CASE r \in R
    BY <2>1, <2>2 DEF Entries
  <2>3. CASE r \notin R
    BY <2>1, <2>3, <1>1 DEF CompleteIn, Occupied, Entry
  <2> QED BY <2>2, <2>3
<1> QED BY <1>2, <1>4, <1>5, <1>6 DEF Computed

\* INSERT puts rows into free slots together with their entries.
LEMMA InsertPreserves ==
  ASSUME IInv, NEW s \in Sessions, insert_record(s)
  PROVE  Preserved
<1>1. PICK R \in Groups(s) : \E first \in R, keys \in [R -> Keys] :
        LET stamp(r) == IF r = first THEN trx_id[s] ELSE StartedId(s)
            rw == [r \in Rids |-> IF r \in R THEN NewRow(keys[r], stamp(r)) ELSE rows[r]]
        IN /\ start_if_not_started(s)
           /\ EndStatement(s, rw, insert_entry_of_indexes(index, Entries(rw, R)),
                           StartedId(s), Queue(operations[s], R, "INSERT"))
           /\ UNCHANGED <<has_index, multi>>
  BY DEF insert_record
<1>2. PICK first \in R, keys \in [R -> Keys] :
        LET stamp(r) == IF r = first THEN trx_id[s] ELSE StartedId(s)
            rw == [r \in Rids |-> IF r \in R THEN NewRow(keys[r], stamp(r)) ELSE rows[r]]
        IN /\ start_if_not_started(s)
           /\ EndStatement(s, rw, insert_entry_of_indexes(index, Entries(rw, R)),
                           StartedId(s), Queue(operations[s], R, "INSERT"))
           /\ UNCHANGED <<has_index, multi>>
  BY <1>1
<1> DEFINE new == [r \in R |-> NewRow(keys[r], IF r = first THEN trx_id[s] ELSE StartedId(s))]
           rw == [r \in Rids |-> IF r \in R THEN new[r] ELSE rows[r]]
           ix == insert_entry_of_indexes(index, Entries(rw, R))
           ops == Queue(operations[s], R, "INSERT")
<1>3. /\ start_if_not_started(s)
      /\ EndStatement(s, rw, ix, StartedId(s), ops)
      /\ UNCHANGED <<has_index, multi>>
  <2>1. rw = [r \in Rids |-> IF r \in R THEN NewRow(keys[r], IF r = first THEN trx_id[s] ELSE StartedId(s))
                             ELSE rows[r]]
    OBVIOUS
  <2> HIDE DEF rw
  <2> QED BY <1>2, <2>1
<1>4. TypeOK /\ trx_id[s] \in 0 .. MaxTrxId /\ operations[s] \in OpsType
  BY DEF IInv, TypeOK, OpsType
<1>5. StartedId(s) \in 0 .. MaxTrxId /\ next_id' \in 0 .. MaxTrxId
  BY <1>3, <1>4, StartedInRange
<1>6. R \in SUBSET (Rids \ Occupied(rows))
  BY DEF Groups, Insertable
<1>7. new \in [R -> Row]
  BY <1>4, <1>5 DEF NewRow, Row
<1>8. ops \in OpsType
  BY <1>4, QueueType DEF OpTypes
<1> HIDE DEF new, ops
<1>9. Computed(rw, ix, StartedId(s), ops) /\ (has_index /\ CompleteIn(rows, index) => CompleteIn(rw, ix))
  BY <1>5, <1>6, <1>7, <1>8, AddedRows
<1> HIDE DEF rw, ix
<1>10. Carried(rw, ix)
  BY <1>3, <1>4, <1>9, EndStatementCarries
<1>11. has_index' = has_index /\ multi' \in [Sessions -> BOOLEAN]
  BY <1>3, <1>4 DEF TypeOK
<1> QED BY <1>5, <1>9, <1>10, <1>11, CarriedPreserves

\* LOAD DATA puts a row into a free slot together with its entry.
LEMMA LoadPreserves ==
  ASSUME IInv, NEW s \in Sessions, load_data(s)
  PROVE  Preserved
<1>1. PICK r \in Rids \ Occupied(rows), k \in Keys :
        /\ EndStatement(s, [rows EXCEPT ![r] = NewRow(k, 0)],
                        insert_entry_of_indexes(index, {<<k, r>>}), trx_id[s], operations[s])
        /\ UNCHANGED <<has_index, multi, next_id>>
  BY DEF load_data
<1> DEFINE new == [q \in {r} |-> NewRow(k, 0)]
           rw == [q \in Rids |-> IF q \in {r} THEN new[q] ELSE rows[q]]
           ix == insert_entry_of_indexes(index, Entries(rw, {r}))
<1>2. TypeOK /\ trx_id[s] \in 0 .. MaxTrxId /\ operations[s] \in OpsType
      /\ rows \in RowsType /\ next_id \in 0 .. MaxTrxId /\ multi \in [Sessions -> BOOLEAN]
  BY DEF IInv, TypeOK, OpsType, RowsType
<1>3. rw = [rows EXCEPT ![r] = NewRow(k, 0)]
  BY <1>2 DEF RowsType
<1>4. Entries(rw, {r}) = {<<k, r>>}
  BY DEF Entries, Entry, NewRow
<1>5. new \in [{r} -> Row]
  BY TrxAssumption DEF NewRow, Row
<1>6. {r} \in SUBSET (Rids \ Occupied(rows))
  OBVIOUS
<1> HIDE DEF new
<1>7. Computed(rw, ix, trx_id[s], operations[s]) /\ (has_index /\ CompleteIn(rows, index) => CompleteIn(rw, ix))
  BY <1>2, <1>5, <1>6, AddedRows
<1>8. EndStatement(s, rw, ix, trx_id[s], operations[s])
  BY <1>1, <1>3, <1>4
<1> HIDE DEF rw, ix
<1>9. Carried(rw, ix)
  BY <1>2, <1>7, <1>8, EndStatementCarries
<1> QED BY <1>1, <1>2, <1>7, <1>9, CarriedPreserves

\* An INSERT that fails half-way leaves rows and entries as they were.
LEMMA FailedInsertPreserves ==
  ASSUME IInv, NEW s \in Sessions, insert_record_fails(s)
  PROVE  Preserved
<1>1. PICK R \in Groups(s) :
        /\ start_if_not_started(s)
        /\ Keep(s, rows, index, StartedId(s), Queue(operations[s], R, "INSERT"))
        /\ UNCHANGED <<has_index, multi>>
  BY DEF insert_record_fails
<1>2. TypeOK /\ operations[s] \in OpsType /\ multi \in [Sessions -> BOOLEAN]
  BY DEF IInv, TypeOK, OpsType
<1>3. StartedId(s) \in 0 .. MaxTrxId /\ next_id' \in 0 .. MaxTrxId
  BY <1>1, <1>2, StartedInRange
<1>4. Queue(operations[s], R, "INSERT") \in OpsType
  BY <1>2, QueueType DEF OpTypes
<1>5. Carried(rows, index)
  BY <1>1, <1>2, <1>3, <1>4, ComputedNow, KeepCarries
<1> QED BY <1>1, <1>2, <1>3, <1>5, CarriedPreserves

\* DELETE marks rows; keys, slots and entries stay.
LEMMA DeletePreserves ==
  ASSUME IInv, NEW s \in Sessions, NEW W \in SUBSET Visible(s), delete_record(s, W)
  PROVE  Preserved
<1> DEFINE id == StartedId(s)
           done == Before(W, Refused(s, W))
           marked == done \cap Queued(s, "NONE")
           rw == [r \in Rids |-> IF r \in marked THEN set_record_trx_id(rows[r], id, TRUE)
                                 ELSE rows[r]]
           ops == Queue(Queue(operations[s], done \cap Queued(s, "INSERT"), "NONE"),
                        marked, "DELETE")
<1>1. /\ start_if_not_started(s)
      /\ EndStatement(s, rw, index, id, ops) \/ Keep(s, rw, index, id, ops)
      /\ UNCHANGED <<has_index, multi>>
  BY DEF delete_record
<1>2. /\ TypeOK /\ operations[s] \in OpsType /\ multi \in [Sessions -> BOOLEAN]
      /\ rows \in RowsType /\ index \in IndexType /\ SoundIn(rows, index)
  BY DEF IInv, TypeOK, OpsType, RowsType, IndexType, IndexSound
<1>3. id \in 0 .. MaxTrxId /\ next_id' \in 0 .. MaxTrxId
  BY <1>1, <1>2, StartedInRange
<1>4. ops \in OpsType
  BY <1>2, QueueType DEF OpTypes
<1>5. \A r \in marked : r \in Rids /\ rows[r] # NoRow
  BY DEF Before, Visible, Occupied
<1> HIDE DEF id, marked, ops
<1>6. \A r \in Rids : /\ rw[r] \in Row \cup {NoRow}
                      /\ (rw[r] = NoRow) <=> (rows[r] = NoRow)
                      /\ rows[r] # NoRow => rw[r].key = rows[r].key
  <2> SUFFICES ASSUME NEW r \in Rids
               PROVE  /\ rw[r] \in Row \cup {NoRow}
                      /\ (rw[r] = NoRow) <=> (rows[r] = NoRow)
                      /\ rows[r] # NoRow => rw[r].key = rows[r].key
    OBVIOUS
  <2>1. rows[r] \in Row \cup {NoRow}
    BY <1>2 DEF RowsType
  <2>2. CASE r \in marked
    <3>1. rows[r] \in Row /\ TRUE \in BOOLEAN
      BY <2>1, <2>2, <1>5
    <3>2. /\ set_record_trx_id(rows[r], id, TRUE) \in Row
          /\ set_record_trx_id(rows[r], id, TRUE).key = rows[r].key
      BY <3>1, <1>3, MarkedRow
    <3> QED BY <3>1, <3>2, <2>2, TrxAssumption
  <2>3. CASE r \notin marked
    BY <2>1, <2>3
  <2> QED BY <2>2, <2>3
<1>7. rw \in RowsType /\ Occupied(rw) = Occupied(rows)
  BY <1>6 DEF RowsType, Occupied
<1> HIDE DEF rw
<1>8. Computed(rw, index, id, ops) /\ (CompleteIn(rows, index) => CompleteIn(rw, index))
  <2>1. SoundIn(rw, index)
    BY <1>2, <1>6, <1>7 DEF SoundIn, Occupied
  <2>2. CompleteIn(rows, index) => CompleteIn(rw, index)
    BY <1>6, <1>7 DEF CompleteIn, Entry, Occupied
  <2> QED BY <2>1, <2>2, <1>2, <1>3, <1>4, <1>7 DEF Computed
<1>9. Carried(rw, index)
  BY <1>1, <1>2, <1>8, EndStatementCarries, KeepCarries
<1> QED BY <1>1, <1>2, <1>3, <1>8, <1>9, CarriedPreserves

\* Rows whose key changes, with their entries replaced.
LEMMA RekeyedRows ==
  ASSUME IInv, NEW R \in SUBSET Occupied(rows), NEW k \in Keys,
         NEW rw, rw = [r \in Rids |-> IF r \in R THEN [rows[r] EXCEPT !.key = k] ELSE rows[r]],
         NEW ix, ix = insert_entry_of_indexes(index \ Entries(rows, R), Entries(rw, R)),
         NEW id \in 0 .. MaxTrxId, NEW ops \in OpsType
  PROVE  /\ Computed(rw, ix, id, ops)
         /\ has_index /\ CompleteIn(rows, index) => CompleteIn(rw, ix)
<1>1. /\ rows \in RowsType /\ index \in IndexType
      /\ \A r \in R : r \in Rids /\ rows[r] # NoRow /\ rows[r] \in Row
  BY DEF IInv, TypeOK, RowsType, IndexType, Occupied
<1>2. /\ \A r \in R : rw[r] \in Row /\ rw[r] # NoRow /\ rw[r].key = k
      /\ \A r \in Rids \ R : rw[r] = rows[r]
  BY <1>1, TrxAssumption DEF Row
<1>3. rw \in RowsType
  BY <1>1, <1>2 DEF RowsType
<1>4. ix \in IndexType
  BY <1>1, <1>2 DEF insert_entry_of_indexes, Entries, Entry, IndexType
<1>5. SoundIn(rw, ix)
  <2> SUFFICES ASSUME NEW e \in ix PROVE e[2] \in Occupied(rw) /\ rw[e[2]].key = e[1]
    BY DEF SoundIn
  <2>1. CASE e \in index /\ e \notin Entries(rows, R)
    <3>1. e[2] \in Occupied(rows) /\ rows[e[2]].key = e[1] /\ e = <<e[1], e[2]>>
      BY <2>1, <1>1 DEF IInv, IndexSound, SoundIn, IndexType
    <3>2. e[2] \notin R
      BY <2>1, <3>1 DEF Entries, Entry
    <3> QED BY <3>1, <3>2, <1>2 DEF Occupied
  <2>2. CASE e \in Entries(rw, R)
    <3>1. PICK r \in R : e = <<rw[r].key, r>>
      BY <2>2 DEF Entries, Entry
    <3> QED BY <3>1, <1>1, <1>2 DEF Occupied
  <2> QED BY <2>1, <2>2 DEF insert_entry_of_indexes
<1>6. has_index /\ CompleteIn(rows, index) => CompleteIn(rw, ix)
  <2> SUFFICES ASSUME has_index, CompleteIn(rows, index), NEW r \in Occupied(rw)
               PROVE  Entry(rw, r) \in ix
    BY DEF CompleteIn
  <2>1. ix = (index \ Entries(rows, R)) \cup Entries(rw, R)
    BY DEF insert_entry_of_indexes
  <2>2. CASE r \in R
    BY <2>1, <2>2 DEF Entries
  <2>3. CASE r \notin R
    <3>1. Entry(rw, r) = Entry(rows, r) /\ Entry(rows, r) \in index
      BY <2>3, <1>2 DEF CompleteIn, Occupied, Entry
    <3>2. Entry(rows, r) \notin Entries(rows, R)
      BY <2>3 DEF Entries, Entry
    <3> QED BY <3>1, <3>2, <2>1
  <2> QED BY <2>2, <2>3
<1> QED BY <1>3, <1>4, <1>5, <1>6 DEF Computed

\* UPDATE replaces entries for exactly the rows it writes, also if it fails.
LEMMA UpdatePreserves ==
  ASSUME IInv, NEW s \in Sessions, NEW W \in SUBSET Visible(s), NEW k \in Keys,
         update_record(s, W, k)
  PROVE  Preserved
<1> DEFINE missing == W \ Indexed(W)
           dead == W \cap Queued(s, "DELETE")
           done == Before(W, missing \cup dead)
           written == done \cup {r \in dead \ missing : r \in Before(W, missing) /\ \A b \in dead : r <= b}
           fresh == done \cap Queued(s, "NONE")
           id == IF fresh = {} THEN trx_id[s] ELSE StartedId(s)
           rw == [r \in Rids |-> IF r \in written THEN [rows[r] EXCEPT !.key = k] ELSE rows[r]]
           ix == insert_entry_of_indexes(index \ Entries(rows, written), Entries(rw, written))
           ops == Queue(operations[s], fresh, "UPDATE")
<1>1. /\ IF fresh = {} THEN UNCHANGED next_id ELSE start_if_not_started(s)
      /\ EndStatement(s, rw, ix, id, ops) \/ Keep(s, rw, ix, id, ops)
      /\ UNCHANGED <<has_index, multi>>
  BY DEF update_record
<1>2. /\ TypeOK /\ operations[s] \in OpsType /\ multi \in [Sessions -> BOOLEAN]
      /\ trx_id[s] \in 0 .. MaxTrxId /\ next_id \in 0 .. MaxTrxId
  BY DEF IInv, TypeOK, OpsType
<1>3. written \in SUBSET Occupied(rows)
  BY DEF Before, Visible
<1> HIDE DEF written, fresh
<1>4. id \in 0 .. MaxTrxId /\ next_id' \in 0 .. MaxTrxId
  BY <1>1, <1>2, StartedInRange
<1>5. ops \in OpsType
  BY <1>2, QueueType DEF OpTypes
<1> HIDE DEF id, ops
<1>6. Computed(rw, ix, id, ops) /\ (has_index /\ CompleteIn(rows, index) => CompleteIn(rw, ix))
  BY <1>3, <1>4, <1>5, RekeyedRows
<1> HIDE DEF rw, ix
<1>7. Carried(rw, ix)
  BY <1>1, <1>2, <1>6, EndStatementCarries, KeepCarries
<1> QED BY <1>1, <1>2, <1>4, <1>6, <1>7, CarriedPreserves

\* COMMIT, and the commit after a statement or SELECT.
LEMMA CommitPreserves ==
  ASSUME IInv, NEW s \in Sessions, Trx_commit(s, rows, index, operations[s]),
         has_index' = has_index, next_id' = next_id, multi' \in [Sessions -> BOOLEAN]
  PROVE  Preserved
<1>1. /\ TypeOK /\ operations[s] \in OpsType /\ 0 \in 0 .. MaxTrxId /\ next_id \in 0 .. MaxTrxId
  BY TrxAssumption DEF IInv, TypeOK, OpsType
<1>2. Carried(rows, index)
  BY <1>1, ComputedNow, CommitCarries
<1> QED BY <1>1, <1>2, CarriedPreserves

\* ROLLBACK, and the rollback after a failed SELECT.
LEMMA RollbackPreserves ==
  ASSUME IInv, NEW s \in Sessions, Trx_rollback(s),
         has_index' = has_index, next_id' = next_id, multi' \in [Sessions -> BOOLEAN]
  PROVE  Preserved
<1>1. next_id \in 0 .. MaxTrxId
  BY DEF IInv, TypeOK
<1> QED BY <1>1, RollbackCarries, CarriedPreserves

\* The table as it is: BEGIN, and a connection that closes.
LEMMA SameTablePreserves ==
  ASSUME IInv, NEW s \in Sessions, UNCHANGED <<tableState, next_id>>,
         UNCHANGED trxState \/ EndTrx(s), multi' \in [Sessions -> BOOLEAN]
  PROVE  Preserved
<1>1. rows' = rows /\ index' = index /\ has_index' = has_index /\ next_id' = next_id
  BY DEF tableState
<1>2. trx_id' \in [Sessions -> 0 .. MaxTrxId] /\ operations' \in [Sessions -> OpsType]
  <2>1. trx_id \in [Sessions -> 0 .. MaxTrxId] /\ operations \in [Sessions -> OpsType]
    BY DEF IInv, TypeOK, OpsType
  <2>2. NoOps \in OpsType /\ 0 \in 0 .. MaxTrxId
    BY TrxAssumption DEF NoOps, OpsType, OpTypes
  <2>3. CASE UNCHANGED trxState
    BY <2>1, <2>3 DEF trxState
  <2>4. CASE EndTrx(s)
    BY <2>1, <2>2, <2>4 DEF EndTrx
  <2> QED BY <2>3, <2>4
<1>3. Carried(rows, index)
  BY <1>1, <1>2 DEF Carried, IInv, TypeOK, RowsType, IndexType, IndexSound
<1>4. next_id' \in 0 .. MaxTrxId
  BY <1>1 DEF IInv, TypeOK
<1> QED BY <1>1, <1>3, <1>4, CarriedPreserves

\* Every statement but CREATE INDEX preserves soundness and completeness.
LEMMA StatementsPreserve ==
  ASSUME IInv, NEW s \in Sessions, Statements(s)
  PROVE  Preserved
<1>1. multi \in [Sessions -> BOOLEAN]
  BY DEF IInv, TypeOK
<1>2. CASE begin(s)
  BY <1>1, <1>2, SameTablePreserves DEF begin
<1>3. CASE commit(s)
  BY <1>1, <1>3, CommitPreserves DEF commit
<1>4. CASE rollback(s)
  BY <1>1, <1>4, RollbackPreserves DEF rollback
<1>5. CASE select(s)
  BY <1>1, <1>5, CommitPreserves, RollbackPreserves DEF select
<1>6. CASE disconnect(s)
  BY <1>1, <1>6, SameTablePreserves DEF disconnect
<1> QED BY <1>2, <1>3, <1>4, <1>5, <1>6, InsertPreserves, FailedInsertPreserves,
          DeletePreserves, UpdatePreserves, LoadPreserves DEF Statements

\* CREATE INDEX writes the entries of rows that are there.
LEMMA CreateIndexSound ==
  ASSUME IInv, NEW s \in Sessions, create_index(s)
  PROVE  IInv'
<1> DEFINE ix == Entries(rows, Visible(s))
<1>1. /\ TypeOK /\ rows \in RowsType /\ multi \in [Sessions -> BOOLEAN] /\ next_id \in 0 .. MaxTrxId
      /\ trx_id[s] \in 0 .. MaxTrxId /\ operations[s] \in OpsType
  BY DEF IInv, TypeOK, RowsType, OpsType
<1>2. \A r \in Visible(s) : r \in Occupied(rows) /\ r \in Rids /\ rows[r] \in Row
  BY <1>1 DEF Visible, Occupied, RowsType
<1>3. ix \in IndexType
  BY <1>2 DEF Entries, Entry, IndexType, Row
<1>4. SoundIn(rows, ix)
  BY <1>2 DEF SoundIn, Entries, Entry
<1>5. Computed(rows, ix, trx_id[s], operations[s])
  BY <1>1, <1>3, <1>4 DEF Computed
<1> HIDE DEF ix
<1>6. EndStatement(s, rows, ix, trx_id[s], operations[s])
      /\ has_index' = TRUE /\ multi' = multi /\ next_id' = next_id
  BY DEF create_index, ix
<1>7. Carried(rows, ix)
  BY <1>1, <1>5, <1>6, EndStatementCarries
<1>8. IndexSound' <=> SoundIn(rows', index')
  BY DEF IndexSound, SoundIn, Occupied
<1> QED BY <1>1, <1>6, <1>7, <1>8 DEF IInv, TypeOK, Carried, RowsType, IndexType, OpsType

\* The empty table.
LEMMA InitSound == Init => IInv /\ IndexComplete
BY TrxAssumption DEF Init, IInv, TypeOK, IndexSound, IndexComplete, SoundIn, CompleteIn,
  Occupied, NoOps, OpTypes

\* Steps that change nothing.
LEMMA StutterPreserves == IInv /\ UNCHANGED vars => Preserved
BY DEF IInv, TypeOK, IndexSound, IndexComplete, SoundIn, CompleteIn, Occupied, Entry, vars, Preserved

\* Whatever the sessions do, failed statements, closed connections and an
\* index made half-way through a transaction included, every index entry
\* leads to a row with its key.
THEOREM IndexNeverDangles == Spec => [](TypeOK /\ IndexSound)
<1>1. Init => IInv
  BY InitSound
<1>2. IInv /\ [Next]_vars => IInv'
  BY StatementsPreserve, CreateIndexSound, StutterPreserves DEF Next, Preserved
<1> QED BY <1>1, <1>2, PTL DEF Spec, IInv

\* In every reachable state, a statement that finds the index complete
\* leaves it complete.
THEOREM IndexIsKept == Spec => IndexKept
<1>1. IInv /\ [Next]_vars => [has_index /\ IndexComplete => IndexComplete']_vars
  <2> SUFFICES ASSUME IInv, Next, has_index PROVE IndexComplete => IndexComplete'
    OBVIOUS
  <2>1. PICK s \in Sessions : Statements(s)
    BY DEF Next, create_index
  <2> QED BY <2>1, StatementsPreserve DEF Preserved
<1>2. Spec => []IInv
  BY IndexNeverDangles, PTL DEF IInv
<1> QED BY <1>1, <1>2, PTL DEF Spec, IndexKept

\* An index made before the first row stays complete: insert_record,
\* update_record, commit and rollback keep it in step with the rows.
THEOREM IndexStaysComplete == IndexedSpec => []IndexComplete
<1> DEFINE Inv == IInv /\ IndexComplete
           Steps == \E s \in Sessions : Statements(s)
<1>1. IndexedInit => Inv
  BY InitSound DEF IndexedInit
<1>2. Inv /\ [Steps]_vars => Inv'
  BY StatementsPreserve, StutterPreserves DEF Preserved
<1>3. Inv => IndexComplete
  OBVIOUS
<1> QED BY <1>1, <1>2, <1>3, PTL DEF IndexedSpec
=============================================================================
