-------------------------------- MODULE Trx ---------------------------------
(***************************************************************************)
(* The statements of several sessions on one table: the rows in the slots  *)
(* of its record file with the transaction field of each, one index on one *)
(* column (the key), and the Trx object of each session with its list of   *)
(* operations.                                                             *)
(*                                                                         *)
(* A statement is one step; the races inside a statement are not modelled. *)
(* A row is small (one slot), the record file finds some free slot, and a  *)
(* WHERE clause selects any of the rows the session sees, in the order of  *)
(* the file: no index serves the scan.  Pages and the nodes of the index   *)
(* cannot fail.                                                            *)
(***************************************************************************)
EXTENDS Integers, FiniteSets

CONSTANTS
  Sessions,   \* the connected clients
  Keys,       \* values of the indexed column
  NSlots,     \* BOUND: slots of the record file
  MaxTrxId,   \* BOUND: transactions that are started
  MaxGroup,   \* BOUND: rows of one INSERT
  NoRow       \* an empty slot

VARIABLES
  rows,         \* the record in each slot, or NoRow
  has_index,    \* the table has its index
  index,        \* the entries of the index: pairs of a key and a slot
  trx_id,       \* Trx::trx_id_ of each session, 0 if not started
  operations,   \* Trx::operations_ of each session on this table
  multi,        \* Session::trx_multi_operation_mode_
  next_id       \* the counter of Trx::next_trx_id

tableState == <<rows, has_index, index>>
trxState == <<trx_id, operations>>
vars == <<rows, has_index, index, trx_id, operations, multi, next_id>>

Rids == 0 .. NSlots - 1
Row == [key : Keys, trx_id : 0 .. MaxTrxId, deleted : BOOLEAN]
NewRow(k, id) == [key |-> k, trx_id |-> id, deleted |-> FALSE]
OpTypes == {"NONE", "INSERT", "DELETE", "UPDATE"}
NoOps == [r \in Rids |-> "NONE"]

ASSUME TrxAssumption ==
  /\ NSlots \in Nat \ {0}
  /\ MaxTrxId \in Nat
  /\ MaxGroup \in Nat
  /\ NoRow \notin Row \cup Keys

Init ==
  /\ rows = [r \in Rids |-> NoRow]
  /\ has_index \in BOOLEAN
  /\ index = {}
  /\ trx_id = [s \in Sessions |-> 0]
  /\ operations = [s \in Sessions |-> NoOps]
  /\ multi = [s \in Sessions |-> FALSE]
  /\ next_id = 0

-----------------------------------------------------------------------------
(* Rows, visibility and index entries. *)

Occupied(rw) == {r \in Rids : rw[r] # NoRow}

MutIsVisibleHides(id, row) == row.trx_id \in {0, id} /\ ~row.deleted

is_visible(id, row) ==
  IF row.trx_id \in {0, id} THEN ~row.deleted ELSE row.deleted

Visible(s) == {r \in Occupied(rows) : is_visible(trx_id[s], rows[r])}

Entry(rw, r) == <<rw[r].key, r>>
Entries(rw, R) == {Entry(rw, r) : r \in R}

insert_entry_of_indexes(ix, E) == IF has_index THEN ix \cup E ELSE ix

\* The rows of R whose entry delete_entry_of_indexes finds.
Indexed(R) == {r \in R : has_index => Entry(rows, r) \in index}

set_record_trx_id(row, id, deleted) == [row EXCEPT !.trx_id = id, !.deleted = deleted]

Queued(s, type) == {r \in Rids : operations[s][r] = type}
Queue(ops, R, type) == [r \in Rids |-> IF r \in R THEN type ELSE ops[r]]

-----------------------------------------------------------------------------
(* Starting and ending transactions. *)

StartedId(s) == IF trx_id[s] = 0 THEN next_id + 1 ELSE trx_id[s]

MutStartsAgain(s) ==
  /\ StartedId(s) <= MaxTrxId
  /\ next_id' = next_id + 1

start_if_not_started(s) ==
  /\ StartedId(s) <= MaxTrxId
  /\ next_id' = IF trx_id[s] = 0 THEN next_id + 1 ELSE next_id

EndTrx(s) ==
  /\ trx_id' = [trx_id EXCEPT ![s] = 0]
  /\ operations' = [operations EXCEPT ![s] = NoOps]

MutCommitKeepsMark(row, op) ==
  IF row # NoRow /\ op = "DELETE" THEN NoRow ELSE row

MutCommitKeepsRow(row, op) ==
  IF row # NoRow /\ op # "NONE" THEN set_record_trx_id(row, 0, FALSE) ELSE row

CommitRow(row, op) ==
  CASE row = NoRow \/ op = "NONE" -> row
    [] row # NoRow /\ op \in {"INSERT", "UPDATE"} -> set_record_trx_id(row, 0, FALSE)
    [] row # NoRow /\ op = "DELETE" -> NoRow

\* Trx::commit on the rows rw, the index ix and the operations ops.  An
\* operation whose slot is empty is logged and skipped; the entry of a
\* deleted row is removed if it is there.
Trx_commit(s, rw, ix, ops) ==
  /\ rows' = [r \in Rids |-> CommitRow(rw[r], ops[r])]
  /\ index' = ix \ Entries(rw, {r \in Occupied(rw) : ops[r] = "DELETE"})
  /\ EndTrx(s)

\* Trx::rollback: an insert whose index entry is missing stays, and UPDATE
\* is an operation rollback does not know.
MutRollbackKeepsInserts(s) == {}

RolledBackInserts(s) == Indexed(Queued(s, "INSERT") \cap Occupied(rows))

MutRollbackKeepsEntries(s) ==
  /\ rows' = [r \in Rids |->
       IF r \in RolledBackInserts(s) THEN NoRow
       ELSE IF rows[r] # NoRow /\ operations[s][r] = "DELETE"
            THEN set_record_trx_id(rows[r], 0, FALSE)
       ELSE rows[r]]
  /\ index' = index
  /\ EndTrx(s)

Trx_rollback(s) ==
  /\ rows' = [r \in Rids |->
       IF r \in RolledBackInserts(s) THEN NoRow
       ELSE IF rows[r] # NoRow /\ operations[s][r] = "DELETE"
            THEN set_record_trx_id(rows[r], 0, FALSE)
       ELSE rows[r]]
  /\ index' = index \ Entries(rows, RolledBackInserts(s))
  /\ EndTrx(s)

\* The statement leaves its operations with the transaction.
Keep(s, rw, ix, id, ops) ==
  /\ rows' = rw
  /\ index' = ix
  /\ trx_id' = [trx_id EXCEPT ![s] = id]
  /\ operations' = [operations EXCEPT ![s] = ops]

\* A successful statement outside BEGIN commits; a failed one does not.
EndStatement(s, rw, ix, id, ops) ==
  \/ multi[s] /\ Keep(s, rw, ix, id, ops)
  \/ ~multi[s] /\ Trx_commit(s, rw, ix, ops)

-----------------------------------------------------------------------------
(* Statements that change rows. *)

\* A slot the session may insert into: the record file gives a free one, and
\* Trx::insert_record refuses one that has an operation already (the record
\* is then removed again, so that nothing changes).
Insertable(s) == {r \in Rids \ Occupied(rows) : operations[s][r] = "NONE"}

Groups(s) == {R \in SUBSET Insertable(s) : R # {} /\ Cardinality(R) <= MaxGroup}

\* INSERT of one or more rows.  init_trx_info stamps a row before
\* Trx::insert_record starts the transaction: the first row of a transaction
\* gets 0.  No entry of a free slot is in the index (IndexSound), so
\* insert_entry_of_indexes does not fail.
insert_record(s) ==
  \E R \in Groups(s) : \E first \in R, keys \in [R -> Keys] :
    LET stamp(r) == IF r = first THEN trx_id[s] ELSE StartedId(s)
        rw == [r \in Rids |-> IF r \in R THEN NewRow(keys[r], stamp(r)) ELSE rows[r]]
    IN /\ start_if_not_started(s)
       /\ EndStatement(s, rw, insert_entry_of_indexes(index, Entries(rw, R)),
                       StartedId(s), Queue(operations[s], R, "INSERT"))
       /\ UNCHANGED <<has_index, multi>>

\* An INSERT of several rows that fails at a later row, for a value of the
\* wrong type or a slot with an operation: the rows before it are removed
\* with their entries, but their operations stay queued.
insert_record_fails(s) ==
  \E R \in Groups(s) :
    /\ start_if_not_started(s)
    /\ Keep(s, rows, index, StartedId(s), Queue(operations[s], R, "INSERT"))
    /\ UNCHANGED <<has_index, multi>>

\* The rows of W that a scan visits before the first row of Bad.
Before(W, Bad) == {r \in W : \A b \in W \cap Bad : r < b}

Refused(s, W) == W \cap (Queued(s, "DELETE") \cup Queued(s, "UPDATE"))

\* DELETE of the rows W.  A row the transaction inserted only loses its
\* queued operation; a row it updated makes the statement fail.
delete_record(s, W) ==
  LET id == StartedId(s)
      done == Before(W, Refused(s, W))
      marked == done \cap Queued(s, "NONE")
      rw == [r \in Rids |-> IF r \in marked THEN set_record_trx_id(rows[r], id, TRUE)
                            ELSE rows[r]]
      ops == Queue(Queue(operations[s], done \cap Queued(s, "INSERT"), "NONE"),
                   marked, "DELETE")
  IN /\ start_if_not_started(s)
     /\ \/ Refused(s, W) = {} /\ EndStatement(s, rw, index, id, ops)
        \/ Refused(s, W) # {} /\ Keep(s, rw, index, id, ops)
     /\ UNCHANGED <<has_index, multi>>

\* UPDATE of the rows W.  The row and its entry change first; then
\* Trx::update_record stamps the caller's copy, never the stored row, and
\* queues the operation.  It fails on a row the session has deleted, after
\* the row has changed; a missing index entry fails before it has.
update_record(s, W, k) ==
  LET missing == W \ Indexed(W)
      dead == W \cap Queued(s, "DELETE")
      done == Before(W, missing \cup dead)
      written == done \cup {r \in dead \ missing : r \in Before(W, missing) /\ \A b \in dead : r <= b}
      fresh == done \cap Queued(s, "NONE")
      id == IF fresh = {} THEN trx_id[s] ELSE StartedId(s)
      rw == [r \in Rids |-> IF r \in written THEN [rows[r] EXCEPT !.key = k] ELSE rows[r]]
      ix == insert_entry_of_indexes(index \ Entries(rows, written), Entries(rw, written))
      ops == Queue(operations[s], fresh, "UPDATE")
  IN /\ IF fresh = {} THEN UNCHANGED next_id ELSE start_if_not_started(s)
     /\ \/ missing \cup dead = {} /\ EndStatement(s, rw, ix, id, ops)
        \/ missing \cup dead # {} /\ Keep(s, rw, ix, id, ops)
     /\ UNCHANGED <<has_index, multi>>

\* LOAD DATA of one line inserts without a transaction, and the statement
\* then ends like any other.
load_data(s) ==
  \E r \in Rids \ Occupied(rows), k \in Keys :
    LET rw == [rows EXCEPT ![r] = NewRow(k, 0)]
    IN /\ EndStatement(s, rw, insert_entry_of_indexes(index, {<<k, r>>}),
                       trx_id[s], operations[s])
       /\ UNCHANGED <<has_index, multi, next_id>>

\* CREATE INDEX inserts the rows that the session sees.
create_index(s) ==
  /\ ~has_index
  /\ has_index' = TRUE
  /\ EndStatement(s, rows, Entries(rows, Visible(s)), trx_id[s], operations[s])
  /\ UNCHANGED <<multi, next_id>>

-----------------------------------------------------------------------------
(* Statements that begin and end transactions. *)

begin(s) ==
  /\ ~multi[s]
  /\ multi' = [multi EXCEPT ![s] = TRUE]
  /\ UNCHANGED <<tableState, trxState, next_id>>

commit(s) ==
  /\ Trx_commit(s, rows, index, operations[s])
  /\ multi' = [multi EXCEPT ![s] = FALSE]
  /\ UNCHANGED <<has_index, next_id>>

rollback(s) ==
  /\ Trx_rollback(s)
  /\ multi' = [multi EXCEPT ![s] = FALSE]
  /\ UNCHANGED <<has_index, next_id>>

\* A SELECT outside BEGIN ends the transaction: end_trx_if_need commits, or
\* rolls back if the SELECT fails.
select(s) ==
  /\ ~multi[s]
  /\ \/ Trx_commit(s, rows, index, operations[s])
     \/ Trx_rollback(s)
  /\ UNCHANGED <<has_index, multi, next_id>>

\* The connection closes: ~Session deletes the Trx as it is.
disconnect(s) ==
  /\ EndTrx(s)
  /\ multi' = [multi EXCEPT ![s] = FALSE]
  /\ UNCHANGED <<tableState, next_id>>

\* Every statement but CREATE INDEX.
Statements(s) ==
  \/ begin(s)
  \/ insert_record(s)
  \/ insert_record_fails(s)
  \/ \E W \in SUBSET Visible(s) \ {{}} : delete_record(s, W)
  \/ \E W \in SUBSET Visible(s) \ {{}}, k \in Keys : update_record(s, W, k)
  \/ load_data(s)
  \/ commit(s)
  \/ rollback(s)
  \/ select(s)
  \/ disconnect(s)

Next == \E s \in Sessions : Statements(s) \/ create_index(s)

Spec == Init /\ [][Next]_vars

\* The index is made while the table is empty.
IndexedInit == Init /\ has_index = TRUE

IndexedSpec == IndexedInit /\ [][\E s \in Sessions : Statements(s)]_vars

\* One transaction at a time, as trx.h asks for ("no control of concurrent
\* access"): no other session has started one.  Left out are the statements
\* that ROLLBACK does not undo (UPDATE inside BEGIN, LOAD DATA), DELETE of a
\* row the transaction inserted, and connections that close.
Running(s) == trx_id[s] # 0
Alone(s) == \A t \in Sessions \ {s} : ~Running(t)

SerialStatements(s) ==
  \/ begin(s)
  \/ insert_record(s)
  \/ insert_record_fails(s)
  \/ \E W \in SUBSET (Visible(s) \ Queued(s, "INSERT")) \ {{}} : delete_record(s, W)
  \/ \E W \in SUBSET Visible(s) \ {{}}, k \in Keys : ~multi[s] /\ update_record(s, W, k)
  \/ commit(s)
  \/ rollback(s)
  \/ select(s)

SerialSpec == IndexedInit /\ [][\E s \in Sessions : Alone(s) /\ SerialStatements(s)]_vars

-----------------------------------------------------------------------------
(* Properties. *)

SoundIn(rw, ix) == \A e \in ix : e[2] \in Occupied(rw) /\ rw[e[2]].key = e[1]
CompleteIn(rw, ix) == \A r \in Occupied(rw) : Entry(rw, r) \in ix

\* The variables have their types.
TypeOK ==
  /\ rows \in [Rids -> Row \cup {NoRow}]
  /\ has_index \in BOOLEAN
  /\ index \subseteq (Keys \X Rids)
  /\ trx_id \in [Sessions -> 0 .. MaxTrxId]
  /\ operations \in [Sessions -> [Rids -> OpTypes]]
  /\ multi \in [Sessions -> BOOLEAN]
  /\ next_id \in 0 .. MaxTrxId

\* Every entry of the index leads to a row with that key, whatever the
\* sessions do and whichever statement fails: a scan by the index never
\* meets an empty slot, and an INSERT never meets an entry of its slot.
IndexSound == SoundIn(rows, index)

\* Every row has its entry in the index, so that a scan by the index finds
\* what a scan of the file finds.
IndexComplete == has_index => CompleteIn(rows, index)

\* No statement but CREATE INDEX leaves a row without its entry that had
\* one before, or a new row without one: inserts, updates, commits and
\* rollbacks of all sessions keep a complete index complete.
IndexKept == [][has_index /\ IndexComplete => IndexComplete']_vars

\* What ROLLBACK of the running transaction goes back to, when transactions
\* come one at a time: its own inserts are not part of it, its deletions are
\* not yet done.
Inserted == UNION {Queued(s, "INSERT") : s \in Sessions}
Committed == Occupied(rows) \ Inserted

\* While a transaction runs, every other session sees all committed rows,
\* those the transaction has marked deleted included (is_visible).
ReadersMissNothing == \A s \in Sessions : Running(s) \/ Committed \subseteq Visible(s)

\* When no transaction runs, no row carries a mark of one: commit and
\* rollback have cleared every mark and every operation.
NoMarksAtRest ==
  (\A s \in Sessions : ~Running(s)) =>
    /\ \A r \in Occupied(rows) : rows[r].trx_id = 0 /\ ~rows[r].deleted
    /\ operations = [s \in Sessions |-> NoOps]

Contents(R) == [r \in Rids |-> IF r \in R THEN rows[r].key ELSE NoRow]
Viewer == CHOOSE s \in Sessions : (\E t \in Sessions : Running(t)) => Running(s)

Atomic == INSTANCE AtomicTable
  WITH Slots <- Rids, current <- Contents(Visible(Viewer)), committed <- Contents(Committed)

\* Transactions, one at a time, are atomic: statements change what the
\* transaction sees, COMMIT keeps all of it and ROLLBACK none of it.
ImplementsAtomicTable == Atomic!Spec

\* "0 means that this row is committed" (is_visible): no running transaction
\* has inserted a row with mark 0.
ZeroMeansCommitted ==
  \A s \in Sessions, r \in Occupied(rows) : operations[s][r] = "INSERT" => rows[r].trx_id # 0
=============================================================================
