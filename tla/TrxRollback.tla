---------------------------- MODULE TrxRollback -----------------------------
(***************************************************************************)
(* Trx with the contents of the table before the running transaction, for  *)
(* one session at a time: what ROLLBACK has to go back to.                 *)
(***************************************************************************)
EXTENDS MCTrx

VARIABLE before

\* `before' follows the table while no transaction runs.
Remember(s) == before' = IF trx_id'[s] = 0 THEN Contents(Visible(s))' ELSE before

\* LOAD DATA writes without a transaction, and is left out.
Transactional(s) ==
  \/ begin(s)
  \/ insert_record(s)
  \/ \E W \in SUBSET Visible(s) \ {{}} : delete_record(s, W)
  \/ \E W \in SUBSET Visible(s) \ {{}}, k \in Keys : update_record(s, W, k)
  \/ commit(s)
  \/ rollback(s)

RollbackInit == Init /\ before = Contents({})

RollbackSpec ==
  RollbackInit /\ [][\E s \in Sessions : Transactional(s) /\ Remember(s)]_<<vars, before>>

\* The transaction implementation "supports commit/rollback" (trx.h): after
\* ROLLBACK the session sees the table as it was before the transaction.
RollbackRestores ==
  [][\A s \in Sessions : rollback(s) => Contents(Visible(s))' = before]_<<vars, before>>
=============================================================================
