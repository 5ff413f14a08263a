---------------------------- MODULE AtomicTable -----------------------------
(***************************************************************************)
(* What transactions promise: the slots of a table, as the running         *)
(* transaction sees them and as they were last committed.  Statements      *)
(* change the first, COMMIT copies it to the second, ROLLBACK copies it    *)
(* back.  There are no marks on the rows and no lists of operations.       *)
(***************************************************************************)
CONSTANTS Slots, Keys, NoRow

VARIABLES
  current,    \* the key in each slot, or NoRow, for the running transaction
  committed   \* the same, when the last transaction ended

tableVars == <<current, committed>>

Init ==
  /\ current = [r \in Slots |-> NoRow]
  /\ committed = current

\* A statement belongs to a transaction, or is one by itself.
Statement == committed' \in {committed, current'}

Put(R, keys) == current' = [r \in Slots |-> IF r \in R THEN keys[r] ELSE current[r]]

Insert(R) ==
  /\ \A r \in R : current[r] = NoRow
  /\ \E keys \in [R -> Keys] : Put(R, keys)
  /\ Statement

Update(R, k) ==
  /\ \A r \in R : current[r] # NoRow
  /\ Put(R, [r \in R |-> k])
  /\ Statement

Delete(R) ==
  /\ \A r \in R : current[r] # NoRow
  /\ Put(R, [r \in R |-> NoRow])
  /\ Statement

Commit == committed' = current /\ UNCHANGED current

Rollback == current' = committed /\ UNCHANGED committed

Next ==
  \/ \E R \in SUBSET Slots : Insert(R) \/ Delete(R)
  \/ \E R \in SUBSET Slots, k \in Keys : Update(R, k)
  \/ Commit
  \/ Rollback

Spec == Init /\ [][Next]_tableVars
=============================================================================
