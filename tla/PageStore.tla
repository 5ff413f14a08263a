----------------------------- MODULE PageStore ------------------------------
(***************************************************************************)
(* What a buffer pool promises to its callers: files of pages, each page   *)
(* with one current body, read and written through handles.  There are no  *)
(* frames, no eviction and no disk.                                        *)
(***************************************************************************)
CONSTANTS Files, PageNums, Handles, Values, None

VARIABLES
  used,     \* the allocated pages of each file
  store,    \* the current body of every allocated page
  held      \* the page behind each handle, or None

storeVars == <<used, store, held>>

DataPages == PageNums \ {0}

Init ==
  /\ used \in [Files -> SUBSET DataPages]
  /\ store \in [Files -> [DataPages -> Values \cup {None}]]
  /\ \A f \in Files, p \in DataPages : (store[f][p] = None) <=> (p \notin used[f])
  /\ held = [h \in Handles |-> None]

\* A handle on a page that is in use; nothing else changes.
Get(h, f, p) ==
  /\ held[h] = None
  /\ p \in used[f]
  /\ held' = [held EXCEPT ![h] = [file |-> f, page |-> p]]
  /\ UNCHANGED <<used, store>>

\* A page nobody uses comes into use, with some body.
TakePage(f, p, v) ==
  /\ p \in DataPages \ used[f]
  /\ used' = [used EXCEPT ![f] = @ \cup {p}]
  /\ store' = [store EXCEPT ![f][p] = v]

Allocate(h, f, p, v) ==
  /\ held[h] = None
  /\ TakePage(f, p, v)
  /\ held' = [held EXCEPT ![h] = [file |-> f, page |-> p]]

\* The page is taken, but the caller is told that allocation failed.
AllocateFails(f, p, v) == TakePage(f, p, v) /\ UNCHANGED held

\* Writing through a handle changes that page and no other.
Write(h, v) ==
  /\ held[h] # None
  /\ store' = [store EXCEPT ![held[h].file][held[h].page] = v]
  /\ UNCHANGED <<used, held>>

Release(h) ==
  /\ held[h] # None
  /\ held' = [held EXCEPT ![h] = None]
  /\ UNCHANGED <<used, store>>

Next ==
  \/ \E h \in Handles, f \in Files, p \in DataPages : Get(h, f, p)
  \/ \E h \in Handles, f \in Files, p \in DataPages, v \in Values : Allocate(h, f, p, v)
  \/ \E f \in Files, p \in DataPages, v \in Values : AllocateFails(f, p, v)
  \/ \E h \in Handles, v \in Values : Write(h, v)
  \/ \E h \in Handles : Release(h)

Spec == Init /\ [][Next]_storeVars
=============================================================================
