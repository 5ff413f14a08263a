# MiniOB: a TLA+ verification project

MiniOB is a small relational database server. Requests arrive on a network
thread, travel as events through the stages of a SEDA runtime, and end in a
storage engine of tables, transactions, B+ tree indexes and a disk buffer
pool. This directory models the parts of it whose behaviour depends on the
order of steps, checks them with TLC on small instances, and proves the most
important results with TLAPS for instances of any size.

The text has five parts: the inventory of the system, the modules and how they
correspond to the code, what is checked, what is proved, and the plan.

## 1. The system

| part | source | state | operations |
|---|---|---|---|
| SEDA runtime | `deps/common/seda/{thread_pool,stage,kill_thread}.cpp` | run queue, idle and thread counters, per stage an event list, a reference count, the connection to the pool | schedule, run_thread, add_event, remove_event, release_event, connect, disconnect, add_threads, kill_threads |
| SEDA configuration | `deps/common/seda/{seda_config,init}.cpp` | the stages and pools of the process | init, start, cleanup, clear_config |
| events, callbacks | `deps/common/seda/{stage_event,callback}.cpp` | the stack of completion callbacks of an event | done, done_immediate, push_callback |
| timer stage | `deps/common/seda/timer_stage.cpp` | timer queue, shutdown flag | register, cancel, check_timer, disconnect_prepare |
| network server | `observer/net/server.cpp` | connections, buffers | accept, recv, send, close_connection |
| sessions | `observer/session` | current database, transaction, multi-operation mode | handle_request, callback_event |
| SQL front end | `observer/sql/{parser,plan_cache,query_cache,optimizer}` | none that is shared | parse, resolve, pass on |
| executor | `observer/sql/executor` | tuples of one statement | selection, join, aggregation, ordering |
| storage stage | `observer/storage/default/default_storage_stage.cpp` | none of its own | dispatch a statement, commit it |
| database, tables | `observer/storage/common/{db,table,table_meta}.cpp` | tables, their files and indexes | create, open, drop, insert, update, delete, create index, sync |
| transactions | `observer/storage/trx` | id, operations by row; the stamp in each row | insert, delete, update, commit, rollback, is_visible |
| record manager | `observer/storage/common/record_manager.cpp` | record pages with a bitmap of slots | insert, update, delete, get, scan |
| B+ tree | `observer/storage/common/bplus_tree*.cpp` | nodes on pages, leaf chain, root page | insert, delete, get, scan |
| buffer pool | `observer/storage/default/{disk_buffer_pool,bp_manager}.cpp` | frames, LRU list, page map, open files, headers | open, close, get, allocate, dispose, flush, mark dirty, unpin |

How they interact: the network thread calls `Stage::add_event` on the session
stage; service threads of the pool run each request through all the stages by
direct calls of `handle_event`, down to the storage stage, which calls the
tables of the current database; tables call the record manager, the indexes
and the transaction of the session; record manager and B+ tree are the only
users of the buffer pool. The answer goes back through the completion
callbacks of the events, and the session stage writes it to the socket.

What is hard to get right, and hard to test:

* in the runtime, a mutex per stage and two per pool are taken one after the
  other and never together, so every pair of critical sections may be split by
  any other thread; wake-ups are left out on purpose; shutdown has to wait for
  exactly the right events, and threads are killed by events that travel
  through the queue they serve;
* in the buffer pool, a page is known through the map, through the frame, the
  pin count and the header bitmap at once, and every function updates only
  some of them;
* in the tree, the table and the transactions, a statement consists of many
  steps of which any may fail, and rows carry the traces of transactions that
  have not ended.

`PROJECT.json` lists these as hazards, each at its line, with the properties
that cover it or the part of the plan that will.

## 2. The modules

### SedaPool

One action is one critical section (`MUTEX_LOCK` .. `MUTEX_UNLOCK`) of the code.
`pc` says where each thread is: service threads (`Workers`) in `run_thread`,
`Clients` (network, timer) outside the pool, and `Admin`, the thread that runs
`SedaConfig::start`, `cleanup` and `~Threadpool`.

| code | model |
|---|---|
| `Stage::event_list_`, `connected_`, `event_ref_`, `th_pool_` | `event_list`, `connected`, `event_ref`, `attached` |
| `Threadpool::run_queue_`, `n_idles_`, `nthreads_`, `threads_to_kill_` | the same names |
| `add_event` | `add_event` (list), then `ScheduleTarget` (run queue) |
| `run_thread` | `Dequeue`, `remove_event`, `Handler...` or `thread_kill`, `release_event` |
| `connect` | `connect`, `ScheduleBacklog`, `ConnectReturns` |
| `disconnect` | `disconnect`, `DisconnectRecheck` |
| `kill_threads` | `clear_config`, `gen_kill_thread_event`, `ScheduleKill`, `WaitForKills`, `KillsDone` |

Waiting on a condition variable is a program point; a signal moves one waiting
thread on, and POSIX's spurious wake-ups are actions of their own
(`SpuriousWakeup`, `SpuriousKillWakeup`). The wait of `disconnect` is in a loop
that tests its condition again, and its spurious wake-ups are left out.
`thread_mutex_` is held by `kill_threads` over many steps and is the predicate
`ThreadMutexHeld`. What a stage does with its event is arbitrary: it may add new
events to any stage, forward its own, or let it go.

A client stops calling once `clear_config` has deleted the stages. In the
program the network loop has ended by then.

### BufferPool and PageStore

`BufferPool` is `DiskBufferPool` over `BPManager`. A function is one action, with
an action of its own for each way of failing. A page has an abstract body, and
page 0 the sub-header with its bitmap. `frames`, `list_map`, `open_list` are the
code's; `lru_pos` gives each frame its place in the intrusive list
`frame_list`; `disk` and `fd_file` are the files and what the kernel knows of
the descriptors (the lowest free descriptor is reused). A caller's
`BPPageHandle` is a member of `Handles` and remembers what was asked for.

Three facts of the code are easy to miss, and are in the model: `alloc` does
not set the page number of the frame it hands out (the read of the page does);
`open_file` does not look at `list_map`; `evict` erases the map entry by the
number that is in the frame at that time.

Callers keep to the contract of the functions: they unpin a handle once, mark a
page they wrote, leave page 0 to the pool, and close a file when they hold no page
of it. Where a file's handle no longer leads to its header the code would
compute with the bytes of another page, and the model stops (`HeaderIntact`).

`PageStore` is what a caller expects: files of pages with a body, handles on
pages, nothing else. `ImplementsStore` maps the pool to it: the current body of
a page is the frame's if the map names one, else the disk's.

### Trx, AtomicTable and TrxRollback

`Trx` has the statements of several sessions on one table with one index.

| code | model |
|---|---|
| the record file, with the transaction field of each row | `rows`: slot to key, `trx_id`, `deleted` |
| the B+ tree of the index | `index`, a set of pairs of key and slot, and `has_index` |
| `Trx::trx_id_`, `operations_` | `trx_id`, `operations` (slot to operation) |
| `Session::trx_multi_operation_mode_` | `multi` |
| `Table::insert_record`, `update_record`, `delete_record`, `create_index` with the functions of `Trx` they call | the actions of these names, and `insert_record_fails` |
| commit after a statement (`DefaultStorageStage::handle_event`) | `EndStatement`: commit if it succeeded outside BEGIN; a failed statement keeps its operations (`Keep`) |
| BEGIN, COMMIT, ROLLBACK, SELECT, `~Session` | `begin`, `commit`, `rollback`, `select`, `disconnect` |

A statement is one step. Its WHERE clause selects any set of rows that its
session sees; a scan that fails at a row has handled the rows before it. The
first free slot of the page search is any free slot. Details of the code that
are in the model: a row is stamped before the transaction has its id;
`Trx::update_record` stamps the caller's copy of the row, so that the stored row
keeps its old stamp; an `INSERT` of several rows that fails removes the rows but
not their operations; index entries that are missing make `UPDATE` fail and
`ROLLBACK` keep the row.

`AtomicTable` is what transactions promise: a table as the transaction sees it
and as it was committed. `TrxRollback` adds the contents of the table before
the running transaction.

### Modules for TLC and for proofs

`MCSedaPool`, `MCBufferPool` and `MCTrx` declare the symmetry sets. `TrxProofs` has
the theorems on the index. The proof of the runtime is spread
over `SedaPoolInvariant` (the inductive invariant and its counting lemmas),
`SedaPoolSchedule`, `SedaPoolWorkers`, `SedaPoolAddEvent`, `SedaPoolAdmin` (one
lemma for each action) and `SedaPoolProofs` (the theorems).

## 3. What is checked

| run | shows | bounds |
|---|---|---|
| `seda_safety` | no assertion fails, reference counts are exact, a disconnected stage is quiescent, queued work has a thread, the destroyed pool is empty | 2 service threads, 1 client, 2 stages, 2 events besides the kill events, all spurious wake-ups |
| `seda_live` | events are served, cleanup ends | 1 stage, no spurious wake-up of `kill_threads` |
| `seda_spurious` | violation: a spurious wake-up of `kill_threads` blocks the shutdown | as above, with that wake-up |
| `buffer_pool_steady` | the pool implements `PageStore`; held pages stay; a page is in one frame; clean pages are on disk; pins count holders; headers stay | 3 frames, 2 files of up to 3 pages, 2 handles: more pages than frames, so that eviction, write-back and the shortage of frames all happen |
| `buffer_pool_all` | with disposal, flushing, closing and failing reads and writes: types, the LRU list, the header counts, and no pinned page replaced | 2 frames, 2 files of up to 2 pages, 1 handle, 1 failing read or write |
| `buffer_pool_dispose`, `_sync`, `_reuse` | violations, see the findings in `PROJECT.json` | as `buffer_pool_steady` with one more function |
| `trx_all` | an index entry always leads to its row, and a complete index stays complete, with every statement, failure and closed connection | 2 sessions, 2 slots, 2 keys, 3 transactions, 2 rows per INSERT |
| `trx_serial` | transactions one at a time implement `AtomicTable`; readers miss no committed row; no marks remain | 2 sessions, 3 slots, 2 keys, 4 transactions |
| `trx_rollback`, `trx_zero` | violations, see the findings | 1 or 2 sessions, 2 slots |

Two service threads and two events are enough for the races of the runtime:
each assertion, count or wake-up involves one stage, the thread that has
popped it, one that overtakes it, and the thread that shuts down. The
theorems below remove the bound for the safety properties. Deadlock is not
checked in `seda_*`: after cleanup the program has ended.

Fairness (`FairSpec`): a service thread and the admin thread take a step that
stays possible (the scheduler of the operating system), and handlers return.
Nothing makes clients send, stages forward or cleanup begin. Both liveness
properties assume a pool with at least one thread: `pthread_create` may fail, and
`kill_threads(0)` waits for a signal that nobody sends.

`buffer_pool_steady` leaves out disposing, flushing and closing because each of
them breaks the properties it checks. The violation runs show this for
disposing and flushing; `close_file` leaves entries in `list_map` that break
`HeldPagesStay` in the same way. `buffer_pool_all` states what holds with them.

`trx_serial` follows the comment in `trx.h`, which promises commit and rollback
but no control of concurrent access. It leaves out what breaks the promise:
deletion of a row of the same transaction (the counterexample of
`trx_rollback`); `UPDATE` inside a transaction (the counterexample of the same
run when the `delete_record` disjunct of `Transactional` is taken out);
connections that close inside a transaction, whose marks stay; and `LOAD DATA`,
which writes without a transaction. `IndexKept` says nothing of the `CREATE INDEX`
step itself, which indexes only the rows its session sees. Two slots are enough for a statement that fails half-way,
a stale operation on a slot that another session has taken, and two
transactions that delete the same row; three transactions let a third session
meet what two have left.

## 4. What is proved

`SedaPoolProofs` proves, for every finite set of threads, any set of stages and
any set of events:

* `TypeCorrect`: `Spec => []TypeOK`;
* `ReferenceCounting`: `Spec => []RefCountsOutstanding`;
* `NoAssertionFails`: `Spec => []AssertionsHold`;
* `DisconnectIsSafe`: `Spec => []DetachedIsQuiescent`;
* `DestructorIsSafe`: `Spec => []PoolDestroyedEmpty`.

The assumptions are those of `SedaPool`: the sets of threads are finite and
disjoint, and the names of the kill stage and of the kill and null events are
not among the others.

None of these is inductive. `IInv` adds what the code keeps true between its
critical sections: the length of a connected stage's event list is the number
of its tokens (places in the run queue, calls of `schedule` on their way, threads
that have popped it, and the backlog of a `connect` in progress); a stage that
is not connected and has nothing outstanding is not attached except while
`Admin` is in its `disconnect`; `n_idles` counts the threads that are asleep or
just woken; the kill events on their way, plus the threads that have died, make
up the number of threads; and, for each program point of `Admin`, what it has
already done. Counting is done with cardinalities of sets of threads and of
positions in the run queue; `SedaPoolInvariant` has the lemmas on how one
append, one removal and one change of `pc` change each count.

`TrxProofs` proves, for any sets of sessions and keys and any number of slots and
transactions:

* `IndexNeverDangles`: `Spec => [](TypeOK /\ IndexSound)`;
* `IndexIsKept`: `Spec => IndexKept`;
* `IndexStaysComplete`: `IndexedSpec => []IndexComplete`.

The assumptions are that the bounds are natural numbers and that `NoRow` is
neither a row nor a key. The invariant is `TypeOK /\ IndexSound`, with
`IndexComplete` for the last theorem. Each statement computes new rows, entries
and operations; lemmas show that what it computes is sound (and complete), and
that keeping, committing and rolling back carry soundness and completeness over.

Only model-checked: `NoStrandedWork`, the liveness properties, the refinement of
`AtomicTable`, and everything about the buffer pool. Liveness under fairness is
outside of what the proof system does.

## 5. Not modelled, and the plan

Next, in this order:

1. `BufferPool` proofs: an inductive invariant for `SteadySpec`, then the
   refinement of `PageStore`.
2. Tables: unique indexes, whose entries are never removed, scans by an index
   while it changes, rows of several pages, restart with rows of transactions
   that never ended; a proof that `SerialSpec` implements `AtomicTable`.
3. `BplusTree`: insertion with splits, deletion with merging and moving of
   entries, scans, as operators on nodes, against a set of entries; reopening.
4. `RecordFile` over `PageStore`: slots, the search for a page with room, scans
   with deletions in between.
5. `TimerStage`, `Server` with `SessionStage`: cancellation against expiry, close
   against answer.
6. Joins and aggregation of the executor as operators.

Left out for good: the generated parser, formatting and logging, the metrics
(nobody reads them), configuration and command line, and the client. Data races
on the buffer pool (it has no lock) are not modelled: its functions are atomic.
