# Squaero: a verification development

TLA+ models of Squaero, the TLC runs that check them on small instances, and
machine-checked proofs about the core and the frontend. Paths are those of the repository, under
`src/`. Every definition is translated from the source; `PROJECT.json` names,
for each one, the file and lines it stands for.

Contents: [1 the system](#1-the-system) ·
[2 the plan](#2-the-plan) · [3 the modules](#3-the-modules) ·
[4 the runs](#4-the-runs) · [5 fairness](#5-fairness) ·
[6 the proofs](#6-the-proofs) · [7 where code and comments disagree](#7-where-code-and-comments-disagree) ·
[8 not modelled](#8-not-modelled)

## 1. The system

Squaero is a desktop database client. A page (SolidJS, `frontend/src`) runs in
a webview. It talks JSON-RPC to a native shell (`app/src/main.cc`), which links
a C core (`core/src`) that loads one driver plugin per engine (`drivers/`).

```
 page:  editor, grid, wizards ── call() ── quaeroRpc(json)
                                               │            ▲ webview_dispatch
 shell, UI thread:   rpc_handler ──────────────┼── g_rpc_jobs
                        │ op.cancel only       ▼            │
 shell, RPC worker:     │             rpc_worker_loop ──────┘
                        ▼                      ▼
 core:          op registry (mutex)     dbcore_ipc_handle ── conn manager
                        │ cancel hook          │
 driver:                └────────► dbc_conn ◄──┘ query, next_row, begin …
```

| Part | State it keeps | Operations | Interacts by |
|---|---|---|---|
| Bridge and worker, `app/src/main.cc` 155-338, 2462-2484 | job queue, stop flag, posted answers | submit, take a job, post an answer, cancel inline, close the window | queue with mutex and condition variable; `webview_dispatch` |
| Dispatcher, `core/src/ipc/dispatch.c`, `conn_lost.c` | none; reads the transaction flag before a method | run a method, build its answer, say whether a retry is safe | calls |
| Connection manager, `core/src/conn/manager.c` | array of slots: id, driver handle, tunnel, cursor, transaction flag | open (tunnel, connect, store), close, get, set and take the cursor, set the flag | the worker's calls; read by `op.cancel` |
| Op registry, `core/src/query/op_registry.c` | table of running statements, mutex | begin, end, cancel | both threads |
| Query methods, `ipc/query_methods.c`, `query/materialize.c`, `query/run.c` | the cursor of a connection | run, next, cursorClose | driver vtable |
| Transaction methods, `ipc/tx_methods.c`, `query/tx.c` | the flag of a slot | begin, commit, rollback | driver vtable |
| Grid pager, `App.tsx` `run`, `nextPage`, `pageBy`, `reloadCurrent`; `utils/gridPaging.ts` | per tab: pages fetched, offset, "a cursor is open" | run, turn the page, refresh | awaits on `query.run`, `query.next` |
| Reads to the end, `utils/query.ts` `drainQuery`, `drainCursor`; `App.tsx` `runExport` | rows so far, abort signal | export, backup, transfer, compare, cancel | awaits, same connection as the tabs |
| Manual transactions, `utils/txMode.ts`, `App.tsx` `runTx`, `endTx` | per connection: mode, open or not, list of statements | run a statement, commit, roll back, change mode | awaits; shared by the tabs of a connection |
| Row editing, `App.tsx` `beginEdit`, `applyEdit`, `discardEdit`; `utils/editApply.ts`, `utils/edit.ts` | pending changes, the transaction it holds | begin, apply, retry, discard | awaits, same connection |
| Reconnection, `utils/transport.ts`, `utils/reconnect.ts`, `App.tsx` 2319-2443 | open connections, lost flags, retry timer | mark lost, replace the session, retry a call | awaits, timer |
| Write consent, `utils/safeMode.ts`, `utils/transport.ts`, `utils/conn.ts` | guard and consent count per connection | ask, allow, drop | awaits |
| SSH tunnel, `core/src/conn/ssh_tunnel.c` | forwards table, one thread | accept, pump, drop, stop | sockets, a thread |
| Statement classifier, `core/src/query/stmt_class.c` | none | read, write or several | pure |
| Introspection cache, `utils/metaCache.ts`, `ObjectTree.tsx`, `App.tsx` 1325-1436 | entries with stale marks, order of use, what local storage has of it; columns of the autocomplete | load, evict, mark stale, flush, restart | awaits, behind every other call |
| Edit plans, `utils/editSession.ts`, `utils/rowPaste.ts`, `core/src/query/edit.c` | pending changes by row index, batches of new rows | change, revert, delete, add, paste, build the plan | the grid; the plan goes to row editing |
| Tabs, saved session and local history, `utils/tabs.ts`, `utils/tabsStore.ts`, `utils/localHistory.ts`, `App.tsx` 621-636, 1288-1310, 3645-3708 | tabs with the counter of their ids, the session put off, versions per tab id | open, copy, bind, pin, close, type, run, save, start, resume, discard | effects on the tab signal, a one second timer, local storage, which may refuse a write |

What is hard in it:

* **Two threads in the core.** Everything runs on the worker, except `op.cancel`,
  which the UI thread dispatches while the worker may be inside the same driver
  handle, may be ending the statement, or may be about to close the connection.
* **Ownership in C.** A driver handle, a tunnel and a cursor pass between local
  variables and slots over a dozen error paths.
* **One session, many tabs.** Cursor, transaction and indicator belong to the
  connection; tabs, exports, backups and edit sessions share it without a lock,
  each a chain of awaits.
* **Data kept by a name that moves.** Pending changes by row index, versions by
  tab id, cache entries by connection, guards and consents by session id; each of
  those names can come to mean something else.
* **Failure.** Sessions die in the middle of anything; commits fail; the user
  cancels between two pages; the window closes with calls queued.

What makes each part correct, in short: objects have exactly one owner, are
released in order and never twice; calls are answered once, in order; the
transaction flag never misses a transaction; a cancel reaches the statement it
was meant for; a retry never repeats a write; a page, a file or a backup has
the rows of its own statement, all of them, once; what the user is told about
a transaction or an edit is what the server did. `PROJECT.json` "hazards"
lists, line by line, where each of these could go wrong.

## 2. The plan

| # | Modules | State |
|---|---|---|
| 1 | `RpcCore`, abstract `RpcService`, `RpcCoreInv`, proofs | done, proved, refinement included |
| 2 | `Paging`: pages, cursors, exports, backups on the FIFO service of 1 | done for query tabs |
| 3 | `Transactions`: editor transactions and edit sessions on the FIFO service of 1 | done for engines with transactions |
| 4 | `Reconnect`: `call`, `replaceSession`, retry timer, connect and disconnect, guard and consent | done for one saved connection |
| 5 | `GridEdit`: pending changes, plan, preview, application with and without transactions | done |
| 6 | `MetaCache`: the cache, loads, DDL, flush and restart | done but for the tools |
| 7 | `Tabs`: tabs, saved session, local history over restarts and crashes | done but for the limits of age and size |
| 8 | proofs: `PagingProofs`, `TransactionsProofs`, `ReconnectProofs`, `GridEditProofs`, `MetaCacheProofs`, `TabsProofs` | done: every invariant of a passing run is a theorem |
| 8b | proof of `CommitIsShown` (`GridEdit`) | later |
| 9 | `SshForward`: the forward table and its pump | later |
| 10 | `StmtClass`: the classifiers of `stmt_class.c` and `txMode.ts` as functions, against a reference | later |

Composition: `Paging`, `Transactions`, `Reconnect` and `MetaCache` rest on what
`RpcService` promises (first in, first out; one effect per call; every call
answered), which `RpcCore` is shown to implement. `Reconnect` takes
`NoBlindRetry` of `RpcCore` as what the core's `retrySafe` means
(`RetrySafe`). `GridEdit` takes from `Transactions` that an edit session with a
transaction is applied as a whole or not at all (`EditIsWhole`) and adds what
the statements are.

What is left to prove is `CommitIsShown` of `GridEdit`, which relates a whole
plan to the table it is applied to: an invariant that says, for each item still
to run, what is already in the transaction and what the grid still promises.

## 3. The modules

### RpcCore: the native side

State and its code:

| Variable | Code |
|---|---|
| `queue`, `stop` | `g_rpc_jobs`, `g_rpc_stop` (main.cc) |
| `outbox` | answers posted by `webview_dispatch`, not yet delivered |
| `sent`, `unanswered`, `known` | promises of the page and ids it was given |
| `ui` | what the UI thread is doing: idle, inside `op.cancel`, closing |
| `wpc`, `job`, `txBefore`, `wh`, `wr`, `wt`, `wst` | where the worker is, and the locals of the method: request, flag read by `dbcore_ipc_handle`, handle, result, tunnel, status |
| `slots`, `cap`, `nextId` | `dbcore_conn_manager` |
| `ops` | the entries of the op registry |
| `hs`, `rs`, `resOf`, `ts`, `engTx` | the engine (external): sessions, results, tunnels, the transaction at the server |

A step of the worker ends where somebody else can act: at the dequeue, around
every driver call, around the registry's lock. `conn.open` is four steps
(`OpenStart`, `OpenTunnel`, `OpenConnect`, `OpenStore`, and `OpenNoMemory` for a
failed allocation), a statement is `RunStart` or `NextStart`, `OpBegin`,
`DriverQuery`, `Materialize`, `OpEnd`; `conn.close` is `CloseStart`,
`CloseDisconnect`, `CloseRelease`. A connect that fails may return a handle in
an error state, which is disconnected; every allocation may fail (the answer
`"other"`). `SessionDies` is the environment. Objects are named by the request
that created them, so a double release or a use after release is visible.

`NoBlindRetry` looks at an answer together with the request the page still
waits for: an answer that offers a retry belongs to a `query.run` of a statement
that reads, and no transaction was lost with its session. The classifier that
says what reads (`stmt_class.c`) is an input of the request.

`RpcService` is the abstract specification: calls take effect one at a time in
the order they were made. `ServiceSpec` in `RpcCore` is `RpcService` with the
worker's request and queue as the calls, the posted answers as the answers and
the ids in the slots as the open connections.

Abstracted: the parameters of a method (one nondeterministic refusal stands for
every validation error), the rows, the JSON. `realloc` is one step.

### Paging: pages, exports, backups

One request is served at the moment its answer is delivered: a single step
`Answer` runs the core's handler on the oldest request and then the code after
the `await`, up to the next one. This loses nothing: answers come back in
order, no other call changes a cursor, and the frontend is single-threaded.

`tab` is `results[id]` (`pages`, `offset`, `cursor`, what is shown, loading),
`cur` the core's cursor per connection, `walk` the loop of an export or backup,
`execs` and `asked` are history: the statements the engine executed and what
the user asked for. A row is the execution it came from and its number, so rows
of another statement, of another execution, missing rows and repeated rows are
all told apart. `Run`, `PageTurn`, `Refresh`, `Export`, `Backup`, `Cancel` are
the user; `Export` is `runExport` up to its `await`, `Picked` what it does once
there is a file (the page to export is the one read before, the pages and the
cursor are those the tab has now), `Dismissed` the dialog closed; `RunAnswered`, `PageAnswered`, `FirstAnswered`, `MoreAnswered`,
`RestAnswered`, `ClosedAnswered` are the continuations of `run`, `nextPage`,
`drainQuery`, `drainCursor` and its `finally`. The save dialog is native and
modal: while one is up the user does nothing else (`NoDialog`), but answers
arrive. `Patient` restricts the user to one read of a connection at a time;
`CanFail` lets statements fail.

`WalkIsWhole` says of every export or backup of a read that ends well that it
has the rows of one execution, once, in order and to the last one. They begin
with the first but in one case, which the field `skipped` states: «export all»
of a tab that holds nothing but the last page, refreshed on its own, saves that
page and leaves out the `skipped` rows in front of it (section 7).

### Transactions: manual mode and row editing

One connection, several tabs. `ui` is `txs[connId]`; `ed[t]` the statement a
tab is running in `runInTx`, with `cur` the snapshot its code carries across
its awaits; `es[t]` the edit session of its grid; `flag` the core's `in_tx`;
`eng` and `db` the open transaction at the server with its writes, and the
writes committed. `Kinds` are the classes `planStatement` tells apart: a plain
read, a write, a typed BEGIN, BEGIN with options, COMMIT, ROLLBACK, and DDL
that commits by itself (MySQL). `Rejects` says whether a failed `tx.*` rejects
in the page: `edit.ts` drops the answer, so it never does. `Turns` restricts
the user to one thing at a time on the connection (section 7 says what happens
without it); `TxFails` lets the server refuse a begin or a commit.

### Reconnect: one saved connection and the sessions it goes through

| Variable | Code |
|---|---|
| `entry` | the element of `openConns()`: session, lost, reconnecting, retry due |
| `connecting` | `connectingId()` |
| `guard`, `consent` | the maps of `transport.ts`, per session |
| `uiTx` | `txs[connId].open` |
| `repl`, `waiters` | `replacing`: pending or resolved, and the calls awaiting it |
| `calls` | history: each call with its kind, how the user allowed it, how often it ran, how it ended |
| `queue`, `core` | requests not answered; slots of the core and the server's side of each session |
| `heir` | history: which session took over from which |

`Connect`, `Reconnect`, `Disconnect` are the user, `MakeCall`, `StopCall`,
`Confirmed`, `Declined` a call and the guard in front of it, `CallServed`,
`CallRefused`, `CallLost` its answer with everything `call` and the listener
of `App.tsx` do with it, `ReplaceAdopts`, `ReplaceTooLate`, `ReplaceFails` the
three ends of `replaceSession`, `Timer` the retry, `SessionDies` the server.
When a session dies under a call the call was executed or not. Time is left
out: a retry is due at some moment.

### GridEdit: pending changes and their plan

The table has a key column and one more; a row has an identity the program
does not see, so «the row the user changed» can be told from «the row with
that key». `pend` is the pending set of `editSession.ts`, one operator per
function of that file; `plan` what `buildPlan` makes of it; `db`, `work`,
`locks` the table as committed, as the transaction sees it, and the keys it
has written. `Staged` is any change of the user: cells, deletions, reverts, and
batches of new rows (duplicates of rows of the page, rows copied from another
table, pasted text) with what a batch does with its key and its empty cells.
`ConfirmEdit`, `Previewed`, `CancelPreview` are the preview, `ApplyRefused` a
write consent that is denied, `ApplyEdit`, `ItemRuns`, `ItemFails`, `Commit`
the application, `CommitRefused` a `tx.commit` the server refuses and undoes,
which the page takes for a success (`edit.ts:266`), `Foreign` another session.
`CommitIsShown` is said of the sessions whose transaction got into the table.
`Patient` says the user does not run the query of the tab again while editing.

### MetaCache: levels of the tree and columns

`cache`, `lru`, `kv` are the store, its order of use and what local storage
has; `queue` and `served` the calls on their way, executed up to `served`;
`catalog` the version of each list at each server; `names` and `described` the
columns of the autocomplete. A version number stands for a list; the listing
grows with it, so it may outgrow the cap. `untold` is history: changes nobody
told the cache of, for which it promises nothing.

### Tabs: strip, saved session and local history

`ws` is `TabState`, `disk` the saved workspace, `pending` and `deferred` the
offer to resume it, `timer` the save that is due, `hist` the versions in the
window, `stored` those in local storage, `warned` whether the user was told that
the last history was not stored. Each function of `tabs.ts` and
`localHistory.ts` is an operator; every action of the user goes through
`Become`, which is `setTabs` with the two effects that watch it. A tab has a
`doc` that is never given twice, whatever its id.

A version is kept of a text that is neither blank nor over `MAX_VERSION_CHARS`
(`Big`), and only with the history on (`MaxVersions # 0`): `Recordable`. Local
storage may refuse a write: of the history (`Records`: the window goes on with
what it has, and the user is told once) or of the session (`SaveWorkspace`:
nobody is told, and nothing tries again before the next change). A write it
accepts is durable. At the start, the retention of the history is applied
without a change to it, so its write is left out.

`Settled` says no save is lost: the application is not hidden or left while a
save is due that its flush would give up (the offer up or put off), not killed
while one is due, and does not end after the store refused the session.
Leaving with a save due is allowed, and is what `ClosedTextIsKept` is about: it
is the flush that writes. `LeavesTab` says the application does not end with a
saved session that has no tabs while versions are stored.

### Subsequences, SequenceFacts and the proof modules

`Subsequences` defines `Only`, the `filter` of an array, as a recursive function,
so that it can be reasoned about (the provers know nothing of `SelectSeq`);
`Reconnect`, `GridEdit`, `MetaCache` and `Tabs` use it. `SequenceFacts` has the
lemmas about it and about the number of places of a sequence that hold an
element of a set (`Count`). `RpcCoreInv` and `RpcCoreProofs` belong to
`RpcCore`; `PagingProofs`, `TransactionsProofs`, `ReconnectProofs`,
`GridEditProofs`, `MetaCacheProofs` and `TabsProofs` each state the inductive
invariants of their module, then one lemma per action, then the theorems.

### MC modules

`MCRpcCore`, `MCPaging`, `MCTransactions`, `MCReconnect`, `MCGridEdit`,
`MCMetaCache` and `MCTabs` give the constants of the runs, and the property
only a violation run of the core checks.

## 4. The runs

| Run | Checks | Instance |
|---|---|---|
| `core` | `TypeOK`, `NoDangling`, `NoSharing`, `NoLeak`, `ReleaseOrder`, `CancelReachesRunningQuery`, `DriversOutliveCalls`, `TxFlagCoversEngine`, `NoNestedBegin`, `NoBlindRetry`, refinement `ServiceSpec`, `EveryCallAnswered`, `ShutdownCompletes` | 3 calls of every kind, 2 queued, array of 1 that grows, SSH, cursors, `FairSpec` |
| `core_cancel_target` | `FinishedQueryIsNotCanceled`, violated | 3 calls |
| `paging_own` | `PageIsOwn`, `CacheIsOneExecution`, `WalkIsWhole` | one tab, one walk, results of 3 and 5 rows, pages of 2, 6 statements, `Patient`, failures |
| `paging_shared` | `NoSilentRerun`, `ReadsEnd` | two tabs and a walk, any order, a statement that writes, 3 statements |
| `paging_two_tabs` | `PageIsOwn`, violated | two tabs, `Patient`, no failures |
| `tx_turns` | `IndicatorIsEngine`, `LogIsTransaction`, `EditIsWhole`, `ManualWritesWait`, `FlowsEnd` | two tabs, every kind of statement, 3 runs, 2 items, 2 tries, `Turns` |
| `tx_failed_commit` | `FailureSurfaces`, violated | `Turns`, the server may refuse a commit |
| `reconnect` | `NoOrphanSession`, `WritesWereAllowed`, `ConsentIsScoped`, `NothingRunsTwice`, `NoTxDiesSilently`, `CallsReturn`, `LostIsReopened` | 3 sessions, 2 calls of 7 kinds, 2 deaths, 2 moves of the user, every safe mode, `Patient` |
| `grid_edit` | `ChangesHitTheirRow`, `CommitIsShown`, `NoInsertTwice` | 3 keys, page of 2 rows, 3 changes, batches of up to 2 rows, 1 write of another session, with and without transactions |
| `meta_cache` | `TypeOK`, `FreshIsTrue`, `NamesAreTrue` | 2 connections, 2 servers, cap of 4, 2 versions, 2 calls on their way, 5 moves |
| `tabs` | `VersionsAreOwn`, `ClosedTextIsKept`, `OneTabPerThing`, `OfferIsKept` | 2 tabs, 1 pinned, 1 restored, 1 version each, one connection, two texts, which may be permuted, a store that refuses writes while at most one tab was opened, `Settled`, `LeavesTab` |
| `tabs_reused_id` | `VersionsAreOwn`, violated | the same with one of the texts too big for the history, no pins, a store that takes every write, without `LeavesTab` |

Why the bounds are enough to be interesting. *Core*: three calls are open, begin
(or a cursor) and one that meets what it left; two queued calls let a cancel, a
close and a statement of the same connection overlap; a first array of one slot
makes the growth path run. The core's invariants do not rest on the bounds:
they are theorems (section 6). *Paging*: five rows in pages of two give a first,
a middle and a short last page; three rows in pages of two a full page and a
short one; six statements allow run, lost cursor, fallback, refresh, export and
restart in one behaviour. *Transactions*: three runs are a transaction opened,
used and ended, or an edit session with statements around it; two items and two
tries are a failure after one item and its retry. *Reconnect*: two calls are
the two that meet one dead session, or a call and the one whose consent covers
it; three sessions with two deaths are a session that is replaced and dies
again, or two replacements of one session, by a call and by the timer; two
moves are a connect and whatever the user does in the middle. *GridEdit*: a
page of two rows and a key outside it; three changes are an edit of a key onto
that of a row deleted before, a batch of two rows with its key kept or generated,
and a change reverted. *MetaCache*: a listing that outgrows the cap of four,
two servers one connection is moved between, and a load and a DDL on their way
at once. *Tabs*: with one tab restored of two the limit on restored tabs is met, and
with two texts typed in turn that on versions; two tabs are one that is closed
and one that could take its id, or a thing and its copy; a store that refuses
writes until a second tab is opened is one that recovers. A text too big for
the history, the history off, several versions and a store that never recovers
are not in the run, which would outgrow its time: its four properties are
theorems for any number of tabs, texts, big texts, versions and refusals.

`MaxRequests`, `MaxQueue`, `MaxExecs`, `MaxRuns`, `MaxTries`, `MaxSess`,
`MaxCalls`, `MaxDeaths`, `MaxMoves`, `MaxOps`, `MaxBatch`, `MaxWrites`, `MaxVer`,
`MaxTabs`, `MaxDocs`, `MaxPinned` and `MaxRefused` only bound what the users and the environment of the
models do; `Cap`, `MaxRestored` and `MaxVersions` are limits of the code made
small. Except in the core, deadlock is not checked: a user who has nothing more
to ask is the end of the behaviour.

`paging_own`, `tx_turns`, `reconnect`, `grid_edit` and `tabs` restrict the user
(`Patient`, `Turns`, `Settled`, `LeavesTab`) because the code keeps its promises
only then; section 7 says what happens otherwise.

Every property of a passing run has a mutant in `PROJECT.json`: a definition
of the model changed the way a plausible bug would change its code, which the
run must then refute. The mutated operators stand next to the originals, marked
`mutant`.

## 5. Fairness

* `RpcCore`: weak fairness of the worker's steps and of the two halves of
  `op.cancel`, since both threads are scheduled and a driver call returns (the
  shell's shutdown joins the worker, so it relies on that too). Strong fairness
  of `OpBegin`, `OpEnd` and `Deliver`, which compete with the clicks of the
  user for a mutex and for the event loop: nobody cancels often enough to
  starve them. Nothing makes the frontend call, or the user close the window.
* `Reconnect`: weak fairness of `Answer`, as below, and of `Timer`, which is a
  `setInterval` of one second. Strong fairness of `ReplaceEnds`, for
  `LostIsReopened` alone: of the attempts to reach a server, asked for ever, one
  succeeds. Without it a server that never comes back is retried for ever, as it
  should be. Deaths are bounded, so that success lasts.
* `GridEdit`, `MetaCache` and `Tabs` claim no liveness and state no fairness.
* `Paging`, `Transactions`: weak fairness of `Answer` alone, which is
  `EveryCallAnswered` of `RpcCore`. No user action is fair.

## 6. The proofs

Every invariant that a passing run checks is a theorem, and so are the action
properties `OfferIsKept`, `ClosedTextIsKept` and `ManualWritesWait` and the refinement `ServiceSpec`.
Every theorem is for every value of the constants. Except where a hypothesis is
named, the only assumption is `ConstantsAssumption` of the module (bounds are
numbers, sets of kinds are kinds of the code).

### The core

`RpcCoreProofs` proves `Invariance == Spec => []IInv` and, from it, the eleven
theorems below, for every number of requests, queue length,
slot array, registry size and set of kinds.

| Theorem | Property |
|---|---|
| `TypeCorrect`, `NothingDangles`, `NothingShared`, `NothingLeaks`, `ReleasedInOrder` | `TypeOK`, `NoDangling`, `NoSharing`, `NoLeak`, `ReleaseOrder` |
| `CancelHitsLiveHandle` | `CancelReachesRunningQuery` |
| `FlagNeverMisses`, `BeginNeverNests` | `TxFlagCoversEngine`, `NoNestedBegin` |
| `RetryIsSafe` | `NoBlindRetry` |
| `DriversLast` | `DriversOutliveCalls` |
| `ThreadsAreOneService` | `ServiceSpec`: `RpcCore` implements `RpcService` |

None of the ownership properties is inductive: that a cursor in a slot is open
says nothing of the cursor the worker has just taken out of one. `IInv`
(module `RpcCoreInv`) adds:

* `JobInv`: requests are handled in the order of their numbers, and each
  program point belongs to certain methods and to a connection that is open;
* `Fresh`: a request that has not started has created nothing, which is why a
  new session, tunnel or result cannot be one that is already owned;
* `LocalsInv`: what the worker's locals hold at each program point: the handle
  is that of the connection named, the result is out of the slot between taking
  it and putting it back, the tunnel is held only while opening or closing;
* `SlotsInv`: ids are below the next id; the objects of a slot are those of one
  `conn.open`, so two slots share nothing;
* `TxInv`: the flag covers the engine, and a `tx.begin` that reached the driver
  saw the flag clear.

The proof has one lemma per action (`OpenConnectStep`, `DriverQueryStep`, …),
each with one step per conjunct the action disturbs; the lemmas on slots
(`StoreShape`, `CursorUpdate`, `DropCursor`, `MySlotData`) carry the array
reasoning. `RetryIsSafe` needs a second invariant, `RetryInv`, on top: a
transaction flag read before a statement still tells, while it runs, that no
transaction was open, and a posted answer that offers a retry names a session
that is dead and lost no transaction; dead sessions open no more
(`DeadStays`). A third, `AskInv`, says who asked: what is queued, being handled
or answered and not delivered is still waited for, each call once, and an answer
that offers a retry is of a `query.run` of a read. `DriversLast` needs `ShutInv`.

`ThreadsAreOneService` is a refinement proof by steps. The initial states map
to the initial state of the service; `Submit` is its `Call`, `Deliver` its
`Collect`, every step that posts an answer its `Serve`, and all others leave
what the service sees alone: taking a job moves it from the queue to the hands
of the worker, and `Pending` is both. Beyond `IInv` it needs `SvcInv`: `txBefore`
still tells the flag of the connection when the answer is built (`FlagRead`), so
the `connLost` data are those of the moment the call takes effect; ids are given
out before anybody names them (`Given`). The modules of the frontend rest on
this theorem, because they take the core to be the service.

### The frontend

| Module | Theorem | Property | Hypothesis |
|---|---|---|---|
| `PagingProofs` | `SilentRerunNever` | `NoSilentRerun` | |
| `PagingProofs` | `PagesAreOwn`, `CacheOfOneExecution`, `WalksAreWhole` | `PageIsOwn`, `CacheIsOneExecution`, `WalkIsWhole` | `OwnConns` |
| `TransactionsProofs` | `BandIsTrue`, `BandListsTheWork`, `SessionsAreWhole`, `ManualModeHolds` | `IndicatorIsEngine`, `LogIsTransaction`, `EditIsWhole`, `ManualWritesWait` | `OneAtATime` |
| `ReconnectProofs` | `RunsOnce`, `OnlyAllowedWrites`, `ConsentEnds`, `TxDeathIsTold` | `NothingRunsTwice`, `WritesWereAllowed`, `ConsentIsScoped`, `NoTxDiesSilently` | |
| `ReconnectProofs` | `NoOrphan` | `NoOrphanSession` | `Patient` |
| `GridEditProofs` | `NewRowsOnce` | `NoInsertTwice` | |
| `GridEditProofs` | `ChangesOnTheirRow` | `ChangesHitTheirRow` | `Careful` |
| `MetaCacheProofs` | `CacheWithinCap`, `FreshEntriesAreTrue`, `OfferedNamesAreTrue` | `TypeOK`, `FreshIsTrue`, `NamesAreTrue` | |
| `TabsProofs` | `SavedSessionStays`, `OneTabForAThing`, `ClosedTextStays` | `OfferIsKept`, `OneTabPerThing`, `ClosedTextIsKept` | |
| `TabsProofs` | `VersionsOfOneTab` | `VersionsAreOwn` | `Settled /\ LeavesTab` |

The hypotheses are conditions on the constants that the runs of section 4 meet
as well, and they are needed: the code breaks the properties without them.

* `OwnConns` is `Patient` and no two tabs on one connection; an export or a
  backup may share the connection of a tab, and in `paging_own` one does. Two
  tabs on one connection show each other's rows (run `paging_two_tabs`).
* `OneAtATime` is `Turns` and a server that refuses no begin and no commit (run
  `tx_failed_commit`, section 7).
* `Patient` of `Reconnect` is a user who does not leave a connection while it is
  being reopened (section 7). The four theorems of `Reconnect` without a
  hypothesis hold for impatient users too.
* `Careful` is a user who does not run the query of the tab again while editing,
  and other sessions that delete no rows: pending changes are kept by row index
  and statements by key, and the count of affected rows is not looked at
  (section 7). `NewRowsOnce` holds for impatient users and deletions too.
* `Settled /\ LeavesTab`: no save of the session is lost (to a crash, to a flush
  that does not write, to a store that refused it before the end), and the
  application does not end with a saved session that has no query tab (run
  `tabs_reused_id`). The other theorems of `Tabs` hold through crashes at any
  moment and for any store. `ClosedTextStays` says in its statement what the code
  gives up by design: a text that is blank or too big, the history off, what the
  user was warned of, a session write that was refused.

The invariants, the first of a module called `IInv`, and why the property alone
is not inductive:

* *Paging*: how often a statement was executed says nothing of the runs still in
  the queue. `Accounted` adds them: executions and queued runs of a statement
  that may write never exceed what the user asked for. `Sound` says that every
  request made without the user (a fallback, a re-read, a backup) is of a
  statement in `Reads`. What the grid shows depends on where a cursor nobody sees
  is standing: `JInv` says, connection by connection (`Local`), that the cursor is
  just behind the pages its tab keeps (`TabCursor`), unless a walk is going through
  it, and then just behind the rows of the walk (`WalkAt`); that a request on its
  way is what its sender is waiting for (`Fits`); and that there is one request and
  one reader at a time on a connection (`OnePerConn`).
* *Transactions*: with one call under way, `Turn` says whose it is and where that
  flow stands (`AtVerb`, `AtBegin`, `AtQuery`, `AtImplicit`, `AtStep`); `Server`
  what is open at the server at each of those points; `Listed`, `GridWork` and
  `Writers` what has been written inside the transaction; `Runs` and `Ledger` that
  the number of a session is its own, so that retrying it does not count twice.
* *Reconnect*: `Fenced` is the reason no write slips past the guard: when the
  guard of a session is taken off, its close is already in the queue, in front of
  whatever is sent afterwards (`ClosedBefore`). `CallsOk` counts the runs of a
  call that has not been answered; `Waits` and `Queued` say it is in one place at a
  time; `EntryOk` and `Replaced` that a session is reopened only when no
  transaction died with it or a call has said so (`Settled`, `Known`).
  `NoOrphan` adds `Orderly`: under `Patient` one `Connect` at most is on its way, made
  when the page has no session, and a session the user leaves has no replacement
  in front of its close.
* *MetaCache*: an answer on its way may already be old. `LoadsAreTrue` says that
  behind it comes the answer to the DDL that will mark it; `Fresh` says the same of
  entries and `Named` of columns; neither cares which entries go. `Within` is the
  other half: the entries that `putEntry` gives up are enough, because giving up
  all the others leaves the new one, which fits (`OneEntry`, `VictimsFit`); and the
  order of use lists every entry once through each reordering (`Orders`), in memory
  and as stored. The size of the cache is the number of its cells, so that the
  library's facts about cardinality replace an induction over a sum.
* *GridEdit*: that no row is in the table twice says nothing of the rows still to
  be inserted. `IInv` adds that every pending row has an identity of its own
  (`Tidy`), that none of them is in the table while the plan can be tried again
  (`Intact`: nothing applied, or applied in a transaction that is rolled back), and
  that the items still to run insert each of them once (`Applying`). `JInv` adds
  that the page still shows the committed rows (`Screen`) and that each statement
  still to run names the key under which its row is in the transaction (`Aimed`).
* *Tabs*: while the offer waits, nothing is due to be saved and nothing would be
  worth it (`NothingDue`). `SInv` says the same thing of the four strips there are
  (shown, offered, due to be saved, on disk): no id and no object twice (`Strips`),
  and that the history has one list per id, newest first, and is the stored one
  unless the user was warned (`Histories`). `OInv` adds that an id is of one tab over
  all of them and both histories (`OneDoc`), and that the counter that comes back at
  the next start is over every id that has a version, unless the last session was
  refused and nothing is due (`Ahead`, `Due`).

Facts about `Only` and `Count` are inductions over the length of a sequence. The
provers cannot instantiate an induction theorem that takes an operator, so
`SequenceFacts` derives from the well-foundedness of the numbers that every
non-empty set of them has a least element (`LeastNumber`) and from it induction
over a set (`InductionOnSets`), which is first-order.

### Only model-checked

* All liveness (`EveryCallAnswered`, `ShutdownCompletes`, `ReadsEnd`, `FlowsEnd`,
  `CallsReturn`, `LostIsReopened`): fairness and ENABLED are out of the provers'
  reach.
* `GridEdit.CommitIsShown`: not attempted (section 2).

## 7. Where code and comments disagree

Four have a violation run with its counterexample.

* `core_cancel_target`: a cancel names a connection; sent as its statement
  ends, it hits the next one queued on that connection.
* `paging_two_tabs`: after another tab queried the same connection, «Next»
  shows the other tab's rows: `query.next` finds a cursor, just not the tab's.
* `tx_failed_commit`: a refused `tx.commit` is not noticed by the page.
* `tabs_reused_id`: a saved session without query tabs is read back as none,
  the counter of ids is lost with it, and a new tab gets the id, and so the
  versions, of an old one (`tabs.ts:538`, against `localHistory.ts:9-10` and
  `tabs.ts:140-142`).

The others were met while modelling and are recorded here without a run. Where
nothing else is said, a restriction (`Patient`, `Turns`, `Settled`) or a choice
of constants keeps them out of the passing runs.

*Core.* `op.cancel` reads the connection manager's slots on the UI thread
without a lock (`ipc/dispatch.c:70`) while `conn.open` may be reallocating
them. A session that dies while rows are read is answered as a query error
without `connLost` (`query/materialize.c:114`, against `docs/IPC.md` 555-571).
Row changes are not registered as running statements, so a cancel during one
finds nothing (`query/edit.c:21`).

*Paging.* `drainQuery` has no fallback for a lost cursor: a query of a tab on
the same connection in the middle of a backup makes it fail, or leaves its own
cursor there, whose rows are joined to the backup (`query.ts:165`, against
`query.ts:139-142`); `Patient` excludes that query, so no run shows it. An
export of everything after the last page was re-read on its own (a refresh
there) saves that page only: the page is not truncated and the cache does not
begin with the first one (`App.tsx:4841`, against `App.tsx:4786-4790`). This
one no restriction excludes: `paging_own` reaches it, and `WalkIsWhole` and its
theorem state it, in `skipped`: such a file lacks that many rows at its
beginning and no others.

*Transactions.* A write another tab runs in auto mode while a grid of the
connection is being edited is reported committed (`App.tsx:2837`, 472) and
belongs to the edit's transaction, so «Descartar» rolls it back. A commit that
is refused leaves the edit session closed as if it were applied (run
`tx_failed_commit`; `CommitRefused` in `GridEdit`). A COMMIT in
flight from one tab and a write from another in manual mode leave the write
committed and the band showing a transaction that does not exist
(`txMode.ts:174`).

*Reconnect.* Nothing repeats the USE of `selectDb` (`App.tsx:2504-2508`) after
`replaceSession`: a read that is re-sent is answered from the default database
while the page shows the chosen one (against `dbContext.ts:2-5`). A user who
disconnects or reconnects while a session is being replaced can leave the new
one open in the core with nobody to close it, because the answer to the close
drops whatever entry the connection has by then (`App.tsx:2166-2168`,
2234-2238); `Patient` excludes it. The retry timer calls `replaceSession`
without an entry in `replacing` (`App.tsx:2426`), so a call that meets the same
dead session opens a second one; only one is adopted, the other is closed. A
`tx.begin` whose answer is an error still sets the indicator (`edit.ts:259-272`).

*GridEdit.* `confirmEdit` shows the SQL of a plan built before an await, and
`applyEdit` builds the plan again (`App.tsx:4183-4187`, 4224, against 4156-4157,
4228): what is staged behind the preview is applied without having been shown.
«Ejecutar» is not stopped while the grid is being edited (`App.tsx:3306`), while
page turns and refreshes are (`gridPaging.ts:144-145`): the rows of the new
result take the indexes of the pending changes. `findConflicts` refuses a new
row with the key of a loaded row even when that one is deleted in the same plan
(`rowPaste.ts:208`), which the order of the plan would allow
(`editSession.ts:281-282`). The count of affected rows is never looked at
(`rowCountOk`, `edit.ts:118`, has no caller): when another session deleted a
row, or gave its key to another, the change goes nowhere or elsewhere and is
reported applied; `grid_edit` lets other sessions add rows and change other
columns only.

*MetaCache.* A restore and the cells of a notebook refresh the tree without
marking the cache stale (against `App.tsx:790-791`). The answer of a DDL that
is lost, or a rollback of a DDL, leaves the marks as they were. A list too large
for the cap leaves an older one in its place without a mark
(`metaCache.ts:155-181`). Marks of the last half second are lost when the
program is killed (`metaCache.ts:349`). All but the oversized list are `untold`
in the model. `replaceSession` does not call `metaCache.open`, so a connection
edited while open keeps the entries of its old server after a replacement; the
model edits closed connections only. A table once noted as missing stays
missing for the autocomplete (`App.tsx:1371`).

*Tabs.* Ids are also given twice by a crash within a second of opening a tab,
or by hiding or leaving within a second of «Ahora no», because the flush clears
the save that was due before it decides not to save (`App.tsx:1300-1306`);
`Settled` excludes both. A session that local storage refuses is dropped in
silence and not tried again until the tabs change (`tabsStore.ts:26-32`), while
a refused history is at least reported (`App.tsx:3645-3652`); the first is in
the run, but not with the application ending before the next save.
`duplicateTab` puts the unpinned copy of a pinned tab before the pinned tabs
that follow it (against `tabs.ts:67-68`). After an offer was put off, a session
whose tabs were all closed is not saved again, and the closed tabs come back at
the next start. Two blank tabs count as work worth saving. Of more than fifty
tabs the first, which are the pinned ones, are not saved.

## 8. Not modelled

`PROJECT.json` "components" lists every part with its reason. In short: the SSH
tunnel and the classifier are planned (section 2); parsing, redaction, encoding,
DSN rewriting, schema comparison, generators and diagrams are pure functions
with unit tests and nothing concurrent; window, menu, updater, installer, site
and the iOS application are platform code; the drivers' client libraries, cJSON
and SQLite are external. Message tables, settings panels and the drawing of
grid and tree, which are most of the lines of the frontend, have no state
beyond what the modules keep.

Inside the modelled parts: scripts of several statements, table previews (their
own LIMIT and OFFSET, no cursor), the working database of a connection, several
saved connections reconnecting at once, the tools that write through their own
calls, the tab in front and the list of tabs to reopen, the limits of age and
total size of the local history, and closing a tab in the middle of a run or an
edit.
