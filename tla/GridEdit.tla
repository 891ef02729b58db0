------------------------------ MODULE GridEdit ------------------------------
(***************************************************************************)
(* Editing a page of a table in the grid: the pending changes              *)
(* (editSession.ts), the plan of row statements built from them, its       *)
(* preview and its application item by item (App.tsx, editApply.ts), on an  *)
(* engine with or without transactions, while other sessions write to the  *)
(* same table.                                                             *)
(*                                                                         *)
(* The table has a key column "k" and one more, "v".  A row keeps an       *)
(* identity the program does not see.  Which transaction the statements    *)
(* run in when tabs share a connection is module Transactions.             *)
(***************************************************************************)
EXTENDS Naturals, Sequences, FiniteSets, SequencesExt, Subsequences

CONSTANTS
  MaxKey,      \* bound: keys the table may hold
  PageSize,    \* rows of the page
  MaxOps,      \* bound: changes the user makes
  MaxBatch,    \* bound: rows of a paste
  MaxWrites,   \* bound: writes of other sessions
  Writes,      \* what other sessions do
  Engines,     \* whether the engine has transactions
  Patient      \* the user runs nothing in the tab while editing its rows

ASSUME ConstantsAssumption ==
  /\ PageSize \in Nat \ {0} /\ MaxKey \in Nat /\ PageSize <= MaxKey
  /\ MaxOps \in Nat /\ MaxBatch \in Nat /\ MaxWrites \in Nat
  /\ Writes \subseteq {"insert", "update", "delete"}
  /\ Engines \subseteq BOOLEAN /\ Patient \in BOOLEAN

VARIABLES
  hasTx,   \* hasTransactions(connId)
  db,      \* the table as committed: key -> row
  work,    \* the table as the edit session's transaction sees it
  locks,   \* keys that transaction has written
  grid,    \* results[id].result.rows
  st,      \* EditSessionState: editing, busy and preview
  pend,    \* EditSessionState.pending
  plan,    \* the plan being applied
  at,      \* the item it is at
  meant,   \* history: the row the user saw at each index when changing it
  ops, writes

table == <<db, work, locks>>
session == <<st, pend, plan, at>>
vars == <<hasTx, table, grid, session, meant, ops, writes>>

Keys == 1..MaxKey
Null == 0
Empty == MaxKey + 1         \* the empty text, which is not NULL
Old == MaxKey + 2           \* what the rows hold at first

(* Who a row is: there at first, of another session, or of a pending insert  *)
(* (the m-th row of the n-th change).                                       *)
Nobody == <<"none", 0>>
RowId(k) == <<"row", k>>
OtherId(n) == <<"other", n>>
NewId(n, m) == <<"new", n, m>>

(* The numbers of S up to n, in their order.                                *)
InOrder(S, n) == Only([k \in 1..n |-> k], S)

(* A page of the table, in the order of its key.                            *)
PageOf(T) ==
  LET ks == InOrder(DOMAIN T, MaxKey) IN
  [i \in 1..(IF Len(ks) < PageSize THEN Len(ks) ELSE PageSize) |->
     [k |-> ks[i], v |-> T[ks[i]].v, id |-> T[ks[i]].id]]

NoFields == [c \in {} |-> Null]
NoPending == [edits |-> [i \in {} |-> NoFields], deletes |-> <<>>, inserts |-> <<>>,
              modes |-> <<>>, asNull |-> <<>>]

Without(f, x) == [y \in DOMAIN f \ {x} |-> f[y]]
With(f, x, y) == [z \in DOMAIN f \union {x} |-> IF z = x THEN y ELSE f[z]]

----------------------------------------------------------------------------
(* editSession.ts: what each change does to the pending set p.              *)

EditsOf(p, i) == IF i \in DOMAIN p.edits THEN p.edits[i] ELSE NoFields
IsDeleted(p, i) == i \in ToSet(p.deletes)

CellSet(p, i, c, x) == [p EXCEPT !.edits = With(@, i, With(EditsOf(p, i), c, x))]

CellReverted(p, i, c) ==
  LET rest == Without(EditsOf(p, i), c) IN
  [p EXCEPT !.edits = IF DOMAIN rest = {} THEN Without(@, i) ELSE With(@, i, rest)]

RowReverted(p, i) ==
  [p EXCEPT !.edits = Without(@, i), !.deletes = Only(@, ToSet(@) \ {i})]

(* toggleDeleteRows: a mixed selection becomes all deleted.                 *)
DeletesToggled(p, rows) ==
  IF \A i \in rows : IsDeleted(p, i)
  THEN [p EXCEPT !.deletes = Only(@, ToSet(@) \ rows)]
  ELSE [p EXCEPT !.deletes =
          @ \o InOrder({i \in rows : ~IsDeleted(p, i)}, Len(grid))]

(* addInsert: a row of no batch; n tells pending rows apart.                *)
BlankAdded(p, n) ==
  [p EXCEPT !.inserts = Append(@, [vals |-> NoFields, batch |-> 0, n |-> n])]

(* addInserts: the rows are a batch of their own, with what it does with its *)
(* key and where it comes from: "duplicate", "copy", or text, "null" while   *)
(* its empty cells are read as NULL.                                        *)
BatchAdded(p, rows, mode, from, n) ==
  [p EXCEPT !.inserts = @ \o [m \in DOMAIN rows |->
               [vals |-> rows[m], batch |-> Len(p.modes) + 1, n |-> NewId(n, m)]],
            !.modes = Append(@, mode), !.asNull = Append(@, from)]

InsertSet(p, j, c, x) == [p EXCEPT !.inserts[j].vals = With(@, c, x)]
InsertDropped(p, j) == [p EXCEPT !.inserts = RemoveAt(@, j)]
BatchDropped(p, b) == [p EXCEPT !.inserts = Only(@, {r \in ToSet(@) : r.batch # b})]

(* setBatchEmptyAsNull: the NULLs of a text batch and its empty texts.      *)
ReadAs(on, x) == IF on /\ x = Empty THEN Null ELSE IF ~on /\ x = Null THEN Empty ELSE x
RowReadAs(on, row) ==
  [row EXCEPT !.vals = [c \in DOMAIN row.vals |-> ReadAs(on, row.vals[c])]]
EmptyFlipped(p, b) ==
  LET on == p.asNull[b] # "null" IN
  [p EXCEPT !.asNull = [@ EXCEPT ![b] = IF on THEN "null" ELSE "text"],
            !.inserts = [j \in DOMAIN @ |->
               IF @[j].batch = b THEN RowReadAs(on, @[j]) ELSE @[j]]]

ModeFlipped(p, b) ==
  [p EXCEPT !.modes[b] = IF @ = "generate" THEN "keep" ELSE "generate"]

PkMode(p, j) == IF p.inserts[j].batch = 0 THEN "keep" ELSE p.modes[p.inserts[j].batch]

(* What an inserted row sends: a generating batch leaves the key out.       *)
Sent(p, j) ==
  IF PkMode(p, j) = "generate" THEN Without(p.inserts[j].vals, "k") ELSE p.inserts[j].vals

Mapped(s, Op(_, _), p) == [i \in DOMAIN s |-> Op(p, s[i])]

(* buildPlan: updates by row, then deletes, then inserts; a deleted row is  *)
(* only deleted, an insert with nothing to send is dropped.                 *)
Update(p, i) == [kind |-> "update", key |-> grid[i].k, set |-> p.edits[i], n |-> meant[i]]
Delete(p, i) == [kind |-> "delete", key |-> grid[i].k, set |-> NoFields, n |-> meant[i]]
Insert(p, j) == [kind |-> "insert", key |-> Null, set |-> Sent(p, j), n |-> p.inserts[j].n]

ChangedAlsoDeleted(p) == DOMAIN p.edits \intersect DOMAIN grid    \* mutant

Changed(p) == {i \in DOMAIN p.edits \intersect DOMAIN grid : ~IsDeleted(p, i)}

Updates(p) == Mapped(InOrder(Changed(p), Len(grid)), Update, p)
Deletes(p) == Mapped(Only(p.deletes, DOMAIN grid), Delete, p)
Inserts(p) ==
  Mapped(InOrder({j \in DOMAIN p.inserts : DOMAIN Sent(p, j) # {}}, Len(p.inserts)), Insert, p)

BuildPlanEditedKey(p) ==                                          \* mutant
  [i \in DOMAIN Updates(p) |->
     [Updates(p)[i] EXCEPT !.key = IF "k" \in DOMAIN Updates(p)[i].set
                                   THEN Updates(p)[i].set["k"] ELSE @]]
  \o Deletes(p) \o Inserts(p)

BuildPlan(p) == Updates(p) \o Deletes(p) \o Inserts(p)

(* findConflicts, for the key: a new row that keeps its key and has the one *)
(* of another new row or of a loaded row.                                   *)
KeptKey(p, j) ==
  IF PkMode(p, j) = "keep" /\ "k" \in DOMAIN p.inserts[j].vals
  THEN p.inserts[j].vals["k"] ELSE Null

Conflicts(p) ==
  {j \in DOMAIN p.inserts : KeptKey(p, j) # Null /\
     \/ \E o \in DOMAIN p.inserts \ {j} : KeptKey(p, o) = KeptKey(p, j)
     \/ \E i \in DOMAIN grid : grid[i].k = KeptKey(p, j)}

----------------------------------------------------------------------------
(* The database.                                                            *)

(* The tables a row statement may leave; it may also be refused.            *)
Effects(item, T) ==
  CASE item.kind = "delete" -> {Without(T, item.key)}
    [] item.kind = "update" /\ item.key \notin DOMAIN T -> {T}
    [] item.kind = "update" /\ item.key \in DOMAIN T ->
         LET to == IF "k" \in DOMAIN item.set THEN item.set["k"] ELSE item.key
             row == [T[item.key] EXCEPT
                       !.v = IF "v" \in DOMAIN item.set THEN item.set["v"] ELSE @]
         IN  IF to # item.key /\ to \in DOMAIN T THEN {}
             ELSE {With(Without(T, item.key), to, row)}
    [] item.kind = "insert" ->
         LET row == [id |-> item.n,
                     v |-> IF "v" \in DOMAIN item.set THEN item.set["v"] ELSE Null]
         IN  {With(T, k, row) :
                k \in (IF "k" \in DOMAIN item.set THEN {item.set["k"]} ELSE Keys) \ DOMAIN T}

Touched(T, U) ==
  {k \in DOMAIN T \union DOMAIN U :
     k \notin DOMAIN T \/ k \notin DOMAIN U \/ T[k] # U[k]}

(* Another session; it waits for the rows the edit has written.             *)
Foreign(w, k) ==
  /\ writes < MaxWrites /\ k \notin locks
  /\ LET after(T) == CASE w = "insert" -> With(T, k, [id |-> OtherId(writes), v |-> Old])
                       [] w = "update" -> [T EXCEPT ![k].v = Empty]
                       [] w = "delete" -> Without(T, k)
     IN  /\ (w = "insert") = (k \notin DOMAIN work) /\ (w = "insert") = (k \notin DOMAIN db)
         /\ db' = after(db) /\ work' = after(work)
  /\ writes' = writes + 1
  /\ UNCHANGED <<hasTx, locks, grid, session, meant, ops>>

Init ==
  /\ hasTx \in Engines
  /\ db = [k \in 1..PageSize |-> [id |-> RowId(k), v |-> Old]] /\ work = db /\ locks = {}
  /\ grid = PageOf(db)
  /\ st = "view" /\ pend = NoPending /\ plan = <<>> /\ at = 0
  /\ meant = [i \in 1..PageSize |-> Nobody]
  /\ ops = 0 /\ writes = 0

----------------------------------------------------------------------------
(* The user changes the pending set; the row at an index is the one on      *)
(* screen at that moment.  The grid takes changes while the SQL of the      *)
(* preview is on its way: what is applied need not be what was previewed.   *)
Staging == st \in {"editing", "previewing"}

Stage(p, rows) ==
  /\ Staging /\ ops < MaxOps
  /\ ops' = ops + 1 /\ pend' = p
  /\ meant' = [i \in DOMAIN meant |->
                 IF i \notin DOMAIN p.edits /\ ~IsDeleted(p, i) THEN Nobody
                 ELSE IF i \in rows THEN grid[i].id ELSE meant[i]]
  /\ UNCHANGED <<hasTx, table, grid, st, plan, at, writes>>

OnEditCell(i, c, x) ==
  /\ i \in DOMAIN grid /\ ~IsDeleted(pend, i)
  /\ Stage(CellSet(pend, i, c, x), {i})

OnRevertCell(i, c) ==
  /\ c \in DOMAIN EditsOf(pend, i)
  /\ Stage(CellReverted(pend, i, c), {})

OnRevertRow(i) ==
  /\ i \in DOMAIN pend.edits \/ IsDeleted(pend, i)
  /\ Stage(RowReverted(pend, i), {})

OnToggleDeleteRows(rows) ==
  /\ rows # {} /\ rows \subseteq DOMAIN grid
  /\ Stage(DeletesToggled(pend, rows), rows)

OnAddInsert == Stage(BlankAdded(pend, NewId(ops, 1)), {})

(* duplicateRows copies rows of the page and generates their keys, as the    *)
(* exact copy does in its own table; from another table, it and a paste of   *)
(* text keep the keys they have, and text reads an empty cell as NULL.       *)
NewRow(k, v) == [c \in {"k", "v"} |-> IF c = "k" THEN k ELSE v]

DuplicateRows(rows) ==
  /\ rows # {} /\ rows \subseteq DOMAIN grid
  /\ LET is == InOrder(rows, Len(grid)) IN
     Stage(BatchAdded(pend, [m \in DOMAIN is |-> NewRow(grid[is[m]].k, grid[is[m]].v)],
                      "generate", "duplicate", ops), {})

Paste(keys, from) ==
  LET ks == InOrder(keys, MaxKey) IN
  Stage(BatchAdded(pend, [m \in DOMAIN ks |-> NewRow(ks[m], IF from = "copy" THEN Old ELSE Null)],
                   "keep", from, ops), {})

OnInsertCell(j, c, x) ==
  /\ j \in DOMAIN pend.inserts /\ (c = "k" => PkMode(pend, j) = "keep")
  /\ Stage(InsertSet(pend, j, c, x), {})

OnRemoveInsert(j) ==
  /\ j \in DOMAIN pend.inserts
  /\ Stage(InsertDropped(pend, j), {})

(* The bar of the last paste.                                               *)
OfBatch(b) == \E j \in DOMAIN pend.inserts : pend.inserts[j].batch = b

TogglePastePk(b) ==
  /\ b = Len(pend.modes) /\ OfBatch(b)
  /\ Stage(ModeFlipped(pend, b), {})

TogglePasteEmptyAsNull(b) ==
  /\ b = Len(pend.modes) /\ OfBatch(b) /\ pend.asNull[b] \in {"null", "text"}
  /\ Stage(EmptyFlipped(pend, b), {})

ImportLastPaste(b) ==
  /\ b = Len(pend.modes) /\ OfBatch(b) /\ pend.asNull[b] # "duplicate"
  /\ Stage(BatchDropped(pend, b), {})

Staged ==
  \/ \E i \in DOMAIN grid, c \in {"k", "v"} :
       \/ \E x \in IF c = "k" THEN Keys ELSE {Null, Empty} : OnEditCell(i, c, x)
       \/ OnRevertCell(i, c)
  \/ \E i \in DOMAIN grid : OnRevertRow(i)
  \/ \E rows \in SUBSET DOMAIN grid : OnToggleDeleteRows(rows) \/ DuplicateRows(rows)
  \/ OnAddInsert
  \/ \E keys \in SUBSET Keys, from \in {"copy", "null"} :
       Cardinality(keys) \in 1..MaxBatch /\ Paste(keys, from)
  \/ \E j \in DOMAIN pend.inserts :
       \/ \E c \in {"k", "v"} : \E x \in IF c = "k" THEN Keys ELSE {Null, Empty} :
            OnInsertCell(j, c, x)
       \/ OnRemoveInsert(j)
  \/ \E b \in DOMAIN pend.modes :
       TogglePastePk(b) \/ TogglePasteEmptyAsNull(b) \/ ImportLastPaste(b)

----------------------------------------------------------------------------
(* The session.                                                             *)

BeginEdit ==
  /\ st = "view"
  /\ st' = "editing" /\ pend' = NoPending /\ meant' = [i \in DOMAIN meant |-> Nobody]
  /\ UNCHANGED <<hasTx, table, grid, plan, at, ops, writes>>

(* confirmEdit: known collisions and an empty plan stop it; then the SQL of *)
(* every item is asked for.                                                 *)
ConfirmEdit ==
  /\ st = "editing" /\ Conflicts(pend) = {} /\ BuildPlan(pend) # <<>>
  /\ st' = "previewing"
  /\ UNCHANGED <<hasTx, table, grid, pend, plan, at, meant, ops, writes>>

Previewed ==
  /\ st = "previewing" /\ st' \in {"preview", "editing"}
  /\ UNCHANGED <<hasTx, table, grid, pend, plan, at, meant, ops, writes>>

CancelPreview ==
  /\ st = "preview" /\ st' = "editing"
  /\ UNCHANGED <<hasTx, table, grid, pend, plan, at, meant, ops, writes>>

(* applyEdit builds the plan again from the pending changes.  On a protected *)
(* connection the consent may be refused: the session stays as it is, with   *)
(* its preview.                                                             *)
ApplyRefused == st = "preview" /\ UNCHANGED vars

ApplyEdit ==
  /\ st = "preview"
  /\ st' = "applying" /\ plan' = BuildPlan(pend) /\ at' = 1
  /\ UNCHANGED <<hasTx, table, grid, pend, meant, ops, writes>>

ItemRuns ==
  /\ st = "applying" /\ at <= Len(plan)
  /\ \E T \in Effects(plan[at], work) :
       /\ work' = T
       /\ IF hasTx THEN db' = db /\ locks' = locks \union Touched(work, T) \union {plan[at].key}
                   ELSE db' = T /\ locks' = locks
  /\ at' = at + 1
  /\ UNCHANGED <<hasTx, grid, st, pend, plan, meant, ops, writes>>

(* setEdits(emptyEdit()) and reloadCurrent.                                 *)
Closed ==
  /\ st' = "view" /\ pend' = NoPending /\ grid' = PageOf(db')
  /\ meant' = [i \in DOMAIN meant |-> Nobody]

AfterFailureKeeps ==                                              \* mutant
  st' = "editing" /\ UNCHANGED <<pend, grid, meant>>

(* After the rollback: where the engine has no transactions and something   *)
(* was applied, the session ends; else it goes on, or, if no transaction    *)
(* could be begun again, stops with the changes kept in sight.              *)
AfterFailure ==
  IF ~hasTx /\ at > 1 THEN Closed
  ELSE /\ st' \in {"editing", "view"} /\ (st' = "view" => hasTx)
       /\ UNCHANGED <<pend, grid, meant>>

(* A statement is refused, or the commit cannot be sent.                    *)
ItemFails ==
  /\ st = "applying" /\ (at <= Len(plan) \/ hasTx)
  /\ db' = db /\ work' = db /\ locks' = {}
  /\ AfterFailure
  /\ plan' = <<>> /\ at' = 0
  /\ UNCHANGED <<hasTx, ops, writes>>

Commit ==
  /\ st = "applying" /\ at > Len(plan)
  /\ db' = work /\ work' = work /\ locks' = {}
  /\ Closed
  /\ plan' = <<>> /\ at' = 0
  /\ UNCHANGED <<hasTx, ops, writes>>

(* edit.ts:266 drops the answer of tx.commit: where the engine refuses and   *)
(* undoes the transaction, the session ends as if it were applied.  One that *)
(* stays open is in module Transactions.                                    *)
CommitRefused ==
  /\ st = "applying" /\ at > Len(plan) /\ hasTx
  /\ db' = db /\ work' = db /\ locks' = {}
  /\ Closed
  /\ plan' = <<>> /\ at' = 0
  /\ UNCHANGED <<hasTx, ops, writes>>

DiscardEdit ==
  /\ st = "editing"
  /\ db' = db /\ work' = db /\ locks' = {}
  /\ Closed
  /\ plan' = <<>> /\ at' = 0
  /\ UNCHANGED <<hasTx, ops, writes>>

(* «Ejecutar» in the editor of the tab: the page turn and the refresh are    *)
(* stopped while editing, this is not.  The source of the same SQL is kept, *)
(* and so are the pending changes, by row index.                            *)
RunAgain ==
  /\ st = "view" \/ (st \in {"editing", "previewing"} /\ ~Patient)
  /\ grid' = PageOf(work)
  /\ UNCHANGED <<hasTx, table, session, meant, ops, writes>>

Next ==
  \/ \E w \in Writes, k \in Keys : Foreign(w, k)
  \/ BeginEdit \/ Staged \/ ConfirmEdit \/ Previewed \/ CancelPreview
  \/ ApplyRefused \/ ApplyEdit
  \/ ItemRuns \/ ItemFails \/ Commit \/ CommitRefused \/ DiscardEdit \/ RunAgain

Spec == Init /\ [][Next]_vars

----------------------------------------------------------------------------
(* editSession.ts:283, «keyed by the row's ORIGINAL primary key»: a row      *)
(* statement reaches the row the user changed, or none.                     *)
ChangesHitTheirRow ==
  st = "applying" /\ at <= Len(plan) =>
    LET item == plan[at] IN
    item.kind # "insert" /\ item.key \in DOMAIN work => work[item.key].id = item.n

(* What the grid draws: cellValue, isDeleted and the rows being added.      *)
CellValue(i, c) == IF c \in DOMAIN EditsOf(pend, i) THEN pend.edits[i][c] ELSE grid[i][c]

(* The table as the grid shows it, all changes at once: the rows not        *)
(* touched, the changed rows still there, the new rows with a key.          *)
AsShown ==
  LET gone == {grid[i].k : i \in {r \in DOMAIN grid :
                 IsDeleted(pend, r) \/ r \in DOMAIN pend.edits}}
      new == {j \in DOMAIN pend.inserts : KeptKey(pend, j) # Null}
  IN  {<<k, db[k].v>> : k \in DOMAIN db \ gone}
      \union {<<CellValue(i, "k"), IF "v" \in DOMAIN EditsOf(pend, i)
                                   THEN pend.edits[i]["v"] ELSE db[grid[i].k].v>> :
                i \in {r \in Changed(pend) : grid[r].k \in DOMAIN db}}
      \union {<<KeptKey(pend, j), IF "v" \in DOMAIN pend.inserts[j].vals
                                  THEN pend.inserts[j].vals["v"] ELSE Null>> : j \in new}

(* New rows whose key the database makes up.                                *)
Generated ==
  {j \in DOMAIN pend.inserts : KeptKey(pend, j) = Null /\ DOMAIN Sent(pend, j) # {}}

(* App.tsx:4215: what is committed, statement after statement, is the table  *)
(* the grid was showing, whatever was changed, reverted, deleted and added  *)
(* and whatever other sessions wrote to other columns and rows.  It is said  *)
(* of a session that ends with its transaction in the table (db' = work):    *)
(* one whose commit is refused ends the same way without it.                *)
CommitIsShown ==
  [][st = "applying" /\ st' = "view" /\ pend' = NoPending /\ hasTx /\ db' = work =>
       LET rows == {<<k, db'[k].v>> : k \in DOMAIN db'} IN
       /\ AsShown \subseteq rows
       /\ Cardinality(rows) = Cardinality(AsShown) + Cardinality(Generated)]_<<st, db, work, pend>>

(* editApply.ts:7: no new row is in the table twice, however many attempts   *)
(* fail, with or without transactions.                                      *)
NoInsertTwice ==
  \A j, k \in DOMAIN db : db[j].id = db[k].id => j = k
=============================================================================
