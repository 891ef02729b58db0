---------------------------- MODULE Transactions ----------------------------
(***************************************************************************)
(* The transactions of one connection, as the frontend keeps them.         *)
(*                                                                         *)
(* Editor tabs run statements through runInTx (txMode.ts): in manual mode  *)
(* the first write opens a transaction with tx.begin, a typed BEGIN or     *)
(* COMMIT becomes tx.begin or tx.commit.  A grid that is being edited      *)
(* holds a transaction of its own from «Editar» to «Aplicar» or            *)
(* «Descartar» (App.tsx, editApply.ts).  All tabs of a connection share    *)
(* one session, so one transaction, and one indicator, txs[connId].        *)
(*                                                                         *)
(* As in module Paging, a request is served at the moment its answer is    *)
(* delivered, oldest first.                                                *)
(***************************************************************************)
EXTENDS Naturals, Sequences, FiniteSets

CONSTANTS
  Tabs,      \* the tabs bound to the connection
  Stmts,     \* kinds of statement the user types
  Items,     \* rows changed in an edit session
  MaxRuns,   \* bound: statements run and edit sessions begun
  MaxTries,  \* bound: times an edit session is applied
  Turns,     \* one thing at a time: no statement but a read during an edit
  TxFails    \* tx.begin and tx.commit may fail at the engine

Kinds == {"read", "write", "begin", "beginWith", "commit", "rollback", "ddl"}

ASSUME ConstantsAssumption ==
  /\ Stmts \subseteq Kinds /\ Items \in Nat \ {0}
  /\ MaxRuns \in Nat /\ MaxTries \in Nat
  /\ Turns \in BOOLEAN /\ TxFails \in BOOLEAN

VARIABLES
  ui,      \* txs[connId]: the indicator of the connection
  ed,      \* the statement each tab's editor is running (runInTx)
  es,      \* each tab's edit session
  queue,   \* requests not yet answered, oldest first
  flag,    \* in_tx of the core's slot
  eng,     \* the transaction at the server and the writes inside it
  db,      \* writes committed at the server, in order
  runs     \* statements run and edit sessions begun so far

vars == <<ui, ed, es, queue, flag, eng, db, runs>>

(* A write is the run it belongs to and, in an edit session, its item.      *)
Idle == [manual |-> FALSE, open |-> FALSE, log |-> <<>>]          \* idleTx
NoTx == [open |-> FALSE, work |-> <<>>]
Verbs == {"begin", "commit", "rollback"}

Request(for, who, m, w) == [for |-> for, who |-> who, m |-> m, w |-> w]
NoWrite == [run |-> 0, item |-> 0]

----------------------------------------------------------------------------
(* The core and the engine: what a request does when it is served.          *)

(* tx_methods.c: a second tx.begin is refused; the flag follows the outcome. *)
ServeBegin(ok) ==
  /\ ok => ~flag /\ ~eng.open
  /\ ok \/ flag \/ eng.open \/ TxFails
  /\ flag' = (flag \/ ok)
  /\ eng' = IF ok THEN [open |-> TRUE, work |-> <<>>] ELSE eng
  /\ UNCHANGED db

(* A commit with no transaction open is a no-op; one that fails leaves it.   *)
ServeCommit(ok) ==
  /\ ok \/ (TxFails /\ eng.open)
  /\ flag' = (flag /\ ~ok)
  /\ IF ok THEN eng' = NoTx /\ db' = db \o eng.work ELSE UNCHANGED <<eng, db>>

(* A rollback leaves nothing to end, whatever it answers.                   *)
ServeRollback(ok) ==
  /\ ok \/ TxFails
  /\ flag' = FALSE /\ eng' = NoTx /\ UNCHANGED db

(* A write goes into the open transaction, or is committed at once.          *)
Written(ok, w) ==
  IF ~ok THEN UNCHANGED <<eng, db>>
  ELSE IF eng.open THEN eng' = [eng EXCEPT !.work = Append(@, w)] /\ UNCHANGED db
  ELSE db' = Append(db, w) /\ UNCHANGED eng

(* BEGIN with options, as typed: the core's flag does not learn of it.       *)
OpenedAsTyped(ok) ==
  /\ ok => ~eng.open
  /\ eng' = IF ok THEN [open |-> TRUE, work |-> <<>>] ELSE eng
  /\ UNCHANGED db

(* MySQL commits the open transaction before DDL, and whatever its outcome.  *)
CommittedByDdl == eng' = NoTx /\ db' = db \o eng.work

Serve(r, ok) ==
  \/ r.m = "begin" /\ ServeBegin(ok)
  \/ r.m = "commit" /\ ServeCommit(ok)
  \/ r.m = "rollback" /\ ServeRollback(ok)
  \/ /\ UNCHANGED flag
     /\ \/ r.m = "read" /\ UNCHANGED <<eng, db>>
        \/ r.m = "write" /\ Written(ok, r.w)
        \/ r.m = "beginWith" /\ OpenedAsTyped(ok)
        \/ r.m = "ddl" /\ CommittedByDdl

(* txBegin, txCommit and txRollback of edit.ts drop the answer: an error of  *)
(* the core does not reject.                                                *)
Rejects(ok) == FALSE

----------------------------------------------------------------------------
(* The editor: planStatement and runInTx.                                   *)

NoRun == [pc |-> "idle", stmt |-> "read", run |-> 0, cur |-> Idle]

Quiet == \A t \in Tabs : ed[t].pc = "idle" /\ es[t].pc \in {"off", "editing"}
MayRun(stmt) ==
  /\ runs < MaxRuns
  /\ Turns => Quiet /\ (stmt = "read" \/ \A t \in Tabs : es[t].pc = "off")

Refused(stmt) == stmt \in {"begin", "beginWith"} /\ ui.open
BeginFirstAny(stmt) == ui.manual /\ stmt = "write"                   \* mutant
BeginFirst(stmt) == ui.manual /\ ~ui.open /\ stmt = "write"

(* The first request of a statement; ui is read here, before any await.      *)
RunStmt(t, stmt) ==
  /\ ed[t].pc = "idle" /\ MayRun(stmt) /\ ~Refused(stmt)
  /\ LET run == runs + 1
         pc == IF stmt \in Verbs THEN "verb" ELSE IF BeginFirst(stmt) THEN "begin" ELSE "query"
         m  == IF pc = "begin" THEN "begin" ELSE stmt IN
     /\ ed' = [ed EXCEPT ![t] = [pc |-> pc, stmt |-> stmt, run |-> run, cur |-> ui]]
     /\ queue' = Append(queue, Request("editor", t, m, [run |-> run, item |-> 0]))
     /\ runs' = run
  /\ UNCHANGED <<ui, es, flag, eng, db>>

RanOnlyOk(t, ok) == IF ok THEN [ed EXCEPT ![t].pc = "idle"] ELSE ed   \* mutant
Ran(t, ok) == [ed EXCEPT ![t].pc = "idle"]

VerbOpensAny(stmt) == TRUE                                           \* mutant
VerbOpens(stmt) == stmt = "begin"

VerbAnswered(r, ok) ==
  LET t == r.who  E == ed[t] IN
  /\ r.for = "editor" /\ E.pc = "verb"
  /\ ui' = IF ~Rejects(ok) THEN [E.cur EXCEPT !.open = VerbOpens(E.stmt), !.log = <<>>]
           ELSE IF E.stmt = "rollback" THEN [E.cur EXCEPT !.open = FALSE, !.log = <<>>]
           ELSE ui
  /\ ed' = Ran(t, ~Rejects(ok)) /\ queue' = Tail(queue) /\ UNCHANGED es

BeginAnswered(r, ok) ==
  LET t == r.who  E == ed[t]  cur == [E.cur EXCEPT !.open = TRUE, !.log = <<>>] IN
  /\ r.for = "editor" /\ E.pc = "begin"
  /\ IF Rejects(ok)
     THEN /\ ed' = Ran(t, FALSE)
          /\ queue' = Tail(queue) /\ UNCHANGED ui
     ELSE /\ ui' = cur
          /\ ed' = [ed EXCEPT ![t].pc = "query", ![t].cur = cur]
          /\ queue' = Append(Tail(queue), Request("editor", t, E.stmt, r.w))
  /\ UNCHANGED es

Logged(cur, run) == Append(cur.log, run)

(* runInTx's finally.                                                       *)
QueryAnswered(r, ok) ==
  LET t == r.who  E == ed[t] IN
  /\ r.for = "editor" /\ E.pc = "query"
  /\ \/ /\ E.stmt = "ddl" /\ E.cur.open
        /\ ed' = [ed EXCEPT ![t].pc = "implicit"]
        /\ queue' = Append(Tail(queue), Request("editor", t, "commit", NoWrite))
        /\ UNCHANGED ui
     \/ /\ ~(E.stmt = "ddl" /\ E.cur.open)
        /\ ui' = IF E.stmt = "beginWith"
                   THEN IF ok THEN [E.cur EXCEPT !.open = TRUE, !.log = <<>>] ELSE ui
                 ELSE IF E.cur.open THEN [E.cur EXCEPT !.log = Logged(E.cur, E.run)]
                 ELSE ui
        /\ ed' = Ran(t, ok) /\ queue' = Tail(queue)
  /\ UNCHANGED es

ImplicitAnswered(r) ==
  LET t == r.who IN
  /\ r.for = "editor" /\ ed[t].pc = "implicit"
  /\ ui' = [ed[t].cur EXCEPT !.open = FALSE, !.log = <<>>]
  /\ ed' = [ed EXCEPT ![t].pc = "idle"] /\ queue' = Tail(queue) /\ UNCHANGED es

(* toggleTxMode: not while a transaction is open.                           *)
Toggle ==
  /\ ~ui.open /\ (Turns => Quiet)
  /\ ui' = [Idle EXCEPT !.manual = ~ui.manual]
  /\ UNCHANGED <<ed, es, queue, flag, eng, db, runs>>

----------------------------------------------------------------------------
(* A grid being edited: beginEdit, applyEdit with applyPlan, discardEdit.    *)
(* `saved` holds the sessions the user was told were applied.               *)
NoEdit == [pc |-> "off", run |-> 0, item |-> 0, tries |-> 0, saved |-> {}]

Ask(t, m, w) == Append(queue, Request("edit", t, m, w))
AskNext(t, m, w) == Append(Tail(queue), Request("edit", t, m, w))
Item(t, i) == [run |-> es[t].run, item |-> i]

BeginEdit(t) ==
  /\ es[t].pc = "off" /\ ~ui.open /\ MayRun("write")
  /\ es' = [es EXCEPT ![t] = [@ EXCEPT !.pc = "beginning", !.run = runs + 1, !.tries = 0]]
  /\ queue' = Ask(t, "begin", NoWrite) /\ runs' = runs + 1
  /\ UNCHANGED <<ui, ed, flag, eng, db>>

(* Any answer but "unsupported" starts the session (txBeginIfSupported).     *)
BeginEditAnswered(r, ok) ==
  /\ es[r.who].pc = "beginning"
  /\ es' = [es EXCEPT ![r.who].pc = "editing"]
  /\ queue' = Tail(queue)

Apply(t) ==
  /\ es[t].pc = "editing" /\ es[t].tries < MaxTries /\ (Turns => Quiet)
  /\ es' = [es EXCEPT ![t].pc = "applying", ![t].item = 1, ![t].tries = @ + 1]
  /\ queue' = Ask(t, "write", Item(t, 1))
  /\ UNCHANGED <<ui, ed, flag, eng, db, runs>>

AfterFailureKeeps(t) == "begin"                                      \* mutant
AfterFailure(t) == "rollback"

MoreItems(i) == i < Items

ItemAnswered(r, ok) ==
  LET t == r.who  i == es[t].item IN
  /\ es[t].pc = "applying"
  /\ \/ /\ ok /\ MoreItems(i)
        /\ es' = [es EXCEPT ![t].item = i + 1]
        /\ queue' = AskNext(t, "write", Item(t, i + 1))
     \/ /\ ok /\ ~MoreItems(i)
        /\ es' = [es EXCEPT ![t].pc = "committing"]
        /\ queue' = AskNext(t, "commit", NoWrite)
     \/ /\ ~ok
        /\ es' = [es EXCEPT ![t].pc = IF AfterFailure(t) = "rollback" THEN "undoing" ELSE "reopening"]
        /\ queue' = AskNext(t, AfterFailure(t), NoWrite)

CommitAnswered(r, ok) ==
  LET t == r.who IN
  /\ es[t].pc = "committing"
  /\ IF Rejects(ok)
     THEN /\ es' = [es EXCEPT ![t].pc = "undoing"]
          /\ queue' = AskNext(t, "rollback", NoWrite)
     ELSE /\ es' = [es EXCEPT ![t].pc = "off", ![t].saved = @ \cup {es[t].run}]
          /\ queue' = Tail(queue)

(* A failed plan is rolled back and a new transaction begun.                 *)
UndoAnswered(r, ok) ==
  /\ es[r.who].pc = "undoing"
  /\ es' = [es EXCEPT ![r.who].pc = "reopening"]
  /\ queue' = AskNext(r.who, "begin", NoWrite)

ReopenAnswered(r, ok) ==
  /\ es[r.who].pc = "reopening"
  /\ es' = [es EXCEPT ![r.who].pc = IF Rejects(ok) THEN "off" ELSE "editing"]
  /\ queue' = Tail(queue)

Discard(t) ==
  /\ es[t].pc = "editing" /\ (Turns => Quiet)
  /\ es' = [es EXCEPT ![t].pc = "discarding"]
  /\ queue' = Ask(t, "rollback", NoWrite)
  /\ UNCHANGED <<ui, ed, flag, eng, db, runs>>

DiscardAnswered(r, ok) ==
  /\ es[r.who].pc = "discarding"
  /\ es' = [es EXCEPT ![r.who].pc = "off"]
  /\ queue' = Tail(queue)

EditAnswered(r, ok) ==
  /\ r.for = "edit" /\ UNCHANGED <<ui, ed>>
  /\ \/ BeginEditAnswered(r, ok) \/ ItemAnswered(r, ok) \/ CommitAnswered(r, ok)
     \/ UndoAnswered(r, ok) \/ ReopenAnswered(r, ok) \/ DiscardAnswered(r, ok)

----------------------------------------------------------------------------
Answer ==
  /\ queue # <<>>
  /\ LET r == Head(queue) IN
     \E ok \in BOOLEAN :
       /\ Serve(r, ok)
       /\ \/ VerbAnswered(r, ok) \/ BeginAnswered(r, ok) \/ QueryAnswered(r, ok)
          \/ ImplicitAnswered(r) \/ EditAnswered(r, ok)
  /\ UNCHANGED runs

Init ==
  /\ ui = Idle /\ ed = [t \in Tabs |-> NoRun] /\ es = [t \in Tabs |-> NoEdit]
  /\ queue = <<>> /\ flag = FALSE /\ eng = NoTx /\ db = <<>> /\ runs = 0

Next ==
  \/ \E t \in Tabs, stmt \in Stmts : RunStmt(t, stmt)
  \/ Toggle
  \/ \E t \in Tabs : BeginEdit(t) \/ Apply(t) \/ Discard(t)
  \/ Answer

Spec == Init /\ [][Next]_vars
(* Every call is answered (EveryCallAnswered of module RpcCore).             *)
FairSpec == Spec /\ WF_vars(Answer)

----------------------------------------------------------------------------
AtRest == queue = <<>>
Writes(seq) == {seq[k] : k \in DOMAIN seq}

(* With no call under way, a transaction is open at the server exactly when  *)
(* the band says so or a grid is being edited (runInTx, beginEdit).          *)
IndicatorIsEngine ==
  AtRest => (eng.open <=> ui.open \/ \E t \in Tabs : es[t].pc = "editing")

(* The writes of the open transaction are the ones the band lists, which is  *)
(* what the user decides Commit or Rollback by (runInTx, TxBand).            *)
LogIsTransaction ==
  AtRest /\ ui.open => \A w \in Writes(eng.work) : \E k \in DOMAIN ui.log : ui.log[k] = w.run

(* "In manual mode the first statement that is not a plain read opens a      *)
(* transaction (tx.begin) and everything after runs inside it until Commit   *)
(* or Rollback" (txMode.ts): a write started in manual mode is not committed *)
(* by being executed.                                                       *)
ManualWritesWait ==
  [][queue # <<>> /\ queue' = Tail(queue) /\ Head(queue).for = "editor" /\ Head(queue).m = "write"
       /\ ed[Head(queue).who].cur.manual => db' = db]_vars

Times(seq, w) == Cardinality({k \in DOMAIN seq : seq[k] = w})

(* An edit session is stored whole, once, when the user was told so, and not *)
(* at all otherwise, over failing items and retries (applyPlan).             *)
EditIsWhole ==
  AtRest => \A t \in Tabs : \A i \in 1..Items :
    /\ \A run \in es[t].saved : Times(db, [run |-> run, item |-> i]) = 1
    /\ es[t].run \notin es[t].saved => Times(db, Item(t, i)) = 0

(* A tab that waits, and a grid that is busy, come to an end.                *)
FlowsEnd == \A t \in Tabs : /\ ed[t].pc # "idle" ~> ed[t].pc = "idle"
                            /\ es[t].pc = "applying" ~> es[t].pc \in {"off", "editing"}

(* "any other tx.begin error keeps the session transactional (the failure    *)
(* surfaces at commit)" (edit.test.ts): a session the user is told was       *)
(* applied is in the database.                                              *)
FailureSurfaces ==
  AtRest => \A t \in Tabs : \A run \in es[t].saved : \A i \in 1..Items :
    Times(db, [run |-> run, item |-> i]) = 1
====
