------------------------- MODULE TransactionsProofs -------------------------
(***************************************************************************)
(* What a connection keeps as long as one thing happens on it at a time     *)
(* (Turns) and the server refuses no begin and no commit (TxFails), for     *)
(* every number of tabs, statements, edit sessions and rows.                *)
(*                                                                         *)
(* The invariant follows the one call that is under way: who asked, where   *)
(* its flow stands, and what the server has open at that point.            *)
(***************************************************************************)
EXTENDS Transactions, SequenceFacts

OneAtATime == Turns = TRUE /\ TxFails = FALSE

Indicator == [manual : BOOLEAN, open : BOOLEAN, log : Seq(Nat)]
WriteSet  == [run : Nat, item : Nat]
Requests  == [for : {"editor", "edit"}, who : Tabs, m : Kinds, w : WriteSet]
EditorPcs == {"idle", "verb", "begin", "query", "implicit"}
EditPcs   == {"off", "beginning", "editing", "applying", "committing",
              "undoing", "reopening", "discarding"}
Flow == [pc : EditorPcs, stmt : Kinds, run : Nat, cur : Indicator]
Grid == [pc : EditPcs, run : Nat, item : Nat, tries : Nat, saved : SUBSET Nat]
Engine == [open : BOOLEAN, work : Seq(WriteSet)]

Types ==
  /\ ui \in Indicator /\ ed \in [Tabs -> Flow] /\ es \in [Tabs -> Grid]
  /\ queue \in Seq(Requests) /\ flag \in BOOLEAN /\ eng \in Engine
  /\ db \in Seq(WriteSet) /\ runs \in Nat

----------------------------------------------------------------------------
(* Who the one call belongs to.                                             *)

EditorsIdle == \A t \in Tabs : ed[t].pc = "idle"
GridsQuiet  == \A t \in Tabs : es[t].pc \in {"off", "editing"}
GridsOff    == \A t \in Tabs : es[t].pc = "off"

(* Where the flow E of a tab stands that waits for the answer to r.          *)
AtVerb(r, E) ==
  E.pc = "verb" /\ r.m = E.stmt /\ E.stmt \in Verbs /\ (E.stmt = "begin" => ~E.cur.open)
AtBegin(r, E) ==
  E.pc = "begin" /\ r.m = "begin" /\ E.stmt = "write" /\ E.cur.manual /\ ~E.cur.open
AtQuery(r, E) ==
  /\ E.pc = "query" /\ r.m = E.stmt /\ E.stmt \notin Verbs
  /\ E.stmt = "write" /\ E.cur.manual => E.cur.open
  /\ E.stmt = "beginWith" => ~E.cur.open
AtImplicit(r, E) == E.pc = "implicit" /\ r.m = "commit" /\ E.stmt = "ddl"
AtCall(r, E) ==
  /\ AtVerb(r, E) \/ AtBegin(r, E) \/ AtQuery(r, E) \/ AtImplicit(r, E)
  /\ E.pc \in {"begin", "query"} => r.w.run = E.run /\ r.w.item = 0

OfEditor(r) ==
  /\ r.for = "editor" /\ GridsQuiet
  /\ \A t \in Tabs : t # r.who => ed[t].pc = "idle"
  /\ ed[r.who].cur = ui /\ AtCall(r, ed[r.who])
  /\ ed[r.who].stmt = "read" \/ GridsOff

(* Where a grid G stands that is being edited, and what it asked for.        *)
AtStep(r, G) ==
  \/ G.pc \in {"beginning", "reopening"} /\ r.m = "begin"
  \/ G.pc = "applying" /\ r.m = "write" /\ r.w = [run |-> G.run, item |-> G.item]
  \/ G.pc = "committing" /\ r.m = "commit"
  \/ G.pc \in {"undoing", "discarding"} /\ r.m = "rollback"
OfEdit(r) == r.for = "edit" /\ EditorsIdle /\ AtStep(r, es[r.who])

Turn ==
  \/ queue = <<>> /\ EditorsIdle /\ GridsQuiet
  \/ \E r \in Requests : queue = <<r>> /\ (OfEditor(r) \/ OfEdit(r))

(* One grid at a time is edited, and none in the user's transaction.         *)
OneGrid ==
  \A t \in Tabs : es[t].pc # "off" =>
    ~ui.open /\ \A u \in Tabs : u # t => es[u].pc = "off"

----------------------------------------------------------------------------
(* What the server has open.                                                *)

Implicit == \E t \in Tabs : ed[t].pc = "implicit"
Busy == {"editing", "applying", "committing", "undoing", "discarding"}
Holding == \E t \in Tabs : es[t].pc \in Busy

Server ==
  /\ eng.open <=> ((ui.open /\ ~Implicit) \/ Holding)
  /\ flag => eng.open \/ Implicit
  /\ ~eng.open => eng.work = <<>>

Listed ==
  ui.open => \A k \in DOMAIN eng.work : \E j \in DOMAIN ui.log : ui.log[j] = eng.work[k].run

----------------------------------------------------------------------------
(* The writes of an edit session.                                           *)

(* What a grid has written so far inside its transaction.                    *)
Sent(run, n) == [j \in 1..n |-> [run |-> run, item |-> j]]
GridWork ==
  \A t \in Tabs : LET G == es[t] IN
    /\ G.pc = "editing" => eng.work = <<>>
    /\ G.pc = "applying" => G.item \in 1..Items /\ eng.work = Sent(G.run, G.item - 1)
    /\ G.pc = "committing" => eng.work = Sent(G.run, Items)

(* No run is of two tabs, and the one of a session in progress was not told  *)
(* of yet.                                                                  *)
Runs ==
  /\ \A t \in Tabs : es[t].run <= runs /\ \A run \in es[t].saved : run <= runs
  /\ \A t, u \in Tabs : es[t].run # 0 /\ es[t].run = es[u].run => t = u
  /\ \A t, u \in Tabs : es[t].run \in es[u].saved => t = u /\ es[t].pc = "off"
  /\ \A t \in Tabs : es[t].pc # "off" => es[t].run # 0

(* Every write is of a run that was; an item outside of edit sessions is 0.  *)
Known(w, n) == w.run # 0 /\ w.run <= n
Writers ==
  /\ \A k \in DOMAIN db : Known(db[k], runs)
  /\ \A k \in DOMAIN eng.work : Known(eng.work[k], runs) /\ (GridsOff => eng.work[k].item = 0)
  /\ \A k \in DOMAIN queue : queue[k].for = "editor" /\ queue[k].m # "commit" => Known(queue[k].w, runs)

Of(run, i) == {[run |-> run, item |-> i]}
Ledger ==
  \A t \in Tabs, i \in 1..Items :
    /\ \A run \in es[t].saved : Count(db, Of(run, i)) = 1
    /\ es[t].run \notin es[t].saved => Count(db, Of(es[t].run, i)) = 0

IInv == Types /\ Turn /\ OneGrid /\ Server /\ Listed /\ GridWork /\ Runs /\ Writers /\ Ledger

----------------------------------------------------------------------------
(* Sequences of at most one call.                                           *)

LEMMA OneCall ==
  /\ <<>> \in Seq(Requests) /\ \A r \in Requests : <<r>> \in Seq(Requests)
  /\ \A x : /\ <<x>> # <<>> /\ Head(<<x>>) = x /\ Tail(<<x>>) = <<>> /\ Append(<<>>, x) = <<x>>
            /\ DOMAIN <<x>> = {1} /\ <<x>>[1] = x
  /\ DOMAIN <<>> = {}
  OBVIOUS

LEMMA RequestIs ==
  ASSUME NEW for \in {"editor", "edit"}, NEW t \in Tabs, NEW m \in Kinds, NEW w \in WriteSet,
         NEW r, r = Request(for, t, m, w)
  PROVE  r \in Requests /\ r.for = for /\ r.who = t /\ r.m = m /\ r.w = w
  BY DEF Request, Requests

(* A statement of the editor moves on: the flow of tab t becomes E, waiting  *)
(* for the answer to a call or done.                                        *)
EditorWaits(t, E) ==
  \/ E.pc = "idle" /\ queue' = <<>>
  \/ \E r \in Requests : /\ queue' = <<r>> /\ r.for = "editor" /\ r.who = t
                         /\ E.cur = ui' /\ AtCall(r, E) /\ (E.stmt = "read" \/ GridsOff)
                         /\ r.m # "commit" => Known(r.w, runs')
EditorAt(t, E) ==
  /\ \A u \in Tabs : u # t => ed[u].pc = "idle"
  /\ ed' = [ed EXCEPT ![t] = E] /\ UNCHANGED es /\ GridsQuiet
NewTypes ==
  /\ ui' \in Indicator /\ flag' \in BOOLEAN /\ eng' \in Engine /\ db' \in Seq(WriteSet)
  /\ runs' \in Nat /\ runs <= runs'
EditorServer(E) ==
  /\ GridsOff \/ (ui'.open = ui.open /\ eng' = eng /\ db' = db /\ E.pc # "implicit")
  /\ eng'.open <=> ((ui'.open /\ E.pc # "implicit") \/ Holding)
  /\ flag' => (eng'.open \/ E.pc = "implicit")
  /\ ~eng'.open => eng'.work = <<>>
  /\ Listed'
EditorWrites ==
  /\ \A k \in DOMAIN eng'.work :
       Known(eng'.work[k], runs') /\ (GridsOff => eng'.work[k].item = 0)
  /\ \A k \in DOMAIN db' : Known(db'[k], runs')
  /\ \A run, i : i \in 1..Items => Count(db', Of(run, i)) = Count(db, Of(run, i))

LEMMA EditorMoves ==
  ASSUME IInv, NEW t \in Tabs, NEW E \in Flow, EditorAt(t, E), EditorWaits(t, E), NewTypes,
         EditorServer(E), EditorWrites
  PROVE  IInv'
  <1> USE DEF EditorAt, NewTypes
  <1>1. /\ ed' \in [Tabs -> Flow] /\ ed'[t] = E /\ \A u \in Tabs : u # t => ed'[u].pc = "idle"
        /\ es' = es /\ es \in [Tabs -> Grid]
    BY DEF IInv, Types
  <1>2. queue' \in Seq(Requests)
    <2>1. queue' = <<>> \/ \E r \in Requests : queue' = <<r>>
      BY DEF EditorWaits
    <2> QED BY <2>1, OneCall
  <1>3. Types'
    BY <1>1, <1>2 DEF IInv, Types
  <1>4. Turn'
    <2>1. CASE E.pc = "idle" /\ queue' = <<>>
      BY <1>1, <2>1 DEF Turn, EditorsIdle, GridsQuiet
    <2>2. ASSUME NEW r \in Requests, queue' = <<r>>, r.for = "editor", r.who = t,
                 E.cur = ui', AtCall(r, E), E.stmt = "read" \/ GridsOff
          PROVE  Turn'
      <3>1. OfEditor(r)'
        BY <1>1, <2>2 DEF OfEditor, GridsQuiet, GridsOff
      <3> QED BY <2>2, <3>1 DEF Turn
    <2> QED BY <2>1, <2>2 DEF EditorWaits
  <1>5. OneGrid' /\ GridWork'
    <2>1. CASE GridsOff
      BY <1>1, <2>1 DEF GridsOff, OneGrid, GridWork
    <2>2. CASE ui'.open = ui.open /\ eng' = eng
      BY <1>1, <2>2 DEF IInv, OneGrid, GridWork
    <2> QED BY <2>1, <2>2 DEF EditorServer
  <1>6. Server'
    <2>1. Implicit' <=> E.pc = "implicit"
      BY <1>1 DEF Implicit
    <2>2. Holding' <=> Holding
      BY <1>1 DEF Holding
    <2> QED BY <2>1, <2>2 DEF Server, EditorServer
  <1>7. Runs'
    <2>1. \A u \in Tabs : es[u].run \in Nat /\ es[u].saved \subseteq Nat
      BY <1>1 DEF Grid
    <2>2. \A u \in Tabs : es[u].run <= runs' /\ \A run \in es[u].saved : run <= runs'
      BY <2>1 DEF IInv, Types, Runs
    <2> QED BY <1>1, <2>2 DEF IInv, Runs
  <1>8. Writers'
    <2>1. GridsOff' <=> GridsOff
      BY <1>1 DEF GridsOff
    <2>2. \A k \in DOMAIN queue' : queue'[k].for = "editor" /\ queue'[k].m # "commit" => Known(queue'[k].w, runs')
      BY OneCall DEF EditorWaits
    <2> QED BY <2>1, <2>2 DEF Writers, EditorWrites
  <1>9. Ledger'
    BY <1>1 DEF IInv, Ledger, EditorWrites
  <1> QED BY <1>3, <1>4, <1>5, <1>6, <1>7, <1>8, <1>9 DEF IInv, EditorServer

(* A grid moves on: the session of tab t becomes G.                          *)
GridAt(t, G) ==
  /\ EditorsIdle /\ ~ui.open /\ UNCHANGED <<ui, ed>>
  /\ es' = [es EXCEPT ![t] = G] /\ \A u \in Tabs : u # t => es[u].pc = "off"
GridWaits(t, G) ==
  \/ G.pc \in {"off", "editing"} /\ queue' = <<>>
  \/ \E r \in Requests : queue' = <<r>> /\ r.for = "edit" /\ r.who = t /\ AtStep(r, G)
GridServer(G) ==
  /\ eng'.open <=> G.pc \in Busy
  /\ flag' => eng'.open
  /\ ~eng'.open => eng'.work = <<>>
  /\ G.pc = "editing" => eng'.work = <<>>
  /\ G.pc = "applying" => G.item \in 1..Items /\ eng'.work = Sent(G.run, G.item - 1)
  /\ G.pc = "committing" => eng'.work = Sent(G.run, Items)
GridRun(t, G) ==
  /\ G.run # 0
  /\ \/ G.run = es[t].run /\ es[t].pc # "off" /\ G.saved = es[t].saved
     \/ /\ G.run = es[t].run /\ es[t].pc # "off"
        /\ G.saved = es[t].saved \union {G.run} /\ G.pc = "off"
     \/ G.run = runs + 1 /\ runs' = runs + 1 /\ G.saved = es[t].saved
GridWrites(G) ==
  /\ \A k \in DOMAIN eng'.work : Known(eng'.work[k], runs')
  /\ \A k \in DOMAIN db' : Known(db'[k], runs')
  /\ \A run, i : i \in 1..Items /\ run # G.run => Count(db', Of(run, i)) = Count(db, Of(run, i))
  /\ \A i \in 1..Items : /\ G.run \in G.saved => Count(db', Of(G.run, i)) = 1
                         /\ G.run \notin G.saved => Count(db', Of(G.run, i)) = 0

LEMMA GridMoves ==
  ASSUME IInv, NEW t \in Tabs, NEW G \in Grid, GridAt(t, G), GridWaits(t, G), NewTypes,
         GridServer(G), GridRun(t, G), GridWrites(G)
  PROVE  IInv'
  <1> USE DEF GridAt, NewTypes
  <1>1. /\ es' \in [Tabs -> Grid] /\ es'[t] = G /\ \A u \in Tabs : u # t => es'[u] = es[u]
        /\ es \in [Tabs -> Grid]
    BY DEF IInv, Types
  <1>2. queue' \in Seq(Requests)
    <2>1. queue' = <<>> \/ \E r \in Requests : queue' = <<r>>
      BY DEF GridWaits
    <2> QED BY <2>1, OneCall
  <1>3. Types'
    BY <1>1, <1>2 DEF IInv, Types
  <1>4. Turn'
    <2>1. CASE G.pc \in {"off", "editing"} /\ queue' = <<>>
      BY <1>1, <2>1 DEF Turn, EditorsIdle, GridsQuiet
    <2>2. ASSUME NEW r \in Requests, queue' = <<r>>, r.for = "edit", r.who = t, AtStep(r, G)
          PROVE  Turn'
      <3>1. OfEdit(r)'
        BY <1>1, <2>2 DEF OfEdit, EditorsIdle
      <3> QED BY <2>2, <3>1 DEF Turn
    <2> QED BY <2>1, <2>2 DEF GridWaits
  <1>5. OneGrid' /\ GridWork' /\ Listed'
    <2>1. OneGrid' /\ Listed'
      BY <1>1 DEF OneGrid, Listed
    <2>2. GridWork'
      BY <1>1 DEF GridWork, GridServer, GridWaits, AtStep
    <2> QED BY <2>1, <2>2
  <1>6. Server'
    <2>1. Holding' <=> G.pc \in Busy
      BY <1>1 DEF Holding, Busy
    <2>2. ~Implicit'
      BY DEF EditorsIdle, Implicit
    <2> QED BY <2>1, <2>2 DEF Server, GridServer
  <1>7. Runs'
    <2> USE DEF GridRun
    <2>1. \A u \in Tabs : /\ es[u].run \in Nat /\ es[u].saved \subseteq Nat
                          /\ es[u].run <= runs /\ \A run \in es[u].saved : run <= runs
      BY <1>1 DEF Grid, IInv, Runs
    <2>2. /\ \A u, v \in Tabs : es[u].run # 0 /\ es[u].run = es[v].run => u = v
          /\ \A u, v \in Tabs : es[u].run \in es[v].saved => u = v /\ es[u].pc = "off"
          /\ \A u \in Tabs : es[u].pc # "off" => es[u].run # 0
          /\ runs \in Nat
      BY DEF IInv, Types, Runs
    <2>3. \A u \in Tabs : es'[u].run <= runs' /\ \A run \in es'[u].saved : run <= runs'
      BY <1>1, <2>1, <2>2 DEF Grid
    <2>4. \A u \in Tabs : u # t => es[u].run # G.run /\ G.run \notin es[u].saved
      <3> SUFFICES ASSUME NEW u \in Tabs, u # t PROVE es[u].run # G.run /\ G.run \notin es[u].saved
        OBVIOUS
      <3>1. CASE G.run = es[t].run
        BY <2>2, <3>1
      <3>2. CASE G.run = runs + 1
        BY <2>1, <2>2, <3>2
      <3> QED BY <3>1, <3>2
    <2>5. \A u, v \in Tabs : es'[u].run # 0 /\ es'[u].run = es'[v].run => u = v
      BY <1>1, <2>2, <2>4
    <2>6. \A u \in Tabs : es[u].run \in G.saved /\ u # t => FALSE
      BY <2>2, <2>4
    <2>7. G.run \in G.saved => G.pc = "off"
      BY <2>1, <2>2
    <2>8. \A u, v \in Tabs : es'[u].run \in es'[v].saved => u = v /\ es'[u].pc = "off"
      BY <1>1, <2>2, <2>4, <2>6, <2>7
    <2>9. \A u \in Tabs : es'[u].pc # "off" => es'[u].run # 0
      BY <1>1, <2>2
    <2> QED BY <2>3, <2>5, <2>8, <2>9 DEF Runs
  <1>8. Writers'
    <2>1. GridsOff' => G.pc = "off"
      BY <1>1 DEF GridsOff
    <2>2. \A k \in DOMAIN queue' : queue'[k].for # "editor"
      BY OneCall DEF GridWaits
    <2>3. GridsOff' => eng'.work = <<>>
      BY <2>1 DEF GridServer, Busy
    <2> QED BY <2>2, <2>3, OneCall DEF Writers, GridWrites
  <1>9. Ledger'
    <2> SUFFICES ASSUME NEW u \in Tabs, NEW i \in 1..Items
                 PROVE  /\ \A run \in es'[u].saved : Count(db', Of(run, i)) = 1
                        /\ es'[u].run \notin es'[u].saved => Count(db', Of(es'[u].run, i)) = 0
      BY DEF Ledger
    <2>1. /\ \A run \in es[u].saved : Count(db, Of(run, i)) = 1
          /\ es[u].run \notin es[u].saved => Count(db, Of(es[u].run, i)) = 0
      BY DEF IInv, Ledger
    <2>2. CASE u = t
      <3>1. ASSUME NEW run \in G.saved PROVE Count(db', Of(run, i)) = 1
        <4>1. CASE run = G.run
          BY <3>1, <4>1 DEF GridWrites
        <4>2. CASE run # G.run
          <5>1. run \in es[t].saved
            BY <3>1, <4>2 DEF GridRun
          <5> QED BY <2>1, <2>2, <4>2, <5>1 DEF GridWrites
        <4> QED BY <4>1, <4>2
      <3> QED BY <1>1, <2>2, <3>1 DEF GridWrites
    <2>3. CASE u # t
      <3>1. es'[u].run # G.run /\ G.run \notin es'[u].saved
        BY <1>1, <1>7, <2>3 DEF Runs, GridRun
      <3> QED BY <1>1, <2>1, <2>3, <3>1 DEF GridWrites
    <2> QED BY <2>2, <2>3
  <1> QED BY <1>3, <1>4, <1>5, <1>6, <1>7, <1>8, <1>9 DEF IInv

----------------------------------------------------------------------------
LEMMA BlankTypes ==
  /\ Idle \in Indicator /\ ~Idle.open /\ NoTx \in Engine /\ ~NoTx.open /\ NoTx.work = <<>>
  /\ NoRun \in Flow /\ NoRun.pc = "idle"
  /\ NoEdit \in Grid /\ NoEdit.pc = "off" /\ NoEdit.run = 0 /\ NoEdit.saved = {}
  /\ NoWrite \in WriteSet /\ {"begin", "commit", "rollback", "write"} \subseteq Kinds
  <1>1. <<>> \in Seq(Nat) /\ <<>> \in Seq(WriteSet)
    OBVIOUS
  <1>2. Idle \in Indicator /\ ~Idle.open
    BY <1>1 DEF Idle, Indicator
  <1>3. NoTx \in Engine /\ ~NoTx.open /\ NoTx.work = <<>>
    BY <1>1 DEF NoTx, Engine
  <1>4. NoRun \in Flow /\ NoRun.pc = "idle"
    BY <1>2 DEF NoRun, Flow, EditorPcs, Kinds
  <1>5. NoEdit \in Grid /\ NoEdit.pc = "off" /\ NoEdit.run = 0 /\ NoEdit.saved = {}
    BY DEF NoEdit, Grid, EditPcs
  <1> QED BY <1>2, <1>3, <1>4, <1>5 DEF NoWrite, WriteSet, Kinds

LEMMA InitHolds == ASSUME ConstantsAssumption, Init PROVE IInv
  <1>1. /\ ui = Idle /\ queue = <<>> /\ flag = FALSE /\ eng = NoTx /\ db = <<>> /\ runs = 0
        /\ \A t \in Tabs : ed[t] = NoRun /\ es[t] = NoEdit
        /\ ed \in [Tabs -> Flow] /\ es \in [Tabs -> Grid]
    BY BlankTypes DEF Init
  <1>2. <<>> \in Seq(WriteSet) /\ <<>> \in Seq(Requests) /\ DOMAIN <<>> = {}
    OBVIOUS
  <1>3. Types
    BY <1>1, <1>2, BlankTypes DEF Types
  <1>4. Turn /\ OneGrid
    BY <1>1, BlankTypes DEF Turn, OneGrid, EditorsIdle, GridsQuiet
  <1>5. Server /\ Listed
    BY <1>1, BlankTypes DEF Server, Listed, Holding, Busy
  <1>6. GridWork /\ Runs
    BY <1>1, BlankTypes DEF GridWork, Runs
  <1>7. Writers
    BY <1>1, <1>2, BlankTypes DEF Writers
  <1>8. Ledger
    BY <1>1, BlankTypes, CountEmpty DEF Ledger
  <1> QED BY <1>3, <1>4, <1>5, <1>6, <1>7, <1>8 DEF IInv

(* Nothing is under way when something is started.                           *)
LEMMA AtRestIdle ==
  ASSUME IInv, Quiet
  PROVE  queue = <<>> /\ EditorsIdle /\ GridsQuiet /\ ~Implicit
  <1>1. queue = <<>>
    <2> SUFFICES ASSUME NEW r \in Requests, OfEditor(r) \/ OfEdit(r) PROVE FALSE
      BY DEF IInv, Turn
    <2>1. ed[r.who].pc = "idle" /\ es[r.who].pc \in {"off", "editing"}
      BY DEF Quiet, Requests
    <2>2. ~OfEditor(r)
      BY <2>1 DEF OfEditor, AtCall, AtVerb, AtBegin, AtQuery, AtImplicit
    <2>3. ~OfEdit(r)
      BY <2>1 DEF OfEdit, AtStep
    <2> QED BY <2>2, <2>3
  <1> QED BY <1>1 DEF Quiet, EditorsIdle, GridsQuiet, Implicit

----------------------------------------------------------------------------
(* The user: one thing is started when nothing is under way.                *)

LEMMA RunStmtStep ==
  ASSUME ConstantsAssumption, OneAtATime, IInv, NEW t \in Tabs, NEW stmt \in Stmts, RunStmt(t, stmt)
  PROVE  IInv'
  <1>1. PICK pc : pc = IF stmt \in Verbs THEN "verb" ELSE IF BeginFirst(stmt) THEN "begin" ELSE "query"
    OBVIOUS
  <1>2. PICK m : m = IF pc = "begin" THEN "begin" ELSE stmt
    OBVIOUS
  <1>3. PICK n \in Nat : n = runs + 1
    BY DEF IInv, Types
  <1>4. PICK E : E = [pc |-> pc, stmt |-> stmt, run |-> n, cur |-> ui]
    OBVIOUS
  <1>5. PICK w : w = [run |-> n, item |-> 0]
    OBVIOUS
  <1>6. stmt \in Kinds /\ pc \in EditorPcs /\ pc \notin {"idle", "implicit"} /\ m \in Kinds
    BY <1>1, <1>2 DEF ConstantsAssumption, EditorPcs, Kinds
  <1>7. /\ E \in Flow /\ E.pc = pc /\ E.stmt = stmt /\ E.run = n /\ E.cur = ui
        /\ w \in WriteSet /\ w.run = n /\ w.item = 0
    BY <1>4, <1>5, <1>6 DEF Flow, WriteSet, IInv, Types
  <1>8. PICK r \in Requests : /\ r = Request("editor", t, m, w) /\ r.for = "editor" /\ r.who = t
                              /\ r.m = m /\ r.w = w
    BY <1>6, <1>7, RequestIs
  <1>9. /\ Quiet /\ (stmt = "read" \/ GridsOff) /\ ~Refused(stmt)
        /\ ed' = [ed EXCEPT ![t] = E] /\ queue' = Append(queue, r) /\ runs' = n
        /\ UNCHANGED <<ui, es, flag, eng, db>>
    BY <1>1, <1>2, <1>3, <1>4, <1>5, <1>8 DEF RunStmt, MayRun, OneAtATime, GridsOff
  <1>10. queue = <<>> /\ EditorsIdle /\ GridsQuiet /\ ~Implicit
    BY <1>9, AtRestIdle
  <1>11. queue' = <<r>>
    BY <1>9, <1>10, OneCall
  <1>12. AtCall(r, E)
    <2>1. CASE pc = "verb"
      BY <1>1, <1>2, <1>7, <1>8, <1>9, <2>1 DEF AtCall, AtVerb, Refused
    <2>2. CASE pc = "begin"
      BY <1>1, <1>2, <1>7, <1>8, <2>2 DEF AtCall, AtBegin, BeginFirst
    <2>3. CASE pc = "query"
      BY <1>1, <1>2, <1>7, <1>8, <1>9, <2>3 DEF AtCall, AtQuery, BeginFirst, Refused, Verbs
    <2> QED BY <1>1, <2>1, <2>2, <2>3
  <1>13. Known(r.w, runs') /\ runs' \in Nat /\ runs <= runs'
    BY <1>3, <1>7, <1>8, <1>9 DEF Known, IInv, Types
  <1>14. \A x : Known(x, runs) /\ x \in WriteSet => Known(x, runs')
    BY <1>3, <1>9 DEF Known, WriteSet, IInv, Types
  <1>15. /\ \A k \in DOMAIN eng.work : eng.work[k] \in WriteSet
         /\ \A k \in DOMAIN db : db[k] \in WriteSet
    <2>1. eng.work \in Seq(WriteSet) /\ db \in Seq(WriteSet)
      BY DEF IInv, Types, Engine
    <2> QED BY <2>1, ElementOfSeq, LenProperties
  <1>16. EditorWrites
    <2>1. /\ \A k \in DOMAIN eng.work : Known(eng.work[k], runs')
          /\ \A k \in DOMAIN db : Known(db[k], runs')
          /\ \A k \in DOMAIN eng.work : GridsOff => eng.work[k].item = 0
      BY <1>14, <1>15 DEF IInv, Writers
    <2> QED BY <1>9, <2>1 DEF EditorWrites
  <1>17. EditorServer(E)
    BY <1>6, <1>7, <1>9, <1>10 DEF IInv, Server, Listed, EditorServer
  <1>18. EditorAt(t, E)
    BY <1>9, <1>10 DEF EditorAt, EditorsIdle
  <1>19. EditorWaits(t, E)
    BY <1>7, <1>8, <1>9, <1>11, <1>12, <1>13 DEF EditorWaits
  <1>20. NewTypes
    BY <1>9, <1>13 DEF IInv, Types, NewTypes
  <1> QED BY <1>7, <1>16, <1>17, <1>18, <1>19, <1>20, EditorMoves

LEMMA ToggleStep == ASSUME OneAtATime, IInv, Toggle PROVE IInv'
  <1>1. PICK b \in BOOLEAN : b = ~ui.manual
    BY DEF IInv, Types, Indicator
  <1>2. /\ Quiet /\ ~ui.open /\ UNCHANGED <<ed, es, queue, flag, eng, db, runs>>
        /\ ui' = [Idle EXCEPT !.manual = b]
    BY <1>1 DEF Toggle, OneAtATime
  <1>3. queue = <<>> /\ EditorsIdle /\ GridsQuiet /\ DOMAIN queue = {}
    BY <1>2, AtRestIdle, OneCall
  <1>4. ui' \in Indicator /\ ~ui'.open
    BY <1>2, BlankTypes DEF Indicator
  <1>5. Types'
    BY <1>2, <1>4 DEF IInv, Types
  <1>6. Turn'
    BY <1>2, <1>3 DEF Turn, EditorsIdle, GridsQuiet
  <1>7. OneGrid' /\ Listed'
    BY <1>2, <1>4 DEF IInv, OneGrid, Listed
  <1>8. Server'
    BY <1>2, <1>4 DEF IInv, Server, Holding, Implicit
  <1>9. GridWork' /\ Runs' /\ Ledger'
    BY <1>2 DEF IInv, GridWork, Runs, Ledger
  <1>10. Writers'
    BY <1>2, <1>3 DEF IInv, Writers, GridsOff
  <1> QED BY <1>5, <1>6, <1>7, <1>8, <1>9, <1>10 DEF IInv

(* What a grid asks for when nothing is under way.                           *)
LEMMA GridStarts ==
  ASSUME IInv, Quiet, NEW t \in Tabs, NEW G \in Grid, NEW m \in Kinds, NEW w \in WriteSet,
         queue' = Ask(t, m, w), UNCHANGED <<ui, ed, flag, eng, db>>, runs' \in Nat, runs <= runs',
         ~ui.open, es' = [es EXCEPT ![t] = G], \A u \in Tabs : u # t => es[u].pc = "off",
         \/ /\ G.pc = "beginning" /\ m = "begin" /\ es[t].pc = "off"
            /\ G.run = runs + 1 /\ runs' = runs + 1 /\ G.saved = es[t].saved
         \/ /\ es[t].pc = "editing" /\ G.run = es[t].run /\ G.saved = es[t].saved
            /\ \/ G.pc = "applying" /\ G.item = 1 /\ m = "write" /\ w = [run |-> G.run, item |-> 1]
               \/ G.pc = "discarding" /\ m = "rollback",
         ConstantsAssumption
  PROVE  IInv'
  <1>1. queue = <<>> /\ EditorsIdle /\ ~Implicit
    BY AtRestIdle
  <1>2. PICK r \in Requests : /\ r = Request("edit", t, m, w) /\ r.for = "edit" /\ r.who = t
                              /\ r.m = m /\ r.w = w
    BY RequestIs
  <1>3. queue' = <<r>>
    BY <1>1, <1>2, OneCall DEF Ask
  <1>4. GridAt(t, G) /\ NewTypes
    BY <1>1 DEF GridAt, NewTypes, IInv, Types
  <1>5. AtStep(r, G)
    BY <1>2 DEF AtStep
  <1>6. GridWaits(t, G)
    BY <1>2, <1>3, <1>5 DEF GridWaits
  <1>7. eng.open <=> es[t].pc \in Busy
    <2>1. Holding <=> es[t].pc \in Busy
      BY DEF Holding, Busy
    <2> QED BY <1>1, <2>1 DEF IInv, Server
  <1>8. GridServer(G)
    <2>1. flag => eng.open
      BY <1>1 DEF IInv, Server
    <2>2. ~eng.open => eng.work = <<>>
      BY DEF IInv, Server
    <2>3. eng.work = <<>>
      BY <1>7, <2>2 DEF IInv, GridWork, Busy
    <2>4. Sent(G.run, 0) = <<>> /\ 1 \in 1..Items /\ 1 - 1 = 0
      <3>1. Sent(G.run, 0) = <<>>
        BY DEF Sent
      <3> QED BY <3>1 DEF ConstantsAssumption
    <2>5. eng'.open <=> G.pc \in Busy
      BY <1>7 DEF Busy
    <2>6. G.pc = "applying" => G.item \in 1..Items /\ eng.work = Sent(G.run, G.item - 1)
      BY <2>3, <2>4
    <2>7. G.pc \notin {"editing", "committing"}
      OBVIOUS
    <2> QED BY <2>1, <2>2, <2>5, <2>6, <2>7 DEF GridServer
  <1>9. GridRun(t, G)
    BY DEF GridRun, IInv, Runs, Types
  <1>10. \A x \in WriteSet : Known(x, runs) => Known(x, runs') /\ x.run # runs + 1
    BY DEF Known, WriteSet, IInv, Types
  <1>11. /\ \A k \in DOMAIN eng.work : eng.work[k] \in WriteSet /\ Known(eng.work[k], runs)
         /\ \A k \in DOMAIN db : db[k] \in WriteSet /\ Known(db[k], runs)
    <2>1. eng.work \in Seq(WriteSet) /\ db \in Seq(WriteSet)
      BY DEF IInv, Types, Engine
    <2> QED BY <2>1, ElementOfSeq, LenProperties DEF IInv, Writers
  <1>12. ASSUME NEW i \in 1..Items PROVE G.run \notin G.saved /\ Count(db, Of(G.run, i)) = 0
    <2>1. CASE es[t].pc = "editing" /\ G.run = es[t].run /\ G.saved = es[t].saved
      BY <2>1 DEF IInv, Runs, Ledger
    <2>2. CASE G.run = runs + 1 /\ G.saved = es[t].saved
      <3>1. \A run \in es[t].saved : run \in Nat /\ run <= runs
        BY DEF IInv, Types, Runs, Grid
      <3>2. \A k \in DOMAIN db : db[k] \notin Of(G.run, i)
        BY <1>10, <1>11, <2>2 DEF Of
      <3>3. db \in Seq(WriteSet) /\ runs \in Nat
        BY DEF IInv, Types
      <3> QED BY <2>2, <3>1, <3>2, <3>3, CountNone
    <2> QED BY <2>1, <2>2
  <1>13. GridWrites(G)
    BY <1>10, <1>11, <1>12 DEF GridWrites
  <1> QED BY <1>4, <1>6, <1>8, <1>9, <1>13, GridMoves

LEMMA BeginEditStep ==
  ASSUME ConstantsAssumption, OneAtATime, IInv, NEW t \in Tabs, BeginEdit(t) PROVE IInv'
  <1>1. PICK g \in Grid : g = es[t]
    BY DEF IInv, Types
  <1>2. PICK n \in Nat : n = runs + 1 /\ runs \in Nat
    BY DEF IInv, Types
  <1>3. PICK G : G = [g EXCEPT !.pc = "beginning", !.run = n, !.tries = 0]
    OBVIOUS
  <1>4. G \in Grid /\ G.pc = "beginning" /\ G.run = n /\ G.saved = g.saved
    BY <1>3 DEF Grid, EditPcs
  <1>5. /\ Quiet /\ (\A u \in Tabs : es[u].pc = "off") /\ ~ui.open
        /\ es' = [es EXCEPT ![t] = G] /\ queue' = Ask(t, "begin", NoWrite) /\ runs' = n
        /\ UNCHANGED <<ui, ed, flag, eng, db>>
    BY <1>1, <1>2, <1>3 DEF BeginEdit, MayRun, OneAtATime
  <1>6. "begin" \in Kinds /\ NoWrite \in WriteSet /\ runs' \in Nat /\ runs <= runs'
    BY <1>2, <1>5, BlankTypes
  <1> QED BY <1>1, <1>2, <1>4, <1>5, <1>6, GridStarts

LEMMA ApplyStep ==
  ASSUME ConstantsAssumption, OneAtATime, IInv, NEW t \in Tabs, Apply(t) PROVE IInv'
  <1>1. PICK g \in Grid : g = es[t] /\ g.run \in Nat
    BY DEF IInv, Types, Grid
  <1>2. PICK G : G = [g EXCEPT !.pc = "applying", !.item = 1, !.tries = g.tries + 1]
            /\ g.tries + 1 \in Nat
    BY DEF Grid
  <1>3. G \in Grid /\ G.pc = "applying" /\ G.item = 1 /\ G.run = g.run /\ G.saved = g.saved
    <2>1. PICK n \in Nat : n = g.tries + 1
      BY <1>2
    <2>2. G = [g EXCEPT !.pc = "applying", !.item = 1, !.tries = n]
      BY <1>2, <2>1
    <2> QED BY <2>2 DEF Grid, EditPcs
  <1>4. PICK w \in WriteSet : w = [run |-> G.run, item |-> 1] /\ w = Item(t, 1)
    BY <1>1, <1>3 DEF WriteSet, Item
  <1>5. /\ Quiet /\ es[t].pc = "editing" /\ es' = [es EXCEPT ![t] = G]
        /\ queue' = Ask(t, "write", w) /\ UNCHANGED <<ui, ed, flag, eng, db, runs>>
    <2>1. es' = [es EXCEPT ![t].pc = "applying", ![t].item = 1, ![t].tries = @ + 1]
      BY DEF Apply
    <2>2. es' = [es EXCEPT ![t] = G]
      BY <1>1, <1>2, <2>1 DEF IInv, Types
    <2> QED BY <1>4, <2>2 DEF Apply, OneAtATime
  <1>6. ~ui.open /\ \A u \in Tabs : u # t => es[u].pc = "off"
    BY <1>5 DEF IInv, OneGrid
  <1>7. "write" \in Kinds /\ runs' \in Nat /\ runs <= runs'
    BY <1>5, BlankTypes DEF IInv, Types
  <1> QED BY <1>1, <1>3, <1>4, <1>5, <1>6, <1>7, GridStarts

LEMMA DiscardStep ==
  ASSUME ConstantsAssumption, OneAtATime, IInv, NEW t \in Tabs, Discard(t) PROVE IInv'
  <1>1. PICK g \in Grid : g = es[t]
    BY DEF IInv, Types
  <1>2. PICK G : G = [g EXCEPT !.pc = "discarding"]
    OBVIOUS
  <1>3. G \in Grid /\ G.pc = "discarding" /\ G.run = g.run /\ G.saved = g.saved
    BY <1>2 DEF Grid, EditPcs
  <1>4. /\ Quiet /\ es[t].pc = "editing" /\ es' = [es EXCEPT ![t] = G]
        /\ queue' = Ask(t, "rollback", NoWrite) /\ UNCHANGED <<ui, ed, flag, eng, db, runs>>
    <2>1. es' = [es EXCEPT ![t] = G]
      BY <1>1, <1>2 DEF Discard, IInv, Types
    <2> QED BY <2>1 DEF Discard, OneAtATime
  <1>5. ~ui.open /\ \A u \in Tabs : u # t => es[u].pc = "off"
    BY <1>4 DEF IInv, OneGrid
  <1>6. "rollback" \in Kinds /\ NoWrite \in WriteSet /\ runs' \in Nat /\ runs <= runs'
    BY <1>4, BlankTypes DEF IInv, Types
  <1> QED BY <1>1, <1>3, <1>4, <1>5, <1>6, GridStarts

----------------------------------------------------------------------------
(* What the server does with a call.                                        *)
Opened == [open |-> TRUE, work |-> <<>>]

LEMMA Served ==
  ASSUME OneAtATime, IInv, NEW r \in Requests, NEW ok \in BOOLEAN, Serve(r, ok)
  PROVE  /\ r.m = "begin" /\ ~flag /\ ~eng.open =>
              flag' \in BOOLEAN /\ eng' = Opened /\ db' = db
         /\ r.m = "commit" => ok /\ flag' = FALSE /\ eng' = NoTx /\ db' = db \o eng.work
         /\ r.m = "rollback" => flag' = FALSE /\ eng' = NoTx /\ db' = db
         /\ r.m = "read" => flag' = flag /\ eng' = eng /\ db' = db
         /\ r.m = "write" => flag' = flag /\ Written(ok, r.w)
         /\ r.m = "beginWith" => flag' = flag /\ OpenedAsTyped(ok)
         /\ r.m = "ddl" => flag' = flag /\ CommittedByDdl
  <1> flag \in BOOLEAN
    BY DEF IInv, Types
  <1>1. r.m = "begin" /\ ~flag /\ ~eng.open => flag' \in BOOLEAN /\ eng' = Opened /\ db' = db
    BY DEF Serve, ServeBegin, OneAtATime, Opened
  <1>2. r.m = "commit" => ok /\ flag' = FALSE /\ eng' = NoTx /\ db' = db \o eng.work
    BY DEF Serve, ServeCommit, OneAtATime
  <1>3. r.m = "rollback" => flag' = FALSE /\ eng' = NoTx /\ db' = db
    BY DEF Serve, ServeRollback, OneAtATime
  <1>4. /\ r.m = "read" => flag' = flag /\ eng' = eng /\ db' = db
        /\ r.m = "write" => flag' = flag /\ Written(ok, r.w)
        /\ r.m = "beginWith" => flag' = flag /\ OpenedAsTyped(ok)
        /\ r.m = "ddl" => flag' = flag /\ CommittedByDdl
    BY DEF Serve
  <1> QED BY <1>1, <1>2, <1>3, <1>4

(* The writes the server holds are of runs that were.                        *)
LEMMA Stored ==
  ASSUME IInv
  PROVE  /\ eng.work \in Seq(WriteSet) /\ db \in Seq(WriteSet) /\ eng \in Engine
         /\ \A k \in DOMAIN eng.work : /\ eng.work[k] \in WriteSet /\ Known(eng.work[k], runs)
                                       /\ GridsOff => eng.work[k].item = 0
         /\ \A k \in DOMAIN db : db[k] \in WriteSet /\ Known(db[k], runs)
  <1>1. eng.work \in Seq(WriteSet) /\ db \in Seq(WriteSet) /\ eng \in Engine
    BY DEF IInv, Types, Engine
  <1> QED BY <1>1, ElementOfSeq, LenProperties DEF IInv, Writers

LEMMA JoinedKnown ==
  ASSUME NEW s \in Seq(WriteSet), NEW t \in Seq(WriteSet), NEW n,
         \A k \in DOMAIN s : Known(s[k], n), \A k \in DOMAIN t : Known(t[k], n)
  PROVE  s \o t \in Seq(WriteSet) /\ \A k \in DOMAIN (s \o t) : Known((s \o t)[k], n)
  <1>1. s \o t \in Seq(WriteSet) /\ Len(s \o t) = Len(s) + Len(t) /\ Len(s) \in Nat /\ Len(t) \in Nat
    BY ConcatProperties, LenProperties
  <1>2. DOMAIN s = 1..Len(s) /\ DOMAIN t = 1..Len(t) /\ DOMAIN (s \o t) = 1..(Len(s) + Len(t))
    BY <1>1, LenProperties
  <1>3. ASSUME NEW k \in 1..(Len(s) + Len(t)) PROVE Known((s \o t)[k], n)
    <2>1. (s \o t)[k] = IF k <= Len(s) THEN s[k] ELSE t[k - Len(s)]
      BY ConcatProperties
    <2>2. CASE k <= Len(s)
      BY <1>1, <1>2, <2>1, <2>2
    <2>3. CASE ~(k <= Len(s))
      <3>1. k - Len(s) \in 1..Len(t)
        BY <1>1, <2>3
      <3> QED BY <1>2, <2>1, <2>3, <3>1
    <2> QED BY <2>2, <2>3
  <1> QED BY <1>1, <1>2, <1>3

LEMMA AddedKnown ==
  ASSUME NEW s \in Seq(WriteSet), NEW w \in WriteSet, NEW n,
         \A k \in DOMAIN s : Known(s[k], n), Known(w, n)
  PROVE  Append(s, w) \in Seq(WriteSet) /\ \A k \in DOMAIN Append(s, w) : Known(Append(s, w)[k], n)
  <1>1. /\ Append(s, w) \in Seq(WriteSet) /\ DOMAIN s = 1..Len(s) /\ Len(s) \in Nat
        /\ DOMAIN Append(s, w) = 1..(Len(s) + 1) /\ Append(s, w)[Len(s) + 1] = w
        /\ \A k \in 1..Len(s) : Append(s, w)[k] = s[k]
    BY AppendProperties, LenProperties
  <1> QED BY <1>1

LEMMA NothingStored ==
  ASSUME IInv, runs' = runs, db' = db, eng' = eng \/ eng' = NoTx \/ eng' = Opened
  PROVE  EditorWrites /\ eng' \in Engine /\ db' \in Seq(WriteSet)
  <1>1. /\ Opened \in Engine /\ NoTx \in Engine /\ DOMAIN <<>> = {}
        /\ Opened.work = <<>> /\ NoTx.work = <<>>
    <2>1. <<>> \in Seq(WriteSet)
      OBVIOUS
    <2> QED BY <2>1, OneCall DEF Opened, NoTx, Engine
  <1>2. \A k \in DOMAIN eng'.work :
          Known(eng'.work[k], runs') /\ (GridsOff => eng'.work[k].item = 0)
    <2>1. CASE eng' = eng
      BY <2>1, Stored
    <2>2. CASE eng' = NoTx
      BY <1>1, <2>2
    <2>3. CASE eng' = Opened
      BY <1>1, <2>3
    <2> QED BY <2>1, <2>2, <2>3
  <1> QED BY <1>1, <1>2, Stored DEF EditorWrites

(* The statements of a transaction are no rows of an edit session.           *)
LEMMA WorkStored ==
  ASSUME IInv, GridsOff, runs' = runs, eng' = NoTx, db' = db \o eng.work
  PROVE  EditorWrites /\ eng' \in Engine /\ db' \in Seq(WriteSet)
  <1>1. NoTx \in Engine /\ DOMAIN NoTx.work = {}
    BY BlankTypes, OneCall
  <1>2. db' \in Seq(WriteSet) /\ \A k \in DOMAIN db' : Known(db'[k], runs)
    BY Stored, JoinedKnown
  <1>3. ASSUME NEW run, NEW i \in 1..Items PROVE Count(db', Of(run, i)) = Count(db, Of(run, i))
    <2>1. \A k \in DOMAIN eng.work : eng.work[k] \notin Of(run, i)
      BY Stored DEF Of
    <2>2. Count(eng.work, Of(run, i)) = 0
      BY <2>1, Stored, CountNone
    <2>3. Count(db, Of(run, i)) \in Nat
      BY Stored, PlacesFinite
    <2> QED BY <2>2, <2>3, Stored, CountConcat
  <1> QED BY <1>1, <1>2, <1>3 DEF EditorWrites

LEMMA WriteStored ==
  ASSUME IInv, GridsOff, runs' = runs, NEW ok \in BOOLEAN, NEW w \in WriteSet, Known(w, runs),
         w.item = 0, Written(ok, w)
  PROVE  EditorWrites /\ eng' \in Engine /\ db' \in Seq(WriteSet)
  <1>1. CASE ~ok
    BY <1>1, NothingStored DEF Written
  <1>2. CASE ok /\ eng.open
    <2>1. db' = db /\ eng' = [eng EXCEPT !.work = Append(eng.work, w)]
      BY <1>2 DEF Written
    <2>2. PICK s : s = Append(eng.work, w)
      OBVIOUS
    <2>3. s \in Seq(WriteSet) /\ \A k \in DOMAIN s : Known(s[k], runs)
      BY <2>2, Stored, AddedKnown
    <2>4. eng' \in Engine /\ eng'.work = s
      BY <2>1, <2>2, <2>3, Stored DEF Engine
    <2>5. \A k \in DOMAIN s : s[k].item = 0
      BY <2>2, Stored, AppendProperties, LenProperties
    <2> QED BY <2>1, <2>3, <2>4, <2>5, Stored DEF EditorWrites
  <1>3. CASE ok /\ ~eng.open
    <2>1. db' = Append(db, w) /\ eng' = eng
      BY <1>3 DEF Written
    <2>2. db' \in Seq(WriteSet) /\ \A k \in DOMAIN db' : Known(db'[k], runs)
      BY <2>1, Stored, AddedKnown
    <2>3. ASSUME NEW run, NEW i \in 1..Items PROVE Count(db', Of(run, i)) = Count(db, Of(run, i))
      <3>1. w \notin Of(run, i)
        BY DEF Of
      <3>2. Count(db, Of(run, i)) \in Nat
        BY Stored, PlacesFinite
      <3> QED BY <2>1, <3>1, <3>2, Stored, CountAppend
    <2> QED BY <2>1, <2>2, <2>3, Stored DEF EditorWrites
  <1> QED BY <1>1, <1>2, <1>3

----------------------------------------------------------------------------
(* The answer to a call of the editor.                                      *)

(* Where the answered statement stands, and what the server has open.        *)
Asked(r, E) ==
  /\ r \in Requests /\ queue = <<r>> /\ r.for = "editor" /\ OfEditor(r)
  /\ E \in Flow /\ E = ed[r.who] /\ E.cur = ui

LEMMA WhenAsked ==
  ASSUME IInv, NEW r, NEW E, Asked(r, E)
  PROVE  /\ r.who \in Tabs /\ r.w \in WriteSet /\ r.m \in Kinds /\ AtCall(r, E) /\ GridsQuiet
         /\ E.stmt = "read" \/ GridsOff
         /\ GridsOff => ~Holding
         /\ GridsOff => (eng.open <=> ui.open /\ E.pc # "implicit")
         /\ E.pc # "implicit" => (eng.open <=> ui.open \/ Holding)
         /\ flag => eng.open \/ E.pc = "implicit"
         /\ r.m # "commit" => Known(r.w, runs)
         /\ ~GridsOff => ~ui.open
  <1>1. r.who \in Tabs /\ r.w \in WriteSet /\ r.m \in Kinds
    BY DEF Asked, Requests
  <1>2. AtCall(r, E) /\ GridsQuiet /\ (E.stmt = "read" \/ GridsOff)
    BY DEF Asked, OfEditor
  <1>3. GridsOff => ~Holding
    BY DEF GridsOff, Holding, Busy
  <1>4. Implicit <=> E.pc = "implicit"
    BY <1>1 DEF Asked, OfEditor, Implicit
  <1>5. r.m # "commit" => Known(r.w, runs)
    BY OneCall DEF Asked, IInv, Writers
  <1>6. ~GridsOff => ~ui.open
    BY DEF IInv, OneGrid, GridsOff
  <1> QED BY <1>1, <1>2, <1>3, <1>4, <1>5, <1>6 DEF IInv, Server

LEMMA VerbStep ==
  ASSUME ConstantsAssumption, OneAtATime, IInv, NEW r, NEW E, Asked(r, E),
         NEW ok \in BOOLEAN, Serve(r, ok), VerbAnswered(r, ok), runs' = runs
  PROVE  IInv'
  <1>1. E.pc = "verb" /\ AtVerb(r, E) /\ GridsOff /\ ~Holding /\ (eng.open <=> ui.open) /\ (flag => eng.open)
    BY WhenAsked DEF VerbAnswered, Asked, AtCall, AtBegin, AtQuery, AtImplicit, AtVerb, Verbs
  <1>2. PICK F : F = [E EXCEPT !.pc = "idle"]
    OBVIOUS
  <1>3. F \in Flow /\ F.pc = "idle"
    BY <1>2 DEF Asked, Flow, EditorPcs
  <1>4. PICK b \in BOOLEAN : b = (E.stmt = "begin")
    OBVIOUS
  <1>5. ui' = [E.cur EXCEPT !.open = b, !.log = <<>>] /\ queue' = <<>> /\ UNCHANGED es
    BY <1>4, OneCall DEF VerbAnswered, Rejects, VerbOpens, Asked
  <1>6. ed' = [ed EXCEPT ![r.who] = F]
    BY <1>2 DEF VerbAnswered, Ran, Asked, IInv, Types
  <1>7. ui' \in Indicator /\ ui'.open = b
    <2>1. E.cur \in Indicator /\ <<>> \in Seq(Nat)
      BY DEF Asked, Flow
    <2> QED BY <1>5, <2>1 DEF Indicator
  <1>8. /\ flag' \in BOOLEAN
        /\ \/ b /\ eng' = Opened /\ db' = db
           \/ ~b /\ ~flag' /\ eng' = NoTx /\ (db' = db \/ db' = db \o eng.work)
    <2>1. r \in Requests
      BY DEF Asked
    <2>2. CASE E.stmt = "begin"
      <3>1. r.m = "begin" /\ ~flag /\ ~eng.open
        BY <1>1, <2>2 DEF AtVerb, Asked
      <3> QED BY <1>4, <2>1, <2>2, <3>1, Served
    <2>3. CASE E.stmt = "commit"
      BY <1>1, <1>4, <2>1, <2>3, Served DEF AtVerb
    <2>4. CASE E.stmt = "rollback"
      BY <1>1, <1>4, <2>1, <2>4, Served DEF AtVerb
    <2> QED BY <1>1, <2>2, <2>3, <2>4 DEF AtVerb, Verbs
  <1>9. EditorWrites /\ eng' \in Engine /\ db' \in Seq(WriteSet)
    BY <1>1, <1>8, NothingStored, WorkStored
  <1>10. /\ eng'.open = b /\ eng'.work = <<>> /\ DOMAIN eng'.work = {}
    <2>1. CASE b /\ eng' = Opened
      BY <2>1, OneCall DEF Opened
    <2>2. CASE ~b /\ eng' = NoTx
      BY <2>2, OneCall DEF NoTx
    <2> QED BY <1>8, <2>1, <2>2
  <1>11. Listed'
    BY <1>10 DEF Listed
  <1>12. EditorServer(F)
    BY <1>1, <1>3, <1>7, <1>8, <1>10, <1>11 DEF EditorServer
  <1>13. NewTypes
    BY <1>7, <1>8, <1>9 DEF NewTypes, IInv, Types
  <1>14. EditorAt(r.who, F)
    BY <1>5, <1>6, WhenAsked DEF EditorAt, Asked, OfEditor
  <1>15. EditorWaits(r.who, F)
    BY <1>3, <1>5 DEF EditorWaits
  <1> QED BY <1>3, <1>9, <1>12, <1>13, <1>14, <1>15, WhenAsked, EditorMoves

LEMMA BeginStep ==
  ASSUME ConstantsAssumption, OneAtATime, IInv, NEW r, NEW E, Asked(r, E),
         NEW ok \in BOOLEAN, Serve(r, ok), BeginAnswered(r, ok), runs' = runs
  PROVE  IInv'
  <1>1. E.pc = "begin" /\ AtBegin(r, E) /\ GridsOff /\ ~Holding /\ (eng.open <=> ui.open) /\ (flag => eng.open)
    BY WhenAsked DEF BeginAnswered, Asked, AtCall, AtBegin, AtQuery, AtImplicit, AtVerb
  <1>2. PICK cur : cur = [E.cur EXCEPT !.open = TRUE, !.log = <<>>]
    OBVIOUS
  <1>3. cur \in Indicator /\ cur.open
    <2>1. E.cur \in Indicator /\ <<>> \in Seq(Nat)
      BY DEF Asked, Flow
    <2> QED BY <1>2, <2>1 DEF Indicator
  <1>4. PICK F : F = [E EXCEPT !.pc = "query", !.cur = cur]
    OBVIOUS
  <1>5. F \in Flow /\ F.pc = "query" /\ F.cur = cur /\ F.stmt = "write" /\ F.run = E.run
    BY <1>1, <1>3, <1>4 DEF Asked, Flow, EditorPcs, AtBegin
  <1>6. PICK q \in Requests : /\ q = Request("editor", r.who, "write", r.w) /\ q.for = "editor"
                              /\ q.who = r.who /\ q.m = "write" /\ q.w = r.w
    BY BlankTypes, WhenAsked, RequestIs
  <1>7. ui' = cur /\ queue' = <<q>> /\ UNCHANGED es
    BY <1>1, <1>2, <1>6, OneCall DEF BeginAnswered, Rejects, Asked, AtBegin
  <1>8. ed' = [ed EXCEPT ![r.who] = F]
    <2>1. ed' = [ed EXCEPT ![r.who].pc = "query", ![r.who].cur = cur]
      BY <1>2 DEF BeginAnswered, Rejects, Asked
    <2> QED BY <1>4, <2>1 DEF Asked, IInv, Types
  <1>9. r.m = "begin" /\ ~flag /\ ~eng.open
    BY <1>1 DEF AtBegin, Asked
  <1>10. flag' \in BOOLEAN /\ eng' = Opened /\ db' = db
    BY <1>9, Served DEF Asked
  <1>11. EditorWrites /\ eng' \in Engine /\ db' \in Seq(WriteSet)
    BY <1>10, NothingStored
  <1>12. eng'.open /\ eng'.work = <<>> /\ DOMAIN eng'.work = {}
    BY <1>10, OneCall DEF Opened
  <1>13. Listed'
    BY <1>12 DEF Listed
  <1>14. EditorServer(F)
    BY <1>1, <1>3, <1>5, <1>7, <1>12, <1>13 DEF EditorServer
  <1>15. NewTypes
    BY <1>3, <1>7, <1>10, <1>11 DEF NewTypes, IInv, Types
  <1>16. EditorAt(r.who, F)
    BY <1>7, <1>8, WhenAsked DEF EditorAt, Asked, OfEditor
  <1>17. AtCall(q, F)
    <2>1. r.w.run = E.run /\ r.w.item = 0
      BY <1>1, WhenAsked DEF AtCall
    <2> QED BY <1>3, <1>5, <1>6, <2>1 DEF AtCall, AtQuery, Verbs
  <1>18. EditorWaits(r.who, F)
    <2>1. Known(q.w, runs')
      BY <1>6, <1>9, WhenAsked
    <2> QED BY <1>1, <1>5, <1>6, <1>7, <1>17, <2>1 DEF EditorWaits
  <1> QED BY <1>5, <1>11, <1>14, <1>15, <1>16, <1>18, WhenAsked, EditorMoves

LEMMA ImplicitStep ==
  ASSUME ConstantsAssumption, OneAtATime, IInv, NEW r, NEW E, Asked(r, E),
         NEW ok \in BOOLEAN, Serve(r, ok), ImplicitAnswered(r), runs' = runs
  PROVE  IInv'
  <1>1. E.pc = "implicit" /\ AtImplicit(r, E) /\ GridsOff /\ ~Holding /\ ~eng.open
    BY WhenAsked DEF ImplicitAnswered, Asked, AtCall, AtBegin, AtQuery, AtImplicit, AtVerb
  <1>2. PICK F : F = [E EXCEPT !.pc = "idle"]
    OBVIOUS
  <1>3. F \in Flow /\ F.pc = "idle"
    BY <1>2 DEF Asked, Flow, EditorPcs
  <1>4. ui' = [E.cur EXCEPT !.open = FALSE, !.log = <<>>] /\ queue' = <<>> /\ UNCHANGED es
    BY OneCall DEF ImplicitAnswered, Asked
  <1>5. ed' = [ed EXCEPT ![r.who] = F]
    BY <1>2 DEF ImplicitAnswered, Asked, IInv, Types
  <1>6. ui' \in Indicator /\ ~ui'.open
    <2>1. E.cur \in Indicator /\ <<>> \in Seq(Nat)
      BY DEF Asked, Flow
    <2> QED BY <1>4, <2>1 DEF Indicator
  <1>7. flag' = FALSE /\ flag' \in BOOLEAN /\ eng' = NoTx /\ db' = db \o eng.work
    <2>1. flag' = FALSE /\ eng' = NoTx /\ db' = db \o eng.work
      BY <1>1, Served DEF Asked, AtImplicit
    <2> QED BY <2>1
  <1>8. EditorWrites /\ eng' \in Engine /\ db' \in Seq(WriteSet)
    BY <1>1, <1>7, WorkStored
  <1>9. ~eng'.open /\ eng'.work = <<>> /\ Listed'
    BY <1>6, <1>7, BlankTypes DEF Listed
  <1>10. EditorServer(F)
    BY <1>1, <1>3, <1>6, <1>7, <1>9 DEF EditorServer
  <1>11. NewTypes
    BY <1>6, <1>7, <1>8 DEF NewTypes, IInv, Types
  <1>12. EditorAt(r.who, F)
    BY <1>4, <1>5, WhenAsked DEF EditorAt, Asked, OfEditor
  <1>13. EditorWaits(r.who, F)
    BY <1>3, <1>4 DEF EditorWaits
  <1> QED BY <1>3, <1>8, <1>10, <1>11, <1>12, <1>13, WhenAsked, EditorMoves

LEMMA LogGrows ==
  ASSUME NEW s \in Seq(Nat), NEW n \in Nat
  PROVE  /\ Append(s, n) \in Seq(Nat)
         /\ \A j \in DOMAIN s : j \in DOMAIN Append(s, n) /\ Append(s, n)[j] = s[j]
         /\ \E j \in DOMAIN Append(s, n) : Append(s, n)[j] = n
  <1>1. /\ Append(s, n) \in Seq(Nat) /\ DOMAIN s = 1..Len(s) /\ Len(s) \in Nat
        /\ DOMAIN Append(s, n) = 1..(Len(s) + 1) /\ Append(s, n)[Len(s) + 1] = n
        /\ \A j \in 1..Len(s) : Append(s, n)[j] = s[j]
    BY AppendProperties, LenProperties
  <1>2. Len(s) + 1 \in 1..(Len(s) + 1)
    BY <1>1
  <1> QED BY <1>1, <1>2

(* DDL inside the user's transaction: the server ended it, the editor asks   *)
(* for a commit to say so.                                                  *)
LEMMA DdlStep ==
  ASSUME ConstantsAssumption, OneAtATime, IInv, NEW r, NEW E, Asked(r, E),
         NEW ok \in BOOLEAN, Serve(r, ok), QueryAnswered(r, ok), runs' = runs,
         E.stmt = "ddl", E.cur.open
  PROVE  IInv'
  <1>1. E.pc = "query" /\ AtQuery(r, E) /\ GridsOff /\ ~Holding
    BY WhenAsked DEF QueryAnswered, Asked, AtCall, AtBegin, AtQuery, AtImplicit, AtVerb
  <1>2. PICK F : F = [E EXCEPT !.pc = "implicit"]
    OBVIOUS
  <1>3. F \in Flow /\ F.pc = "implicit" /\ F.cur = E.cur /\ F.stmt = "ddl"
    BY <1>2 DEF Asked, Flow, EditorPcs
  <1>4. PICK q \in Requests : /\ q = Request("editor", r.who, "commit", NoWrite) /\ q.for = "editor"
                              /\ q.who = r.who /\ q.m = "commit"
    BY BlankTypes, WhenAsked, RequestIs
  <1>5. ui' = ui /\ queue' = <<q>> /\ UNCHANGED es
    BY <1>4, OneCall DEF QueryAnswered, Asked
  <1>6. ed' = [ed EXCEPT ![r.who] = F]
    BY <1>2 DEF QueryAnswered, Asked, IInv, Types
  <1>7. flag' = flag /\ eng' = NoTx /\ db' = db \o eng.work
    BY <1>1, Served DEF Asked, AtQuery, CommittedByDdl
  <1>8. EditorWrites /\ eng' \in Engine /\ db' \in Seq(WriteSet)
    BY <1>1, <1>7, WorkStored
  <1>9. ~eng'.open /\ eng'.work = <<>> /\ Listed'
    BY <1>7, BlankTypes, OneCall DEF Listed
  <1>10. EditorServer(F)
    BY <1>1, <1>3, <1>9 DEF EditorServer
  <1>11. NewTypes
    BY <1>5, <1>7, <1>8 DEF NewTypes, IInv, Types
  <1>12. EditorAt(r.who, F)
    BY <1>5, <1>6, WhenAsked DEF EditorAt, Asked, OfEditor
  <1>13. AtCall(q, F)
    BY <1>3, <1>4 DEF AtCall, AtImplicit
  <1>14. EditorWaits(r.who, F)
    BY <1>1, <1>3, <1>4, <1>5, <1>13 DEF EditorWaits, Asked
  <1> QED BY <1>3, <1>8, <1>10, <1>11, <1>12, <1>14, WhenAsked, EditorMoves

LEMMA QueryStep ==
  ASSUME ConstantsAssumption, OneAtATime, IInv, NEW r, NEW E, Asked(r, E),
         NEW ok \in BOOLEAN, Serve(r, ok), QueryAnswered(r, ok), runs' = runs,
         ~(E.stmt = "ddl" /\ E.cur.open)
  PROVE  IInv'
  <1>1. /\ E.pc = "query" /\ AtQuery(r, E) /\ (E.stmt = "read" \/ GridsOff)
        /\ (eng.open <=> ui.open \/ Holding) /\ (flag => eng.open)
        /\ r.w.run = E.run /\ r.w.item = 0
    BY WhenAsked DEF QueryAnswered, Asked, AtCall, AtBegin, AtQuery, AtImplicit, AtVerb
  <1>2. PICK F : F = [E EXCEPT !.pc = "idle"]
    OBVIOUS
  <1>3. F \in Flow /\ F.pc = "idle"
    BY <1>2 DEF Asked, Flow, EditorPcs
  <1>4. ed' = [ed EXCEPT ![r.who] = F] /\ queue' = <<>> /\ UNCHANGED es
    BY <1>2, OneCall DEF QueryAnswered, Ran, Asked, IInv, Types
  <1>5. ui' = IF E.stmt = "beginWith"
                THEN IF ok THEN [ui EXCEPT !.open = TRUE, !.log = <<>>] ELSE ui
              ELSE IF ui.open THEN [ui EXCEPT !.log = Append(ui.log, E.run)]
              ELSE ui
    BY DEF QueryAnswered, Logged, Asked
  <1>6. ui \in Indicator /\ ui.log \in Seq(Nat) /\ E.run \in Nat /\ ui.open \in BOOLEAN
    BY DEF Asked, Flow, IInv, Types, Indicator
  <1>7. Known(r.w, runs) /\ r.w \in WriteSet /\ r \in Requests /\ flag \in BOOLEAN
    BY <1>1, WhenAsked DEF AtQuery, Verbs, Asked, IInv, Types
  <1>8. CASE E.stmt = "beginWith"
    <2>1. GridsOff /\ ~Holding /\ ~ui.open /\ ~eng.open /\ ~flag
      BY <1>1, <1>8, WhenAsked DEF AtQuery, Asked
    <2>2. flag' = flag /\ db' = db /\ eng' = IF ok THEN Opened ELSE eng
      BY <1>1, <1>7, <1>8, Served DEF AtQuery, OpenedAsTyped, Opened
    <2>3. EditorWrites /\ eng' \in Engine /\ db' \in Seq(WriteSet)
      BY <2>2, NothingStored
    <2>4. ui' \in Indicator /\ ui'.open = ok
      <3>1. CASE ok
        <4>1. <<>> \in Seq(Nat)
          OBVIOUS
        <4> QED BY <1>5, <1>6, <1>8, <3>1, <4>1 DEF Indicator
      <3>2. CASE ~ok
        BY <1>5, <1>6, <1>8, <2>1, <3>2
      <3> QED BY <3>1, <3>2
    <2>5. eng'.open = ok /\ eng'.work = <<>> /\ DOMAIN eng'.work = {}
      <3>1. CASE ok
        BY <2>2, <3>1, OneCall DEF Opened
      <3>2. CASE ~ok
        <4>1. eng \in Engine /\ eng.work = <<>>
          BY <2>1, Stored DEF IInv, Server
        <4> QED BY <2>1, <2>2, <3>2, <4>1, OneCall DEF Engine
      <3> QED BY <3>1, <3>2
    <2>6. Listed'
      BY <2>5 DEF Listed
    <2>7. EditorServer(F)
      BY <1>3, <2>1, <2>2, <2>4, <2>5, <2>6 DEF EditorServer
    <2>8. NewTypes
      BY <1>7, <2>2, <2>3, <2>4 DEF NewTypes, IInv, Types
    <2>9. EditorAt(r.who, F) /\ EditorWaits(r.who, F)
      BY <1>3, <1>4, WhenAsked DEF EditorAt, EditorWaits, Asked, OfEditor
    <2> QED BY <1>3, <2>3, <2>7, <2>8, <2>9, WhenAsked, EditorMoves
  <1>9. CASE E.stmt # "beginWith"
    <2>1. /\ ui' \in Indicator /\ ui'.open = ui.open
          /\ ui.open => /\ \A j \in DOMAIN ui.log : j \in DOMAIN ui'.log /\ ui'.log[j] = ui.log[j]
                        /\ \E j \in DOMAIN ui'.log : ui'.log[j] = E.run
      <3>1. CASE ui.open
        <4>1. PICK l \in Seq(Nat) : l = Append(ui.log, E.run)
          BY <1>6, LogGrows
        <4>2. ui' = [ui EXCEPT !.log = l]
          BY <1>5, <1>9, <3>1, <4>1
        <4>3. ui' \in Indicator /\ ui'.open = ui.open /\ ui'.log = l
          BY <1>6, <4>2 DEF Indicator
        <4>4. /\ \A j \in DOMAIN ui.log : j \in DOMAIN l /\ l[j] = ui.log[j]
              /\ \E j \in DOMAIN l : l[j] = E.run
          <5>1. PICK s \in Seq(Nat), n \in Nat : s = ui.log /\ n = E.run
            BY <1>6
          <5>2. /\ \A j \in DOMAIN s : j \in DOMAIN Append(s, n) /\ Append(s, n)[j] = s[j]
                /\ \E j \in DOMAIN Append(s, n) : Append(s, n)[j] = n
            BY LogGrows
          <5>3. l = Append(s, n)
            BY <4>1, <5>1
          <5> QED BY <5>1, <5>2, <5>3, Zenon
        <4> QED BY <4>3, <4>4
      <3>2. CASE ~ui.open
        BY <1>5, <1>6, <1>9, <3>2
      <3> QED BY <3>1, <3>2
    <2>2. /\ EditorWrites /\ eng' \in Engine /\ db' \in Seq(WriteSet) /\ flag' = flag
          /\ eng'.open = eng.open /\ (~eng'.open => eng'.work = <<>>)
          /\ E.stmt = "read" => eng' = eng /\ db' = db
          /\ \A k \in DOMAIN eng'.work :
               (k \in DOMAIN eng.work /\ eng'.work[k] = eng.work[k]) \/ eng'.work[k].run = E.run
      <3>1. CASE E.stmt = "read"
        <4>1. eng' = eng /\ db' = db /\ flag' = flag
          BY <1>1, <1>7, <3>1, Served DEF AtQuery
        <4> QED BY <4>1, NothingStored DEF IInv, Server
      <3>2. CASE E.stmt = "ddl"
        <4>1. flag' = flag /\ eng' = NoTx /\ db' = db \o eng.work /\ GridsOff
          BY <1>1, <1>7, <3>2, Served DEF AtQuery, CommittedByDdl
        <4>2. ~eng.open
          BY <1>1, <3>2, <4>1, WhenAsked DEF Asked
        <4>3. eng'.open = eng.open /\ eng'.work = <<>> /\ DOMAIN eng'.work = {}
          <5>1. eng.open = FALSE
            BY <4>2, Stored DEF Engine
          <5> QED BY <4>1, <5>1, OneCall DEF NoTx
        <4> QED BY <3>2, <4>1, <4>3, WorkStored
      <3>3. CASE E.stmt = "write"
        <4>1. flag' = flag /\ Written(ok, r.w) /\ GridsOff
          BY <1>1, <1>7, <3>3, Served DEF AtQuery
        <4>2. EditorWrites /\ eng' \in Engine /\ db' \in Seq(WriteSet)
          BY <1>1, <1>7, <4>1, WriteStored
        <4>3. /\ eng'.open = eng.open /\ (~eng'.open => eng'.work = <<>>)
              /\ \A k \in DOMAIN eng'.work :
                  (k \in DOMAIN eng.work /\ eng'.work[k] = eng.work[k]) \/ eng'.work[k].run = E.run
          <5>1. CASE eng' = eng
            BY <5>1 DEF IInv, Server
          <5>2. CASE eng.open /\ eng' = [eng EXCEPT !.work = Append(eng.work, r.w)]
            <6>1. eng'.open = eng.open /\ eng'.work = Append(eng.work, r.w)
              BY <5>2, Stored DEF Engine
            <6>2. \A k \in DOMAIN Append(eng.work, r.w) :
                    \/ k \in DOMAIN eng.work /\ Append(eng.work, r.w)[k] = eng.work[k]
                    \/ Append(eng.work, r.w)[k] = r.w
              BY <1>7, Stored, AppendProperties, LenProperties
            <6> QED BY <1>1, <5>2, <6>1, <6>2
          <5> QED BY <4>1, <5>1, <5>2 DEF Written
        <4> QED BY <3>3, <4>1, <4>2, <4>3
      <3> QED BY <1>1, <1>7, <1>9, <3>1, <3>2, <3>3 DEF AtQuery, Verbs, Asked, Requests, Kinds
    <2>3. Listed'
      <3> SUFFICES ASSUME ui'.open, NEW k \in DOMAIN eng'.work
                   PROVE  \E j \in DOMAIN ui'.log : ui'.log[j] = eng'.work[k].run
        BY DEF Listed
      <3>1. CASE k \in DOMAIN eng.work /\ eng'.work[k] = eng.work[k]
        <4>1. PICK j \in DOMAIN ui.log : ui.log[j] = eng.work[k].run
          BY <2>1, <3>1 DEF IInv, Listed
        <4> QED BY <2>1, <3>1, <4>1
      <3>2. CASE eng'.work[k].run = E.run
        BY <2>1, <3>2
      <3> QED BY <2>2, <3>1, <3>2
    <2>4. EditorServer(F)
      <3>1. GridsOff \/ (ui'.open = ui.open /\ eng' = eng /\ db' = db)
        BY <1>1, <2>1, <2>2
      <3> QED BY <1>1, <1>3, <2>1, <2>2, <2>3, <3>1 DEF EditorServer
    <2>5. NewTypes
      BY <1>7, <2>1, <2>2 DEF NewTypes, IInv, Types
    <2>6. EditorAt(r.who, F) /\ EditorWaits(r.who, F)
      BY <1>3, <1>4, WhenAsked DEF EditorAt, EditorWaits, Asked, OfEditor
    <2> QED BY <1>3, <2>2, <2>4, <2>5, <2>6, WhenAsked, EditorMoves
  <1> QED BY <1>8, <1>9

----------------------------------------------------------------------------
(* The answer to a call of a grid.                                          *)

LEMMA SentFacts ==
  ASSUME NEW run \in Nat, NEW n \in Nat
  PROVE  /\ Sent(run, n) \in Seq(WriteSet) /\ DOMAIN Sent(run, n) = 1..n
         /\ \A k \in 1..n : Sent(run, n)[k] = [run |-> run, item |-> k]
         /\ Append(Sent(run, n), [run |-> run, item |-> n + 1]) = Sent(run, n + 1)
  <1>1. /\ DOMAIN Sent(run, n) = 1..n /\ \A k \in 1..n : Sent(run, n)[k] = [run |-> run, item |-> k]
        /\ \A k \in 1..n : [run |-> run, item |-> k] \in WriteSet
    BY DEF Sent, WriteSet
  <1>2. Sent(run, n) \in [1..n -> WriteSet]
    BY <1>1 DEF Sent
  <1>3. Sent(run, n) \in Seq(WriteSet) /\ Len(Sent(run, n)) = n
    BY <1>2, LenProperties
  <1>4. Append(Sent(run, n), [run |-> run, item |-> n + 1]) = Sent(run, n + 1)
    <2> DEFINE w == [run |-> run, item |-> n + 1]
               a == Append(Sent(run, n), w)
               s == Sent(run, n + 1)
    <2>1. w \in WriteSet /\ n + 1 \in Nat
      BY DEF WriteSet
    <2>2. /\ a \in Seq(WriteSet) /\ Len(a) = n + 1 /\ a[n + 1] = w
          /\ \A k \in 1..n : a[k] = Sent(run, n)[k]
      BY <1>3, <2>1, AppendProperties
    <2>3. DOMAIN a = 1..(n + 1) /\ a = [k \in 1..(n + 1) |-> a[k]]
      BY <2>2, LenProperties
    <2>4. s = [k \in 1..(n + 1) |-> [run |-> run, item |-> k]]
      BY DEF Sent
    <2> HIDE DEF a, s
    <2>5. \A k \in 1..(n + 1) : a[k] = [run |-> run, item |-> k]
      <3> SUFFICES ASSUME NEW k \in 1..(n + 1) PROVE a[k] = [run |-> run, item |-> k]
        OBVIOUS
      <3>1. k = n + 1 \/ k \in 1..n
        OBVIOUS
      <3> QED BY <1>1, <2>2, <3>1
    <2>6. a = s
      BY <2>3, <2>4, <2>5
    <2> QED BY <2>6 DEF a, s
  <1> QED BY <1>1, <1>3, <1>4

LEMMA SentOnce ==
  ASSUME NEW run \in Nat, NEW n \in Nat, NEW i \in 1..n
  PROVE  /\ Count(Sent(run, n), Of(run, i)) = 1
         /\ \A other : other # run => Count(Sent(run, n), Of(other, i)) = 0
  <1> DEFINE s == Sent(run, n)
  <1>0. s \in Seq(WriteSet) /\ DOMAIN s = 1..n /\ \A k \in 1..n : s[k] = [run |-> run, item |-> k]
    BY SentFacts
  <1> HIDE DEF s
  <1>1. i \in DOMAIN s /\ \A k \in DOMAIN s : s[k] \in Of(run, i) <=> k = i
    BY <1>0 DEF Of
  <1>2. Count(s, Of(run, i)) = 1
    BY <1>1, CountSingle
  <1>3. ASSUME NEW other, other # run PROVE Count(s, Of(other, i)) = 0
    <2>1. \A k \in DOMAIN s : s[k] \notin Of(other, i)
      BY <1>0, <1>3 DEF Of
    <2> QED BY <1>0, <2>1, CountNone
  <1> QED BY <1>2, <1>3 DEF s

AskedEdit(r, G) ==
  /\ r \in Requests /\ queue = <<r>> /\ r.for = "edit" /\ OfEdit(r)
  /\ G \in Grid /\ G = es[r.who]

LEMMA WhenEditing ==
  ASSUME IInv, NEW r, NEW G, AskedEdit(r, G)
  PROVE  /\ r.who \in Tabs /\ AtStep(r, G) /\ EditorsIdle /\ ~ui.open
         /\ \A u \in Tabs : u # r.who => es[u].pc = "off"
         /\ G.pc # "off" /\ G.run \in Nat /\ G.run # 0 /\ G.run <= runs /\ G.run \notin G.saved
         /\ (eng.open <=> G.pc \in Busy) /\ (flag => eng.open)
         /\ \A i \in 1..Items : Count(db, Of(G.run, i)) = 0
  <1>1. r.who \in Tabs /\ AtStep(r, G) /\ EditorsIdle /\ G.pc # "off"
    BY DEF AskedEdit, Requests, OfEdit, AtStep
  <1>2. ~ui.open /\ \A u \in Tabs : u # r.who => es[u].pc = "off"
    BY <1>1 DEF AskedEdit, IInv, OneGrid
  <1>3. G.run \in Nat /\ G.run # 0 /\ G.run <= runs /\ G.run \notin G.saved
    BY <1>1 DEF AskedEdit, Grid, IInv, Runs
  <1>4. ~Implicit /\ (Holding <=> G.pc \in Busy)
    BY <1>1, <1>2 DEF AskedEdit, EditorsIdle, Implicit, Holding, Busy
  <1>5. (eng.open <=> G.pc \in Busy) /\ (flag => eng.open)
    BY <1>2, <1>4 DEF IInv, Server
  <1>6. \A i \in 1..Items : Count(db, Of(G.run, i)) = 0
    BY <1>1, <1>3 DEF AskedEdit, IInv, Ledger
  <1> QED BY <1>1, <1>2, <1>3, <1>5, <1>6

(* Every answer to a grid but that to its commit: nothing is stored.         *)
LEMMA GridGoesOn ==
  ASSUME IInv, NEW r, NEW G, AskedEdit(r, G), NEW H \in Grid, H.run = G.run, H.saved = G.saved,
         UNCHANGED <<ui, ed, db, runs>>, es' = [es EXCEPT ![r.who] = H],
         GridWaits(r.who, H), GridServer(H), flag' \in BOOLEAN, eng' \in Engine,
         \A k \in DOMAIN eng'.work : Known(eng'.work[k], runs)
  PROVE  IInv'
  <1>1. GridAt(r.who, H) /\ r.who \in Tabs
    BY WhenEditing DEF GridAt
  <1>2. NewTypes
    BY DEF NewTypes, IInv, Types
  <1>3. GridRun(r.who, H)
    BY WhenEditing DEF GridRun, AskedEdit
  <1>4. GridWrites(H)
    BY WhenEditing, Stored DEF GridWrites
  <1> QED BY <1>1, <1>2, <1>3, <1>4, GridMoves

(* A begin is answered: the grid is edited inside a new transaction.         *)
LEMMA GridBegun ==
  ASSUME ConstantsAssumption, OneAtATime, IInv, NEW r, NEW G, AskedEdit(r, G),
         NEW ok \in BOOLEAN, Serve(r, ok), UNCHANGED <<ui, ed, runs>>,
         BeginEditAnswered(r, ok) \/ ReopenAnswered(r, ok)
  PROVE  IInv'
  <1>1. G.pc \in {"beginning", "reopening"} /\ r.m = "begin" /\ ~eng.open /\ ~flag
    BY WhenEditing DEF BeginEditAnswered, ReopenAnswered, AskedEdit, AtStep, Busy
  <1>2. PICK H : H = [G EXCEPT !.pc = "editing"]
    OBVIOUS
  <1>3. H \in Grid /\ H.pc = "editing" /\ H.run = G.run /\ H.saved = G.saved
    BY <1>2 DEF AskedEdit, Grid, EditPcs
  <1>4. es' = [es EXCEPT ![r.who] = H] /\ queue' = <<>>
    BY <1>2, OneCall DEF BeginEditAnswered, ReopenAnswered, Rejects, AskedEdit, IInv, Types
  <1>5. flag' \in BOOLEAN /\ eng' = Opened /\ db' = db
    BY <1>1, Served DEF AskedEdit
  <1>6. eng' \in Engine /\ eng'.open /\ eng'.work = <<>> /\ DOMAIN eng'.work = {}
    <2>1. <<>> \in Seq(WriteSet)
      OBVIOUS
    <2> QED BY <1>5, <2>1, OneCall DEF Opened, Engine
  <1>7. GridServer(H) /\ GridWaits(r.who, H)
    BY <1>3, <1>4, <1>6 DEF GridServer, GridWaits, Busy
  <1> QED BY <1>3, <1>4, <1>5, <1>6, <1>7, GridGoesOn

(* A rollback is answered: what the grid had written is gone.                *)
LEMMA GridUndone ==
  ASSUME ConstantsAssumption, OneAtATime, IInv, NEW r, NEW G, AskedEdit(r, G),
         NEW ok \in BOOLEAN, Serve(r, ok), UNCHANGED <<ui, ed, runs>>,
         UndoAnswered(r, ok) \/ DiscardAnswered(r, ok)
  PROVE  IInv'
  <1>1. G.pc \in {"undoing", "discarding"} /\ r.m = "rollback" /\ r.who \in Tabs
    BY WhenEditing DEF UndoAnswered, DiscardAnswered, AskedEdit, AtStep
  <1>2. flag' = FALSE /\ eng' = NoTx /\ db' = db
    BY <1>1, Served DEF AskedEdit
  <1>3. flag' \in BOOLEAN /\ eng' \in Engine /\ ~eng'.open /\ eng'.work = <<>> /\ DOMAIN eng'.work = {}
    <2>1. flag' \in BOOLEAN
      BY <1>2
    <2> QED BY <1>2, <2>1, BlankTypes, OneCall
  <1>4. PICK pc : pc = IF G.pc = "undoing" THEN "reopening" ELSE "off"
    OBVIOUS
  <1>5. PICK H : H = [G EXCEPT !.pc = pc]
    OBVIOUS
  <1>6. H \in Grid /\ H.pc = pc /\ H.run = G.run /\ H.saved = G.saved /\ pc \in {"reopening", "off"}
    BY <1>4, <1>5 DEF AskedEdit, Grid, EditPcs
  <1>7. es' = [es EXCEPT ![r.who] = H]
    BY <1>1, <1>4, <1>5 DEF UndoAnswered, DiscardAnswered, AskedEdit, IInv, Types
  <1>8. GridServer(H)
    BY <1>2, <1>3, <1>6 DEF GridServer, Busy
  <1>9. GridWaits(r.who, H)
    <2>1. PICK q \in Requests : /\ q = Request("edit", r.who, "begin", NoWrite) /\ q.for = "edit"
                                /\ q.who = r.who /\ q.m = "begin"
      BY <1>1, BlankTypes, RequestIs
    <2>2. CASE UndoAnswered(r, ok)
      <3>1. queue' = <<q>> /\ pc = "reopening"
        BY <1>4, <2>1, <2>2, OneCall DEF UndoAnswered, AskNext, AskedEdit
      <3>2. AtStep(q, H)
        BY <1>6, <2>1, <3>1 DEF AtStep
      <3> QED BY <2>1, <3>1, <3>2 DEF GridWaits
    <2>3. CASE DiscardAnswered(r, ok)
      BY <1>4, <1>6, <2>3, OneCall DEF DiscardAnswered, AskedEdit, GridWaits
    <2> QED BY <2>2, <2>3
  <1> QED BY <1>2, <1>3, <1>6, <1>7, <1>8, <1>9, GridGoesOn

(* A row is answered: the next one, the commit, or the way back.             *)
LEMMA GridItem ==
  ASSUME ConstantsAssumption, OneAtATime, IInv, NEW r, NEW G, AskedEdit(r, G),
         NEW ok \in BOOLEAN, Serve(r, ok), UNCHANGED <<ui, ed, runs>>, ItemAnswered(r, ok)
  PROVE  IInv'
  <1>1. /\ G.pc = "applying" /\ r.m = "write" /\ r.w = [run |-> G.run, item |-> G.item]
        /\ r.who \in Tabs /\ r.w \in WriteSet /\ eng.open
    BY WhenEditing DEF ItemAnswered, AskedEdit, AtStep, Requests, Busy
  <1>2. /\ G.run \in Nat /\ G.run # 0 /\ G.run <= runs /\ runs \in Nat
        /\ G.item \in 1..Items /\ Items \in Nat /\ eng.work = Sent(G.run, G.item - 1)
    BY <1>1, WhenEditing DEF AskedEdit, IInv, Types, GridWork, ConstantsAssumption
  <1>3. flag' = flag /\ Written(ok, r.w) /\ flag \in BOOLEAN
    BY <1>1, Served DEF AskedEdit, IInv, Types
  <1>4. /\ db' = db /\ eng'.open /\ eng' \in Engine
        /\ eng'.work = IF ok THEN Append(eng.work, r.w) ELSE eng.work
        /\ \A k \in DOMAIN eng'.work : Known(eng'.work[k], runs)
    <2>1. CASE ok
      <3>1. db' = db /\ eng' = [eng EXCEPT !.work = Append(eng.work, r.w)]
        BY <1>1, <1>3, <2>1 DEF Written
      <3>2. PICK s : s = Append(eng.work, r.w)
        OBVIOUS
      <3>3. Known(r.w, runs)
        BY <1>1, <1>2 DEF Known
      <3>4. s \in Seq(WriteSet) /\ \A k \in DOMAIN s : Known(s[k], runs)
        BY <1>1, <3>2, <3>3, Stored, AddedKnown
      <3>5. eng' \in Engine /\ eng'.work = s /\ eng'.open
        BY <1>1, <3>1, <3>2, <3>4, Stored DEF Engine
      <3> QED BY <2>1, <3>1, <3>2, <3>4, <3>5
    <2>2. CASE ~ok
      BY <1>1, <1>3, <2>2, Stored DEF Written
    <2> QED BY <2>1, <2>2
  <1>5. ok => eng'.work = Sent(G.run, G.item)
    <2>1. PICK n \in Nat : n = G.item - 1 /\ n + 1 = G.item
      BY <1>2
    <2>2. Append(Sent(G.run, n), [run |-> G.run, item |-> n + 1]) = Sent(G.run, n + 1)
      BY <1>2, SentFacts
    <2> QED BY <1>1, <1>2, <1>4, <2>1, <2>2
  <1>6. flag' => eng'.open
    BY <1>4
  <1>7. CASE ok /\ G.item < Items
    <2>1. PICK n \in Nat : n = G.item + 1 /\ n \in 1..Items /\ n - 1 = G.item
      BY <1>2, <1>7
    <2>2. PICK H : H = [G EXCEPT !.item = n]
      OBVIOUS
    <2>3. H \in Grid /\ H.pc = "applying" /\ H.item = n /\ H.run = G.run /\ H.saved = G.saved
      BY <1>1, <2>2 DEF AskedEdit, Grid
    <2>4. PICK w \in WriteSet : w = [run |-> G.run, item |-> n]
      BY <1>2 DEF WriteSet
    <2>5. PICK q \in Requests : /\ q = Request("edit", r.who, "write", w) /\ q.for = "edit"
                                /\ q.who = r.who /\ q.m = "write" /\ q.w = w
      BY <1>1, BlankTypes, RequestIs
    <2>6. es' = [es EXCEPT ![r.who] = H] /\ queue' = <<q>>
      <3>1. es' = [es EXCEPT ![r.who].item = n]
        BY <1>7, <2>1 DEF ItemAnswered, MoreItems, AskedEdit
      <3>2. queue' = AskNext(r.who, "write", w)
        BY <1>7, <2>1, <2>4 DEF ItemAnswered, MoreItems, AskedEdit, Item
      <3> QED BY <2>2, <2>5, <3>1, <3>2, OneCall DEF AskNext, AskedEdit, IInv, Types
    <2>7. AtStep(q, H)
      BY <2>3, <2>4, <2>5 DEF AtStep
    <2>8. GridWaits(r.who, H)
      BY <2>5, <2>6, <2>7 DEF GridWaits
    <2>9. GridServer(H)
      BY <1>4, <1>5, <1>6, <1>7, <2>1, <2>3 DEF GridServer, Busy
    <2> QED BY <1>3, <1>4, <2>3, <2>6, <2>8, <2>9, GridGoesOn
  <1>8. CASE ok /\ ~(G.item < Items)
    <2>1. G.item = Items
      BY <1>2, <1>8
    <2>2. PICK H : H = [G EXCEPT !.pc = "committing"]
      OBVIOUS
    <2>3. H \in Grid /\ H.pc = "committing" /\ H.run = G.run /\ H.saved = G.saved
      BY <2>2 DEF AskedEdit, Grid, EditPcs
    <2>4. PICK q \in Requests : /\ q = Request("edit", r.who, "commit", NoWrite) /\ q.for = "edit"
                                /\ q.who = r.who /\ q.m = "commit"
      BY <1>1, BlankTypes, RequestIs
    <2>5. es' = [es EXCEPT ![r.who] = H] /\ queue' = <<q>>
      BY <1>8, <2>2, <2>4, OneCall DEF ItemAnswered, MoreItems, AskNext, AskedEdit, IInv, Types
    <2>6. AtStep(q, H)
      BY <2>3, <2>4 DEF AtStep
    <2>7. GridWaits(r.who, H)
      BY <2>4, <2>5, <2>6 DEF GridWaits
    <2>8. GridServer(H)
      BY <1>4, <1>5, <1>6, <1>8, <2>1, <2>3 DEF GridServer, Busy
    <2> QED BY <1>3, <1>4, <2>3, <2>5, <2>7, <2>8, GridGoesOn
  <1>9. CASE ~ok
    <2>1. PICK H : H = [G EXCEPT !.pc = "undoing"]
      OBVIOUS
    <2>2. H \in Grid /\ H.pc = "undoing" /\ H.run = G.run /\ H.saved = G.saved
      BY <2>1 DEF AskedEdit, Grid, EditPcs
    <2>3. PICK q \in Requests : /\ q = Request("edit", r.who, "rollback", NoWrite) /\ q.for = "edit"
                                /\ q.who = r.who /\ q.m = "rollback"
      BY <1>1, BlankTypes, RequestIs
    <2>4. es' = [es EXCEPT ![r.who] = H] /\ queue' = <<q>>
      BY <1>9, <2>1, <2>3, OneCall DEF ItemAnswered, AfterFailure, AskNext, AskedEdit, IInv, Types
    <2>5. AtStep(q, H)
      BY <2>2, <2>3 DEF AtStep
    <2>6. GridWaits(r.who, H)
      BY <2>3, <2>4, <2>5 DEF GridWaits
    <2>7. GridServer(H)
      BY <1>4, <1>6, <2>2 DEF GridServer, Busy
    <2> QED BY <1>3, <1>4, <2>2, <2>4, <2>6, <2>7, GridGoesOn
  <1> QED BY <1>7, <1>8, <1>9

(* The commit is answered: every row is stored, once.                        *)
LEMMA GridCommitted ==
  ASSUME ConstantsAssumption, OneAtATime, IInv, NEW r, NEW G, AskedEdit(r, G),
         NEW ok \in BOOLEAN, Serve(r, ok), UNCHANGED <<ui, ed, runs>>, CommitAnswered(r, ok)
  PROVE  IInv'
  <1>1. G.pc = "committing" /\ r.m = "commit" /\ r.who \in Tabs
    BY WhenEditing DEF CommitAnswered, AskedEdit, AtStep
  <1>2. G.run \in Nat /\ G.run # 0 /\ eng.work = Sent(G.run, Items) /\ Items \in Nat /\ G.saved \subseteq Nat
    BY <1>1, WhenEditing DEF AskedEdit, IInv, GridWork, ConstantsAssumption, Grid
  <1>3. flag' = FALSE /\ eng' = NoTx /\ db' = db \o eng.work
    BY <1>1, Served DEF AskedEdit
  <1>4. flag' \in BOOLEAN /\ eng' \in Engine /\ ~eng'.open /\ eng'.work = <<>> /\ DOMAIN eng'.work = {}
    <2>1. flag' \in BOOLEAN
      BY <1>3
    <2> QED BY <1>3, <2>1, BlankTypes, OneCall
  <1>5. PICK saved : saved = G.saved \cup {G.run}
    OBVIOUS
  <1>6. PICK H : H = [G EXCEPT !.pc = "off", !.saved = saved]
    OBVIOUS
  <1>7. H \in Grid /\ H.pc = "off" /\ H.run = G.run /\ H.saved = saved /\ H.saved = G.saved \cup {H.run}
    <2>1. saved \in SUBSET Nat
      BY <1>2, <1>5
    <2> QED BY <1>5, <1>6, <2>1 DEF AskedEdit, Grid, EditPcs
  <1>8. es' = [es EXCEPT ![r.who] = H] /\ queue' = <<>>
    <2>1. es' = [es EXCEPT ![r.who].pc = "off", ![r.who].saved = saved] /\ queue' = <<>>
      BY <1>5, OneCall DEF CommitAnswered, Rejects, AskedEdit, IInv, Types
    <2> QED BY <1>6, <2>1 DEF AskedEdit, IInv, Types
  <1>9. GridAt(r.who, H) /\ GridWaits(r.who, H)
    BY <1>7, <1>8, WhenEditing DEF GridAt, GridWaits
  <1>10. db' \in Seq(WriteSet) /\ \A k \in DOMAIN db' : Known(db'[k], runs)
    BY <1>3, Stored, JoinedKnown
  <1>11. NewTypes
    BY <1>4, <1>10 DEF NewTypes, IInv, Types
  <1>12. GridServer(H)
    <2>1. ~flag'
      BY <1>3
    <2> QED BY <1>4, <1>7, <2>1 DEF GridServer, Busy
  <1>13. GridRun(r.who, H)
    BY <1>7, WhenEditing DEF GridRun, AskedEdit
  <1>14. \A run, i : /\ Count(db, Of(run, i)) \in Nat
                     /\ Count(db', Of(run, i)) = Count(db, Of(run, i)) + Count(eng.work, Of(run, i))
    BY <1>3, Stored, PlacesFinite, CountConcat
  <1>15. GridWrites(H)
    <2>1. \A run, i : i \in 1..Items /\ run # H.run => Count(db', Of(run, i)) = Count(db, Of(run, i))
      <3> SUFFICES ASSUME NEW run, NEW i \in 1..Items, run # H.run
                   PROVE  Count(db', Of(run, i)) = Count(db, Of(run, i))
        OBVIOUS
      <3>1. Count(eng.work, Of(run, i)) = 0
        BY <1>2, <1>7, SentOnce
      <3> QED BY <1>14, <3>1
    <2>2. \A i \in 1..Items : Count(db', Of(H.run, i)) = 1
      <3> SUFFICES ASSUME NEW i \in 1..Items PROVE Count(db', Of(H.run, i)) = 1
        OBVIOUS
      <3>1. Count(eng.work, Of(H.run, i)) = 1
        BY <1>2, <1>7, SentOnce
      <3>2. Count(db, Of(H.run, i)) = 0
        BY <1>7, WhenEditing
      <3> QED BY <1>14, <3>1, <3>2
    <2>3. H.run \in H.saved /\ runs' = runs
      BY <1>7
    <2> QED BY <1>4, <1>10, <2>1, <2>2, <2>3 DEF GridWrites
  <1> QED BY <1>1, <1>7, <1>9, <1>11, <1>12, <1>13, <1>15, GridMoves

LEMMA AnswerStep == ASSUME ConstantsAssumption, OneAtATime, IInv, Answer PROVE IInv'
  <1>1. PICK r \in Requests : queue = <<r>> /\ (OfEditor(r) \/ OfEdit(r))
    BY DEF IInv, Turn, Answer
  <1>2. Head(queue) = r
    BY <1>1, OneCall
  <1>3. PICK ok \in BOOLEAN :
          /\ Serve(r, ok) /\ runs' = runs
          /\ \/ VerbAnswered(r, ok) \/ BeginAnswered(r, ok) \/ QueryAnswered(r, ok)
             \/ ImplicitAnswered(r) \/ EditAnswered(r, ok)
    BY <1>2 DEF Answer
  <1>4. CASE OfEditor(r)
    <2>1. PICK E \in Flow : E = ed[r.who]
      BY <1>1 DEF IInv, Types, Requests
    <2>2. Asked(r, E)
      BY <1>1, <1>4, <2>1 DEF Asked, OfEditor
    <2>3. ~EditAnswered(r, ok)
      BY <1>4 DEF OfEditor, EditAnswered
    <2>4. CASE QueryAnswered(r, ok)
      BY <1>3, <2>2, <2>4, DdlStep, QueryStep
    <2> QED BY <1>3, <2>2, <2>3, <2>4, VerbStep, BeginStep, ImplicitStep
  <1>5. CASE OfEdit(r)
    <2>1. PICK G \in Grid : G = es[r.who]
      BY <1>1 DEF IInv, Types, Requests
    <2>2. AskedEdit(r, G)
      BY <1>1, <1>5, <2>1 DEF AskedEdit, OfEdit
    <2>3. EditAnswered(r, ok)
      BY <1>3, <1>5 DEF OfEdit, VerbAnswered, BeginAnswered, QueryAnswered, ImplicitAnswered
    <2>4. /\ UNCHANGED <<ui, ed, runs>>
          /\ \/ BeginEditAnswered(r, ok) \/ ItemAnswered(r, ok) \/ CommitAnswered(r, ok)
             \/ UndoAnswered(r, ok) \/ ReopenAnswered(r, ok) \/ DiscardAnswered(r, ok)
      BY <1>3, <2>3 DEF EditAnswered
    <2> QED BY <1>3, <2>2, <2>4, GridBegun, GridUndone, GridItem, GridCommitted
  <1> QED BY <1>1, <1>4, <1>5

LEMMA NextStep == ASSUME ConstantsAssumption, OneAtATime, IInv, [Next]_vars PROVE IInv'
  <1>1. ASSUME NEW t \in Tabs, NEW stmt \in Stmts, RunStmt(t, stmt) PROVE IInv'
    BY <1>1, RunStmtStep
  <1>2. ASSUME NEW t \in Tabs, BeginEdit(t) \/ Apply(t) \/ Discard(t) PROVE IInv'
    BY <1>2, BeginEditStep, ApplyStep, DiscardStep
  <1>3. CASE UNCHANGED vars
    <2> USE <1>3 DEF vars
    <2>1. Types' /\ OneGrid' /\ GridWork' /\ Runs' /\ Ledger' /\ Listed'
      BY DEF IInv, Types, OneGrid, GridWork, Runs, Ledger, Listed
    <2>2. Turn'
      BY DEF IInv, Turn, OfEditor, OfEdit, EditorsIdle, GridsQuiet, GridsOff
    <2>3. Server'
      BY DEF IInv, Server, Implicit, Holding
    <2>4. Writers'
      BY DEF IInv, Writers, GridsOff
    <2> QED BY <2>1, <2>2, <2>3, <2>4 DEF IInv
  <1> QED BY <1>1, <1>2, <1>3, ToggleStep, AnswerStep DEF Next

LEMMA Invariance == ASSUME OneAtATime PROVE Spec => []IInv
  <1>1. Init => IInv
    BY ConstantsAssumption, InitHolds
  <1>2. IInv /\ [Next]_vars => IInv'
    BY ConstantsAssumption, NextStep
  <1> QED BY <1>1, <1>2, PTL DEF Spec

----------------------------------------------------------------------------
(* As long as one thing happens at a time and the server refuses nothing,    *)
(* the band of a connection tells the truth when no call is under way: a     *)
(* transaction is open at the server exactly when the band shows one or a    *)
(* grid is being edited (runInTx, beginEdit, applyEdit, discardEdit).        *)
THEOREM BandIsTrue == ASSUME OneAtATime PROVE Spec => []IndicatorIsEngine
  <1>1. ASSUME IInv, AtRest PROVE eng.open <=> ui.open \/ \E t \in Tabs : es[t].pc = "editing"
    <2>1. queue = <<>> /\ EditorsIdle /\ GridsQuiet
      BY <1>1, OneCall DEF IInv, Turn, AtRest
    <2>2. ~Implicit /\ (Holding <=> \E t \in Tabs : es[t].pc = "editing")
      BY <2>1 DEF EditorsIdle, GridsQuiet, Implicit, Holding, Busy
    <2> QED BY <1>1, <2>2 DEF IInv, Server
  <1>2. IInv => IndicatorIsEngine
    BY <1>1 DEF IndicatorIsEngine
  <1> QED BY <1>2, Invariance, PTL

(* Under the same conditions every write that waits for the user's Commit is *)
(* of a statement the band lists (runInTx's finally, TxBand).                *)
THEOREM BandListsTheWork == ASSUME OneAtATime PROVE Spec => []LogIsTransaction
  <1>1. ASSUME IInv, AtRest, ui.open, NEW w \in Writes(eng.work)
        PROVE  \E k \in DOMAIN ui.log : ui.log[k] = w.run
    <2>1. PICK k \in DOMAIN eng.work : w = eng.work[k]
      BY <1>1 DEF Writes
    <2> QED BY <1>1, <2>1 DEF IInv, Listed
  <1>2. IInv => LogIsTransaction
    BY <1>1 DEF LogIsTransaction
  <1> QED BY <1>2, Invariance, PTL

LEMMA TimesIsCount == \A s, w : Times(s, w) = Count(s, {w})
  BY DEF Times, Count, Places

(* Under the same conditions an edit session is stored whole and once when   *)
(* the user was told it was applied, and not at all before, over failing     *)
(* rows, rollbacks and further tries (applyPlan of editApply.ts).            *)
THEOREM SessionsAreWhole == ASSUME OneAtATime PROVE Spec => []EditIsWhole
  <1>1. ASSUME IInv, NEW t \in Tabs, NEW i \in 1..Items
        PROVE  /\ \A run \in es[t].saved : Times(db, [run |-> run, item |-> i]) = 1
               /\ es[t].run \notin es[t].saved => Times(db, Item(t, i)) = 0
    BY <1>1, TimesIsCount DEF IInv, Ledger, Of, Item
  <1>2. IInv => EditIsWhole
    BY <1>1 DEF EditIsWhole
  <1> QED BY <1>2, Invariance, PTL

(* Under the same conditions a write typed in manual mode goes into the open *)
(* transaction and is not committed by being executed (txMode.ts, runInTx).  *)
THEOREM ManualModeHolds == ASSUME OneAtATime PROVE Spec => ManualWritesWait
  <1>1. ASSUME IInv, [Next]_vars, queue # <<>>, queue' = Tail(queue), Head(queue).for = "editor",
               Head(queue).m = "write", ed[Head(queue).who].cur.manual
        PROVE  db' = db
    <2>1. PICK r \in Requests : queue = <<r>> /\ (OfEditor(r) \/ OfEdit(r))
      BY <1>1 DEF IInv, Turn
    <2>2. Head(queue) = r /\ r.for = "editor" /\ r.m = "write" /\ ed[r.who].cur.manual /\ queue' = <<>>
      BY <1>1, <2>1, OneCall
    <2>3. PICK E \in Flow : E = ed[r.who]
      BY <1>1, <2>1 DEF IInv, Types, Requests
    <2>4. Asked(r, E)
      BY <2>1, <2>2, <2>3 DEF Asked, OfEditor, OfEdit
    <2>5. AtQuery(r, E) /\ E.stmt = "write" /\ ui.open /\ eng.open
      <3>1. AtQuery(r, E) /\ E.stmt = "write"
        BY <1>1, <2>2, <2>4, WhenAsked DEF AtCall, AtVerb, AtBegin, AtQuery, AtImplicit, Verbs
      <3>2. ui.open
        BY <2>2, <2>3, <2>4, <3>1 DEF Asked, AtQuery
      <3> QED BY <1>1, <2>4, <3>1, <3>2, WhenAsked DEF AtQuery
    <2>6. CASE Answer
      <3>1. PICK ok \in BOOLEAN : Serve(r, ok)
        BY <2>2, <2>6 DEF Answer
      <3>2. Written(ok, r.w)
        BY <1>1, <2>2, <3>1, Served
      <3> QED BY <2>5, <3>2 DEF Written
    <2>7. CASE ~Answer
      BY <1>1, <2>7 DEF Next, vars, RunStmt, Toggle, BeginEdit, Apply, Discard
    <2> QED BY <2>6, <2>7
  <1>2. IInv /\ [Next]_vars =>
          [queue # <<>> /\ queue' = Tail(queue) /\ Head(queue).for = "editor"
             /\ Head(queue).m = "write" /\ ed[Head(queue).who].cur.manual => db' = db]_vars
    BY <1>1
  <1> QED BY <1>2, Invariance, PTL DEF Spec, ManualWritesWait
=============================================================================
