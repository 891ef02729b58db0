------------------------------ MODULE RpcCore ------------------------------
(***************************************************************************)
(* The native side of Squaero, from the bridge to the driver call.         *)
(*                                                                         *)
(*   UI thread      rpc_handler (app/src/main.cc): queues every request,   *)
(*                  except op.cancel, which it dispatches itself           *)
(*   RPC worker     rpc_worker_loop: one request at a time through         *)
(*                  dbcore_ipc_handle and its method                       *)
(*   connections    dbcore_conn_manager (core/src/conn/manager.c)          *)
(*   op registry    core/src/query/op_registry.c, the one lock of the core *)
(*   the engine     a driver vtable behind dbc_conn handles (external)     *)
(*                                                                         *)
(* A step of the worker ends where another thread, or the engine, can act: *)
(* at the dequeue, around every driver call, around the registry's lock.   *)
(* The object a request creates (a dbc_conn, its tunnel, a dbc_result) is  *)
(* named by the request's number; 0 is NULL.                               *)
(***************************************************************************)
EXTENDS Naturals, Sequences, FiniteSets

CONSTANTS
  MaxRequests,  \* bound: requests the frontend sends in a behaviour
  MaxQueue,     \* bound: requests waiting for the worker
  FirstCap,     \* slots of the first allocation of the manager (4 in the code)
  OpSlots,      \* OP_SLOTS, entries of the op registry (64 in the code)
  Kinds         \* the kinds of call the frontend makes

AllMethods == {"open", "close", "run", "next", "cursorClose",
               "begin", "commit", "rollback", "call"}

(* opt: behind ssh, for an open; with a cursor, for a run.                  *)
(* read: stmt_classify answers STMT_READ for the statement of a run.        *)
Kind == {k \in [m : AllMethods, opt : BOOLEAN, read : BOOLEAN] :
           (k.opt => k.m \in {"open", "run"}) /\ (k.read => k.m = "run")}

ASSUME ConstantsAssumption ==
  /\ MaxRequests \in Nat \ {0}
  /\ MaxQueue \in Nat \ {0}
  /\ FirstCap \in Nat \ {0}
  /\ OpSlots \in Nat \ {0}
  /\ Kinds \subseteq Kind

Rid  == 1..MaxRequests
Ref  == 0..MaxRequests          \* an object, or NULL
TxMethods == {"begin", "commit", "rollback"}

Request == [rid : Rid, m : AllMethods, conn : Nat, opt : BOOLEAN, read : BOOLEAN]
NoJob   == [rid |-> 0, m |-> "none", conn |-> 0, opt |-> FALSE, read |-> FALSE]

Slot     == [id : Nat, handle : Ref, tunnel : Ref, cursor : Ref, inTx : BOOLEAN]
FreeSlot == [id |-> 0, handle |-> 0, tunnel |-> 0, cursor |-> 0, inTx |-> FALSE]

Codes == {"ok", "conn", "query", "notFound", "other"}
Reply == [rid : Rid, m : AllMethods, conn : Nat, code : Codes,
          inTx : BOOLEAN, retry : BOOLEAN, handle : Ref]

VARIABLES
  (* UI thread *)
  sent,      \* requests queued so far
  unanswered,\* requests whose promise is still pending
  known,     \* connection ids the frontend was given
  ui,        \* what the UI thread is doing: [pc, conn, target, handle]
  (* shared by the two threads *)
  queue,     \* g_rpc_jobs
  stop,      \* g_rpc_stop
  outbox,    \* responses posted to the UI event loop (webview_dispatch)
  ops,       \* entries of the op registry: [conn, handle]
  (* RPC worker *)
  wpc,       \* where the worker is
  job,       \* the request it is handling
  txBefore,  \* in_tx as dbcore_ipc_handle read it before the method ran
  wh, wr, wt,\* handle, result and tunnel in the method's local variables
  wst,       \* status the driver call came back with
  (* connection manager *)
  slots, cap, nextId,
  (* the engine *)
  hs,        \* dbc_conn: none, live, dead (session lost), freed
  rs,        \* dbc_result: none, open, freed
  resOf,     \* the dbc_conn a dbc_result was read from
  ts,        \* ssh tunnel: none, up, closed
  engTx      \* transaction of tx.begin at the server: none, open, lost

uiVars   == <<sent, unanswered, known, ui>>
wkVars   == <<wpc, job, txBefore, wh, wr, wt, wst>>
mgrVars  == <<slots, cap, nextId>>
engVars  == <<hs, rs, resOf, ts, engTx>>
vars     == <<uiVars, queue, stop, outbox, ops, wkVars, mgrVars, engVars>>

UiIdle == [pc |-> "idle", conn |-> 0, target |-> 0, handle |-> 0]

----------------------------------------------------------------------------
(* dbcore_conn_manager                                                      *)

Used       == {i \in 1..cap : slots[i].id # 0}
LiveIds    == {slots[i].id : i \in Used}
SlotOf(id) == CHOOSE i \in Used : slots[i].id = id          \* find_slot
InTx(id)   == id \in LiveIds /\ slots[SlotOf(id)].inTx

(* acquire_slot: the first free slot, or the first of a larger array.      *)
Full == Used = 1..cap
GrownCap == IF cap = 0 THEN FirstCap ELSE 2 * cap
BiggerUninit ==                                                      \* mutant
  [k \in 1..GrownCap |-> IF k <= cap THEN slots[k] ELSE [FreeSlot EXCEPT !.handle = MaxRequests + 1]]
Bigger == [k \in 1..GrownCap |-> IF k <= cap THEN slots[k] ELSE FreeSlot]
Store(s) ==
  \/ /\ ~Full
     /\ \E i \in 1..cap \ Used : /\ 1..(i - 1) \subseteq Used
                                 /\ slots' = [slots EXCEPT ![i] = s]
     /\ UNCHANGED cap
  \/ /\ Full
     /\ slots' = [Bigger EXCEPT ![cap + 1] = s]
     /\ cap' = GrownCap

(* release_slot clears everything but in_tx.                                *)
ReleasedKeeps(s) == s                                                \* mutant
Released(s) == [FreeSlot EXCEPT !.inTx = s.inTx]

(* free_result, disconnect and ssh_tunnel_close; each accepts NULL here.    *)
FreeResultLost(r) == rs                                              \* mutant
CloseTunnelLost(t) == ts                                             \* mutant
FreeResult(r) == IF r = 0 THEN rs ELSE [rs EXCEPT ![r] = "freed"]
Disconnect(h) == [hs EXCEPT ![h] = "freed"]
CloseTunnel(t) == IF t = 0 THEN ts ELSE [ts EXCEPT ![t] = "closed"]

----------------------------------------------------------------------------
(* the UI thread                                                            *)

(* rpc_handler: everything but op.cancel goes to the worker.               *)
Submit(k, c) ==
  /\ ui.pc = "idle" /\ ~stop
  /\ sent < MaxRequests /\ Len(queue) < MaxQueue
  /\ (k.m = "open") = (c = 0)
  /\ LET r == [rid |-> sent + 1, m |-> k.m, conn |-> c, opt |-> k.opt, read |-> k.read] IN
       /\ unanswered' = unanswered \cup {r}
       /\ queue' = Append(queue, r)
  /\ sent' = sent + 1
  /\ UNCHANGED <<known, ui, stop, outbox, ops, wkVars, mgrVars, engVars>>

(* deliver_rpc_return: the promise of the oldest response is resolved.     *)
Deliver ==
  /\ ui.pc = "idle" /\ ~stop
  /\ outbox # <<>>
  /\ LET r == Head(outbox) IN
       /\ unanswered' = {q \in unanswered : q.rid # r.rid}
       /\ known' = IF r.m = "open" /\ r.code = "ok" THEN known \cup {r.conn} ELSE known
  /\ outbox' = Tail(outbox)
  /\ UNCHANGED <<sent, ui, queue, stop, ops, wkVars, mgrVars, engVars>>

(* op.cancel, dispatched on the UI thread.  The user aims at a statement   *)
(* whose answer has not arrived.  dbcore_ipc_handle first reads the        *)
(* manager (in_tx of the connection), then the method takes the lock.      *)
Cancel(r) ==
  /\ ui.pc = "idle" /\ ~stop
  /\ r \in unanswered /\ r.m \in {"run", "next"}
  /\ ui' = [pc |-> "reading", conn |-> r.conn, target |-> r.rid, handle |-> 0]
  /\ UNCHANGED <<sent, unanswered, known, queue, stop, outbox, ops, wkVars, mgrVars, engVars>>

(* dbcore_op_cancel, with the lock: the entry of the connection, if any.   *)
CancelLock ==
  /\ ui.pc = "reading"
  /\ \/ \E e \in ops : /\ e.conn = ui.conn
                       /\ ui' = [ui EXCEPT !.pc = "cancelling", !.handle = e.handle]
     \/ /\ \A e \in ops : e.conn # ui.conn
        /\ ui' = UiIdle
  /\ UNCHANGED <<sent, unanswered, known, queue, stop, outbox, ops, wkVars, mgrVars, engVars>>

(* The driver's hook returns; a driver may have cut the session (Informix).*)
CancelDone ==
  /\ ui.pc = "cancelling"
  /\ ui' = UiIdle
  /\ hs' \in {hs, [hs EXCEPT ![ui.handle] = "dead"]}
  /\ engTx' = IF hs' # hs /\ engTx[ui.handle] = "open"
              THEN [engTx EXCEPT ![ui.handle] = "lost"] ELSE engTx
  /\ UNCHANGED <<sent, unanswered, known, queue, stop, outbox, ops, wkVars, mgrVars,
                 rs, resOf, ts>>

(* main after webview_run: stop the worker, join it, unload the drivers.   *)
CloseWindow ==
  /\ ui.pc = "idle" /\ ~stop
  /\ stop' = TRUE
  /\ ui' = [UiIdle EXCEPT !.pc = "joining"]
  /\ UNCHANGED <<sent, unanswered, known, queue, outbox, ops, wkVars, mgrVars, engVars>>

UnloadWithoutJoin ==                                                 \* mutant
  /\ ui.pc = "joining"
  /\ ui' = [UiIdle EXCEPT !.pc = "unloaded"]
  /\ UNCHANGED <<sent, unanswered, known, queue, stop, outbox, ops, wkVars, mgrVars, engVars>>

UnloadDrivers ==
  /\ ui.pc = "joining" /\ wpc = "exited"
  /\ ui' = [UiIdle EXCEPT !.pc = "unloaded"]
  /\ UNCHANGED <<sent, unanswered, known, queue, stop, outbox, ops, wkVars, mgrVars, engVars>>

----------------------------------------------------------------------------
(* the RPC worker                                                           *)

(* ipc_conn_lost_data: whether the call may be sent again on a new session. *)
RetrySafeAnyRun(lost) == lost /\ ~txBefore /\ job.m = "run"           \* mutant
RetrySafe(lost) == lost /\ ~txBefore /\ job.m = "run" /\ job.read

(* dbcore_ipc_handle after the method: the response, with the connLost data *)
(* when the status is DBC_ERR_CONN on an open connection.                   *)
Answer(code, conn, handle) ==
  LET lost == code = "conn" /\ job.m # "open" IN
  /\ outbox' = Append(outbox,
       [rid |-> job.rid, m |-> job.m, conn |-> conn, code |-> code,
        inTx |-> lost /\ txBefore,
        retry |-> RetrySafe(lost),
        handle |-> handle])
  /\ wpc' = "idle" /\ job' = NoJob /\ txBefore' = FALSE
  /\ wh' = 0 /\ wr' = 0 /\ wt' = 0 /\ wst' = "ok"

Goto(pc) == wpc' = pc /\ UNCHANGED <<job, txBefore>>

TakeNewest ==                                                        \* mutant
  LET n == Len(queue) IN
  /\ wpc = "idle" /\ ~stop /\ queue # <<>>
  /\ job' = queue[n] /\ queue' = SubSeq(queue, 1, n - 1)
  /\ txBefore' = (queue[n].m # "open" /\ InTx(queue[n].conn))
  /\ wpc' = "dispatch"
  /\ UNCHANGED <<uiVars, stop, outbox, ops, wh, wr, wt, wst, mgrVars, engVars>>

Take ==
  /\ wpc = "idle" /\ ~stop /\ queue # <<>>
  /\ job' = Head(queue) /\ queue' = Tail(queue)
  /\ txBefore' = (Head(queue).m # "open" /\ InTx(Head(queue).conn))
  /\ wpc' = "dispatch"
  /\ UNCHANGED <<uiVars, stop, outbox, ops, wh, wr, wt, wst, mgrVars, engVars>>

ExitWhenDrained ==                                                   \* mutant
  /\ wpc = "idle" /\ stop /\ queue = <<>>
  /\ Goto("exited")
  /\ UNCHANGED <<uiVars, queue, stop, outbox, ops, wh, wr, wt, wst, mgrVars, engVars>>

WorkerExit ==
  /\ wpc = "idle" /\ stop
  /\ Goto("exited")
  /\ UNCHANGED <<uiVars, queue, stop, outbox, ops, wh, wr, wt, wst, mgrVars, engVars>>

Dispatching(m) == wpc = "dispatch" /\ job.m = m /\ job.conn \in LiveIds
MySlot == slots[SlotOf(job.conn)]

(* The manager's pointer to the cursor is dropped (take_cursor does so too). *)
ClearCursorBorrow == UNCHANGED slots                                 \* mutant
ClearCursor == slots' = [slots EXCEPT ![SlotOf(job.conn)].cursor = 0]

UnknownConnSilent ==                                                 \* mutant
  /\ wpc = "dispatch" /\ job.m # "open" /\ job.conn \notin LiveIds
  /\ wpc' = "idle" /\ job' = NoJob /\ txBefore' = FALSE
  /\ UNCHANGED <<uiVars, queue, stop, outbox, ops, wh, wr, wt, wst, mgrVars, engVars>>

UnknownConn ==
  /\ wpc = "dispatch" /\ job.m # "open" /\ job.conn \notin LiveIds
  /\ Answer("notFound", job.conn, 0)
  /\ UNCHANGED <<uiVars, queue, stop, ops, mgrVars, engVars>>

(* conn.open: the parameters are refused, or the driver is dialled, behind *)
(* a tunnel when the DSN asks for one.                                     *)
OpenStart ==
  /\ wpc = "dispatch" /\ job.m = "open"
  /\ \/ Answer("other", 0, 0)
     \/ /\ Goto(IF job.opt THEN "tunnel" ELSE "connect")
        /\ UNCHANGED <<outbox, wh, wr, wt, wst>>
  /\ UNCHANGED <<uiVars, queue, stop, ops, mgrVars, engVars>>

(* ssh_tunnel_open; a DSN that cannot be rewritten closes the tunnel again.*)
OpenTunnel ==
  /\ wpc = "tunnel"
  /\ \/ /\ Goto("connect")
        /\ wt' = job.rid /\ ts' = [ts EXCEPT ![job.rid] = "up"]
        /\ UNCHANGED <<outbox, wh, wr, wst>>
     \/ /\ \E code \in {"conn", "other"} : Answer(code, 0, 0)
        /\ UNCHANGED ts
     \/ Answer("other", 0, 0) /\ ts' = [ts EXCEPT ![job.rid] = "closed"]
  /\ UNCHANGED <<uiVars, queue, stop, ops, mgrVars, hs, rs, resOf, engTx>>

(* drv->connect.  One that fails may return a handle, in an error state,     *)
(* which is disconnected; success without a handle is refused.              *)
OpenConnect ==
  /\ wpc = "connect"
  /\ \/ /\ Goto("store")
        /\ wh' = job.rid /\ hs' = [hs EXCEPT ![job.rid] = "live"]
        /\ UNCHANGED <<outbox, wr, wt, wst, ts>>
     \/ /\ \E code \in {"conn", "other"} : Answer(code, 0, 0)
        /\ hs' \in {hs, Disconnect(job.rid)}
        /\ ts' = CloseTunnel(wt)
  /\ UNCHANGED <<uiVars, queue, stop, ops, mgrVars, rs, resOf, engTx>>

OpenStore ==
  /\ wpc = "store"
  /\ Store([id |-> nextId, handle |-> wh, tunnel |-> wt, cursor |-> 0, inTx |-> FALSE])
  /\ nextId' = nextId + 1
  /\ Answer("ok", nextId, wh)
  /\ UNCHANGED <<uiVars, queue, stop, ops, engVars>>

(* The array cannot grow: everything opened so far is taken down.          *)
OpenNoMemory ==
  /\ wpc = "store" /\ Full
  /\ hs' = Disconnect(wh) /\ ts' = CloseTunnel(wt)
  /\ engTx' = [engTx EXCEPT ![wh] = "none"]
  /\ Answer("other", 0, 0)
  /\ UNCHANGED <<uiVars, queue, stop, ops, mgrVars, rs, resOf>>

(* query.run: a cursor run first drops the cursor of the connection.       *)
RunStart ==
  /\ Dispatching("run")
  /\ wh' = MySlot.handle
  /\ IF job.opt
     THEN /\ rs' = FreeResult(MySlot.cursor)
          /\ ClearCursor
     ELSE UNCHANGED <<rs, slots>>
  /\ Goto("begin")
  /\ UNCHANGED <<uiVars, queue, stop, outbox, ops, wr, wt, wst, cap, nextId,
                 hs, resOf, ts, engTx>>

(* query.next takes the cursor from the manager.                           *)
NextStart ==
  /\ Dispatching("next")
  /\ LET r == MySlot.cursor IN
     IF r = 0
     THEN Answer("notFound", job.conn, 0) /\ UNCHANGED slots
     ELSE /\ wr' = r /\ wh' = MySlot.handle
          /\ ClearCursor
          /\ Goto("begin")
          /\ UNCHANGED <<outbox, wt, wst>>
  /\ UNCHANGED <<uiVars, queue, stop, ops, cap, nextId, engVars>>

CursorClose ==
  /\ Dispatching("cursorClose")
  /\ rs' = FreeResult(MySlot.cursor)
  /\ ClearCursor
  /\ Answer("ok", job.conn, 0)
  /\ UNCHANGED <<uiVars, queue, stop, ops, cap, nextId, hs, resOf, ts, engTx>>

(* The entries of the registry but the one of this connection.              *)
OtherOpsStale == ops                                                 \* mutant
OtherOps == {e \in ops : e.conn # job.conn}

(* dbcore_op_begin under the registry's lock, which op.cancel holds while   *)
(* the driver's cancel runs; then the driver is called.                     *)
OpBegin ==
  /\ wpc = "begin" /\ ui.pc # "cancelling"
  /\ ops' = IF OtherOps # ops \/ Cardinality(ops) < OpSlots
            THEN OtherOps \cup {[conn |-> job.conn, handle |-> wh]} ELSE ops
  /\ Goto(IF job.m = "run" THEN "query" ELSE "rows")
  /\ UNCHANGED <<uiVars, queue, stop, outbox, wh, wr, wt, wst, mgrVars, engVars>>

(* drv->query: a dead session answers DBC_ERR_CONN.  A statement that is    *)
(* not a read may end the transaction (a COMMIT, or DDL that commits).      *)
DriverQuery ==
  /\ wpc = "query"
  /\ \/ /\ hs[wh] = "live"
        /\ wr' = job.rid
        /\ rs' = [rs EXCEPT ![job.rid] = "open"]
        /\ resOf' = [resOf EXCEPT ![job.rid] = wh]
        /\ engTx' \in {engTx} \cup (IF job.read THEN {} ELSE {[engTx EXCEPT ![wh] = "none"]})
        /\ Goto("rows") /\ UNCHANGED wst
     \/ /\ wst' = IF hs[wh] = "live" THEN "query" ELSE "conn"
        /\ Goto("end") /\ UNCHANGED <<wr, rs, resOf, engTx>>
  /\ UNCHANGED <<uiVars, queue, stop, outbox, ops, wh, wt, mgrVars, hs, ts>>

(* materialize: the rows of one page.  The result is freed unless a cursor  *)
(* run or query.next filled its page; a failed next_row is DBC_ERR_QUERY, a *)
(* page that cannot be allocated DBC_ERR_NOMEM.                             *)
Materialize ==
  /\ wpc = "rows"
  /\ \/ (job.m = "next" \/ job.opt) /\ UNCHANGED <<wr, rs, wst>>
     \/ /\ rs' = FreeResult(wr) /\ wr' = 0 /\ UNCHANGED wst
     \/ /\ rs' = FreeResult(wr) /\ wr' = 0 /\ wst' \in {"query", "other"}
  /\ Goto("end")
  /\ UNCHANGED <<uiVars, queue, stop, outbox, ops, wh, wt, mgrVars, hs, resOf, ts, engTx>>

(* dbcore_op_end, then a cursor still open goes (back) to the manager.      *)
OpEnd ==
  /\ wpc = "end" /\ ui.pc # "cancelling"
  /\ ops' = OtherOps
  /\ IF wr = 0 THEN UNCHANGED <<slots, rs>>
     ELSE IF job.conn \in LiveIds
     THEN /\ slots' = [slots EXCEPT ![SlotOf(job.conn)].cursor = wr]
          /\ rs' = IF MySlot.cursor = wr THEN rs ELSE FreeResult(MySlot.cursor)
     ELSE UNCHANGED slots /\ rs' = FreeResult(wr)
  /\ Answer(wst, job.conn, wh)
  /\ UNCHANGED <<uiVars, queue, stop, cap, nextId, hs, resOf, ts, engTx>>

(* tx.*: a begin inside a transaction of this connection is refused.       *)
BeginRefusedNever == FALSE                                           \* mutant
BeginRefused == job.m = "begin" /\ MySlot.inTx

TxStart ==
  /\ wpc = "dispatch" /\ job.m \in TxMethods /\ job.conn \in LiveIds
  /\ IF BeginRefused
     THEN Answer("query", job.conn, 0)
     ELSE /\ wh' = MySlot.handle /\ Goto("txcall")
          /\ UNCHANGED <<outbox, wr, wt, wst>>
  /\ UNCHANGED <<uiVars, queue, stop, ops, mgrVars, engVars>>

(* The engine's side of begin, commit and rollback.  A rollback leaves      *)
(* nothing open whatever it answers; a failed commit may or may not.        *)
EngineTx(st, newTx) ==
  /\ st \in IF hs[wh] = "live" THEN {"ok", "query"} ELSE {"conn"}
  /\ newTx \in CASE job.m = "rollback"                -> {"none"}
                 [] job.m = "begin" /\ st = "ok"      -> {"open"}
                 [] job.m = "commit" /\ st = "ok"     -> {"none"}
                 [] job.m = "commit" /\ st = "query"  -> {engTx[wh], "none"}
                 [] OTHER                             -> {engTx[wh]}

(* tx_dispatch: when the flag of the connection follows the call.           *)
FlagFollowsAnyEnd(st) == job.m # "begin" \/ st = "ok"                \* mutant
FlagFollows(st) == job.m = "rollback" \/ st = "ok"

TxReturn ==
  /\ wpc = "txcall"
  /\ \E st \in {"ok", "query", "conn"}, newTx \in {"none", "open", "lost"} :
       /\ EngineTx(st, newTx)
       /\ engTx' = [engTx EXCEPT ![wh] = newTx]
       /\ slots' = IF FlagFollows(st)
                   THEN [slots EXCEPT ![SlotOf(job.conn)].inTx = (job.m = "begin")]
                   ELSE slots
       /\ Answer(st, job.conn, wh)
  /\ UNCHANGED <<uiVars, queue, stop, ops, cap, nextId, hs, rs, resOf, ts>>

(* schema.* and row.*: a driver call that the registry does not know.  Only *)
(* some of them reach the server (a preview renders a statement), so a dead *)
(* session need not be noticed.                                             *)
CallStart ==
  /\ Dispatching("call")
  /\ wh' = MySlot.handle /\ Goto("call")
  /\ UNCHANGED <<uiVars, queue, stop, outbox, ops, wr, wt, wst, mgrVars, engVars>>

CallReturn ==
  /\ wpc = "call"
  /\ \E st \in {"ok", "query", "other"} \cup (IF hs[wh] = "live" THEN {} ELSE {"conn"}) :
       Answer(st, job.conn, wh)
  /\ UNCHANGED <<uiVars, queue, stop, ops, mgrVars, engVars>>

(* conn.close is release_slot: the cursor, then the session, then the       *)
(* tunnel the session's socket runs through.                                *)
CloseStart ==
  /\ Dispatching("close")
  /\ wh' = MySlot.handle /\ wt' = MySlot.tunnel
  /\ rs' = FreeResult(MySlot.cursor)
  /\ ClearCursor
  /\ Goto("disconnect")
  /\ UNCHANGED <<uiVars, queue, stop, outbox, ops, wr, wst, cap, nextId,
                 hs, resOf, ts, engTx>>

CloseDisconnect ==
  /\ wpc = "disconnect"
  /\ hs' = Disconnect(wh)
  /\ engTx' = [engTx EXCEPT ![wh] = "none"]
  /\ Goto("untunnel")
  /\ UNCHANGED <<uiVars, queue, stop, outbox, ops, wh, wr, wt, wst, mgrVars,
                 rs, resOf, ts>>

CloseRelease ==
  /\ wpc = "untunnel"
  /\ ts' = CloseTunnel(wt)
  /\ slots' = [slots EXCEPT ![SlotOf(job.conn)] = Released(@)]
  /\ Answer("ok", job.conn, 0)
  /\ UNCHANGED <<uiVars, queue, stop, ops, cap, nextId, hs, rs, resOf, engTx>>

----------------------------------------------------------------------------
(* The server closes the session, or the network does; a transaction that   *)
(* was open is rolled back there.                                           *)
SessionDies(h) ==
  /\ hs[h] = "live"
  /\ hs' = [hs EXCEPT ![h] = "dead"]
  /\ engTx' = IF engTx[h] = "open" THEN [engTx EXCEPT ![h] = "lost"] ELSE engTx
  /\ UNCHANGED <<uiVars, queue, stop, outbox, ops, wkVars, mgrVars, rs, resOf, ts>>

Init ==
  /\ sent = 0 /\ unanswered = {} /\ known = {} /\ ui = UiIdle
  /\ queue = <<>> /\ stop = FALSE /\ outbox = <<>> /\ ops = {}
  /\ wpc = "idle" /\ job = NoJob /\ txBefore = FALSE
  /\ wh = 0 /\ wr = 0 /\ wt = 0 /\ wst = "ok"
  /\ slots = <<>> /\ cap = 0 /\ nextId = 1
  /\ hs = [r \in Rid |-> "none"] /\ rs = [r \in Rid |-> "none"]
  /\ resOf = [r \in Rid |-> 0]
  /\ ts = [r \in Rid |-> "none"] /\ engTx = [r \in Rid |-> "none"]

UiStep ==
  \/ \E k \in Kinds, c \in {0} \cup known : Submit(k, c)
  \/ Deliver
  \/ \E r \in unanswered : Cancel(r)
  \/ CancelLock \/ CancelDone
  \/ CloseWindow \/ UnloadDrivers

WorkerStep ==
  \/ Take \/ WorkerExit \/ UnknownConn
  \/ OpenStart \/ OpenTunnel \/ OpenConnect \/ OpenStore \/ OpenNoMemory
  \/ RunStart \/ NextStart \/ CursorClose
  \/ OpBegin \/ DriverQuery \/ Materialize \/ OpEnd
  \/ TxStart \/ TxReturn \/ CallStart \/ CallReturn
  \/ CloseStart \/ CloseDisconnect \/ CloseRelease

Terminated == ui.pc = "unloaded" /\ UNCHANGED vars

Next == UiStep \/ WorkerStep \/ (\E h \in Rid : SessionDies(h)) \/ Terminated

Spec == Init /\ [][Next]_vars

----------------------------------------------------------------------------
Alive == {"live", "dead"}
WorkerPcs == {"idle", "exited", "dispatch", "tunnel", "connect", "store", "begin",
              "query", "rows", "end", "txcall", "call", "disconnect", "untunnel"}

(* Types of the variables, thread by thread.                                *)
UiType ==
  /\ sent \in 0..MaxRequests /\ unanswered \subseteq Request /\ known \subseteq Nat
  /\ ui \in [pc : {"idle", "reading", "cancelling", "joining", "unloaded"},
             conn : Nat, target : Ref, handle : Ref]
PipeType ==
  /\ queue \in Seq(Request) /\ stop \in BOOLEAN /\ outbox \in Seq(Reply)
  /\ ops \subseteq [conn : Nat, handle : Rid]
WorkerType ==
  /\ wpc \in WorkerPcs /\ job \in Request \cup {NoJob}
  /\ txBefore \in BOOLEAN /\ wst \in Codes
  /\ wh \in Ref /\ wr \in Ref /\ wt \in Ref
MgrType == cap \in Nat /\ slots \in [1..cap -> Slot] /\ nextId \in Nat \ {0}
EngType ==
  /\ hs \in [Rid -> {"none", "live", "dead", "freed"}]
  /\ rs \in [Rid -> {"none", "open", "freed"}]
  /\ resOf \in [Rid -> Ref]
  /\ ts \in [Rid -> {"none", "up", "closed"}]
  /\ engTx \in [Rid -> {"none", "open", "lost"}]
TypeOK == UiType /\ PipeType /\ WorkerType /\ MgrType /\ EngType

(* No reference outlives its object: a slot's session is connected, its    *)
(* tunnel up and its cursor open, save for what a conn.close in progress   *)
(* has already released; so is what the worker holds in local variables.   *)
Closing(i) == wpc = "untunnel" /\ slots[i].id = job.conn
NoDangling ==
  /\ \A i \in Used :
       /\ slots[i].handle # 0
       /\ hs[slots[i].handle] \in Alive \/ Closing(i)
       /\ slots[i].tunnel # 0 => ts[slots[i].tunnel] = "up"
       /\ slots[i].cursor # 0 => /\ rs[slots[i].cursor] = "open"
                                 /\ resOf[slots[i].cursor] = slots[i].handle
  /\ wr # 0 => rs[wr] = "open" /\ resOf[wr] = wh
  /\ wpc \in {"store", "begin", "query", "rows", "end", "txcall", "call", "disconnect"}
       => wh # 0 /\ hs[wh] \in Alive

(* No object has two owners, so nothing is released twice.                 *)
NoSharing ==
  /\ \A i, j \in Used : i # j =>
       /\ slots[i].id # slots[j].id
       /\ slots[i].handle # slots[j].handle
       /\ slots[i].tunnel # 0 => slots[i].tunnel # slots[j].tunnel
       /\ slots[i].cursor # 0 => slots[i].cursor # slots[j].cursor
  /\ wr # 0 => \A i \in Used : slots[i].cursor # wr
  /\ wpc = "store" => \A i \in Used : slots[i].handle # wh

(* No object is left without an owner: every session, tunnel and result     *)
(* that is open is in a slot or in the worker's hands, on every error path. *)
NoLeak ==
  /\ \A h \in Rid : hs[h] \in Alive =>
       (\E i \in Used : slots[i].handle = h) \/ (wpc = "store" /\ wh = h)
  /\ \A t \in Rid : ts[t] = "up" => (\E i \in Used : slots[i].tunnel = t) \/ wt = t
  /\ \A r \in Rid : rs[r] = "open" => (\E i \in Used : slots[i].cursor = r) \/ wr = r

(* release_slot's order: a result is freed before its session ends, and a   *)
(* session never outlives the tunnel its socket runs through.               *)
ReleaseOrder ==
  /\ \A r \in Rid : rs[r] = "open" => resOf[r] # 0 /\ hs[resOf[r]] \in Alive
  /\ \A h \in Rid : hs[h] \in Alive => ts[h] # "closed"

(* op_registry.h: the handle a cancel reaches stays valid, because the      *)
(* connection cannot be closed while its query runs; and only the query the *)
(* worker is running now is registered.                                     *)
CancelReachesRunningQuery ==
  /\ \A e \in ops : /\ wpc \in {"query", "rows", "end"}
                    /\ e = [conn |-> job.conn, handle |-> wh]
  /\ ui.pc = "cancelling" => [conn |-> ui.conn, handle |-> ui.handle] \in ops

(* The manager's in_tx errs on one side only: while a tx.begin's transaction*)
(* is open at the server, or was lost with its session and not yet rolled   *)
(* back, the flag of its connection is set.                                 *)
TxFlagCoversEngine ==
  \A i \in Used : engTx[slots[i].handle] # "none" => slots[i].inTx \/ Closing(i)

(* tx_methods.c: a second tx.begin never reaches the engine, where MySQL    *)
(* would commit the first transaction.                                      *)
NoNestedBegin == (wpc = "txcall" /\ job.m = "begin") => engTx[wh] = "none"

(* conn_lost.c: an answer offers a retry only of a read, as the frontend    *)
(* that still waits for it asked for it, and only when no transaction was   *)
(* lost with the session.                                                   *)
NoBlindRetry ==
  \A k \in 1..Len(outbox) : outbox[k].retry =>
    /\ outbox[k].code = "conn" /\ engTx[outbox[k].handle] # "lost"
    /\ \E q \in unanswered : q.rid = outbox[k].rid /\ q.m = "run" /\ q.read

(* main: the driver plugins are unloaded only when no driver call is        *)
(* running and none will start.                                             *)
DriversOutliveCalls == ui.pc = "unloaded" => wpc = "exited" /\ ops = {}

----------------------------------------------------------------------------
(* The threads implement a first-in first-out service (module RpcService):  *)
(* a call takes effect when the worker posts its answer.                    *)
Pending == (IF job = NoJob THEN <<>> ELSE <<job>>) \o queue
Answers == [k \in 1..Len(outbox) |->
              [rid |-> outbox[k].rid, m |-> outbox[k].m, conn |-> outbox[k].conn,
               code |-> outbox[k].code, inTx |-> outbox[k].inTx, retry |-> outbox[k].retry]]
Service == INSTANCE RpcService WITH
  calls <- Pending, answers <- Answers, open <- LiveIds,
  inTx <- {slots[i].id : i \in {k \in Used : slots[k].inTx}}, issued <- nextId - 1
ServiceSpec == Service!Spec

(* Fairness: the threads are scheduled, and a driver call returns (main's   *)
(* join waits for it).  OpBegin and OpEnd compete with op.cancel for the    *)
(* lock, and a posted response with the clicks of the user: nobody cancels  *)
(* often enough to starve them.                                             *)
Fairness ==
  /\ WF_vars(WorkerStep) /\ SF_vars(OpBegin) /\ SF_vars(OpEnd)
  /\ SF_vars(Deliver)
  /\ WF_vars(CancelLock) /\ WF_vars(CancelDone) /\ WF_vars(UnloadDrivers)

FairSpec == Spec /\ Fairness

(* rpc_worker_loop: every call is answered, unless the window is closed.    *)
EveryCallAnswered ==
  \A r \in Rid : sent >= r ~> (\A q \in unanswered : q.rid # r) \/ stop

(* main: closing the window ends the worker, queued requests or not, and    *)
(* the drivers are unloaded.                                                *)
ShutdownCompletes == stop ~> ui.pc = "unloaded"

=============================================================================
