----------------------------- MODULE RpcCoreInv -----------------------------
(* The inductive invariant of RpcCore: what relates the worker's position   *)
(* and local variables to the queue, the slots and the engine's objects.    *)
EXTENDS RpcCore

OnConn == {"begin", "query", "rows", "end", "txcall", "call", "disconnect", "untunnel"}

(* The slot of the connection the request at hand names.                    *)
Mine == {i \in Used : slots[i].id = job.conn}

(* Requests are numbered in the order they are sent and handled in that     *)
(* order, so the one at hand is the newest that has left the queue.         *)
JobInv ==
  /\ (job = NoJob) = (wpc \in {"idle", "exited"})
  /\ Len(queue) <= sent
  /\ \A k \in 1..Len(queue) : queue[k].rid = (sent - Len(queue)) + k
  /\ job # NoJob => job.rid = sent - Len(queue)
  /\ wpc \in {"tunnel", "connect", "store"} => job.m = "open"
  /\ wpc \in OnConn => job.m # "open" /\ job.conn \in LiveIds
  /\ wpc = "query" => job.m = "run"
  /\ wpc \in {"begin", "rows", "end"} => job.m \in {"run", "next"}
  /\ wpc = "txcall" => job.m \in TxMethods

(* A request that has not started has created nothing yet.                  *)
Fresh ==
  /\ \A r \in Rid : r > sent - Len(queue) =>
       hs[r] = "none" /\ rs[r] = "none" /\ ts[r] = "none"
  /\ wpc \in {"dispatch", "tunnel", "connect"} => hs[job.rid] = "none"
  /\ wpc \in {"dispatch", "tunnel"} => ts[job.rid] = "none"
  /\ wpc = "dispatch" \/ (job # NoJob /\ job.m = "run" /\ wpc \in {"begin", "query"})
       => rs[job.rid] = "none"

(* What the worker holds at each point of a method.                         *)
LocalsInv ==
  /\ wpc \in {"idle", "exited", "dispatch", "tunnel", "connect"} => wh = 0
  /\ wpc \in {"connect", "store"} =>
       \/ wt = 0 /\ ts[job.rid] = "none"
       \/ wt = job.rid /\ ts[job.rid] = "up"
  /\ wpc = "store" => wh = job.rid /\ engTx[wh] = "none"
  /\ wpc \in OnConn => \A i \in Mine : wh = slots[i].handle
  /\ wpc \in {"disconnect", "untunnel"} =>
       \A i \in Mine : wt = slots[i].tunnel /\ slots[i].cursor = 0
  /\ wpc \notin {"connect", "store", "disconnect", "untunnel"} => wt = 0
  /\ wpc \notin {"begin", "rows", "end"} => wr = 0
  /\ wpc = "begin" => (wr = 0) = (job.m = "run")
  /\ wpc = "rows" => wr # 0
  /\ wpc = "untunnel" => hs[wh] = "freed"

(* What a slot in use holds: the objects of one conn.open.                  *)
SlotsInv ==
  \A i \in Used :
    /\ slots[i].id < nextId
    /\ \/ slots[i].tunnel = 0 /\ ts[slots[i].handle] = "none"
       \/ slots[i].tunnel = slots[i].handle

TxInv ==
  /\ TxFlagCoversEngine
  /\ \A h \in Rid : hs[h] \notin Alive => engTx[h] = "none"
  /\ (wpc = "txcall" /\ job.m = "begin") =>
       \A i \in Mine : ~slots[i].inTx

OwnershipInv == NoDangling /\ NoSharing /\ NoLeak /\ ReleaseOrder

IInv ==
  /\ TypeOK /\ JobInv /\ Fresh /\ LocalsInv /\ SlotsInv
  /\ OwnershipInv /\ CancelReachesRunningQuery /\ TxInv

(* What makes a retry safe.  in_tx as it was read before the method ran     *)
(* still tells, while a statement runs, that no transaction was open; and   *)
(* DBC_ERR_CONN comes from a session that is dead, which opens no more.     *)
RetryLocal ==
  /\ wpc = "dispatch" /\ job.m # "open" /\ ~txBefore => \A i \in Mine : ~slots[i].inTx
  /\ wpc \in {"begin", "query", "rows", "end"} /\ ~txBefore => engTx[wh] = "none"
  /\ wpc # "end" => wst = "ok"
  /\ wst = "conn" => hs[wh] = "dead"
  /\ wpc = "call" => job.m = "call"
SafeRetry(a) ==
  a.retry => /\ a.code = "conn" /\ a.m = "run" /\ a.handle \in Rid
             /\ hs[a.handle] \in {"dead", "freed"} /\ engTx[a.handle] = "none"
RetriesSafe == \A k \in 1..Len(outbox) : SafeRetry(outbox[k])
RetryInv == RetryLocal /\ RetriesSafe

(* Who asked.  What is queued, or being handled, is still waited for; the   *)
(* responses not yet delivered are of calls that left the queue earlier, no *)
(* two of the same call; and one that offers a retry is of a read that is   *)
(* still waited for.                                                        *)
Asked(a) ==
  /\ a.rid <= sent - Len(queue)
  /\ job # NoJob => a.rid # job.rid
  /\ a.retry => \E q \in unanswered : q.rid = a.rid /\ q.m = "run" /\ q.read
AskInv ==
  /\ \A k \in 1..Len(queue) : queue[k] \in unanswered
  /\ job # NoJob => job \in unanswered
  /\ \A k \in 1..Len(outbox) : Asked(outbox[k])
  /\ \A j, k \in 1..Len(outbox) : j # k => outbox[j].rid # outbox[k].rid

(* The window closes on a worker that has left its loop for good.           *)
ShutInv == ui.pc = "unloaded" => wpc = "exited"

(* What the service of module RpcService reads.  in_tx as it was read for   *)
(* the request at hand is still its connection's; ids are given out before  *)
(* anyone names them; only conn.close takes a session down.                 *)
Flags == {slots[i].id : i \in {k \in Used : slots[k].inTx}}
FlagRead == job # NoJob => (txBefore <=> job.m # "open" /\ job.conn \in Flags)
Given ==
  /\ \A c \in known : c < nextId
  /\ \A k \in 1..Len(outbox) :
       outbox[k].m = "open" /\ outbox[k].code = "ok" => outbox[k].conn < nextId
CloseLocal == wpc \in {"disconnect", "untunnel"} => job.m = "close"
SvcInv == FlagRead /\ Given /\ wst \in {"ok", "conn", "query", "other"}
=============================================================================
