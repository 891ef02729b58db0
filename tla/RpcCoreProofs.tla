---------------------------- MODULE RpcCoreProofs ----------------------------
(* The safety properties of RpcCore hold for every number of requests,      *)
(* queue bound, slot array and registry size, and every mix of calls.       *)
EXTENDS RpcCoreInv, SequenceTheorems, TLAPS

(* find_slot returns the slot of a live id, and there is only one.          *)
LEMMA SlotFound ==
  ASSUME NoSharing, job.conn \in LiveIds
  PROVE  /\ SlotOf(job.conn) \in Used
         /\ slots[SlotOf(job.conn)].id = job.conn
         /\ Mine = {SlotOf(job.conn)}
<1>1. SlotOf(job.conn) \in Used /\ slots[SlotOf(job.conn)].id = job.conn
  BY DEF LiveIds, SlotOf
<1>2. QED
  BY <1>1 DEF NoSharing, Mine

(* An answer is well typed and leaves the worker idle with nothing in hand. *)
LEMMA AnswerState ==
  ASSUME JobInv, NEW code, NEW conn, NEW h, Answer(code, conn, h), UNCHANGED <<sent, queue>>
  PROVE  /\ wpc' = "idle" /\ job' = NoJob /\ wh' = 0 /\ wr' = 0 /\ wt' = 0
         /\ WorkerType' /\ JobInv'
<1>1. /\ wpc' = "idle" /\ job' = NoJob /\ txBefore' = FALSE /\ wst' = "ok"
      /\ wh' = 0 /\ wr' = 0 /\ wt' = 0
  BY DEF Answer
<1>2. 0 \in Ref /\ "ok" \in Codes /\ "idle" \in WorkerPcs
  BY ConstantsAssumption DEF Ref, Codes, WorkerPcs
<1>3. WorkerType'
  BY <1>1, <1>2 DEF WorkerType
<1>4. JobInv'
  BY <1>1 DEF JobInv, OnConn
<1>5. QED
  BY <1>1, <1>3, <1>4

(* The response and the queues an answer leaves behind are well typed.      *)
LEMMA AnswerType ==
  ASSUME TypeOK, JobInv, wpc \notin {"idle", "exited"},
         NEW code \in Codes, NEW conn \in Nat, NEW h \in Ref,
         Answer(code, conn, h), UNCHANGED <<queue, stop>>,
         ops' \subseteq [conn : Nat, handle : Rid]
  PROVE  PipeType'
<1>1. job \in Request
  BY DEF JobInv, TypeOK, WorkerType
<1>2. [rid |-> job.rid, m |-> job.m, conn |-> conn, code |-> code,
        inTx |-> (code = "conn" /\ job.m # "open") /\ txBefore,
        retry |-> RetrySafe(code = "conn" /\ job.m # "open"),
        handle |-> h] \in Reply
  BY <1>1 DEF Reply, Request, RetrySafe, TypeOK, WorkerType
<1>3. outbox' \in Seq(Reply)
  BY <1>2 DEF Answer, TypeOK, PipeType
<1>4. QED
  BY <1>3 DEF TypeOK, PipeType

(* Outside a registered query nothing can be canceled.                      *)
LEMMA CancelFrame ==
  ASSUME CancelReachesRunningQuery, wpc \notin {"query", "rows", "end"},
         UNCHANGED <<ui, ops>>
  PROVE  CancelReachesRunningQuery'
BY DEF CancelReachesRunningQuery

----------------------------------------------------------------------------
(* Steps that leave the worker, the manager and the engine alone.           *)
CoreInv == /\ WorkerType /\ MgrType /\ EngType
           /\ JobInv /\ Fresh /\ LocalsInv /\ SlotsInv /\ OwnershipInv /\ TxInv

(* The UI thread on its own cannot disturb the core.                        *)
LEMMA CoreFrame ==
  ASSUME CoreInv, UNCHANGED <<sent, queue, wkVars, mgrVars, engVars>>
  PROVE  CoreInv'
<1> USE DEF wkVars, mgrVars, engVars, Used, Mine, LiveIds
<1>1. WorkerType' /\ MgrType' /\ EngType'
  BY DEF CoreInv, WorkerType, MgrType, EngType
<1>2. JobInv' /\ Fresh'
  BY DEF CoreInv, JobInv, Fresh
<1>3. LocalsInv' /\ SlotsInv'
  BY DEF CoreInv, LocalsInv, SlotsInv
<1>4. OwnershipInv'
  BY DEF CoreInv, OwnershipInv, NoDangling, NoSharing, NoLeak, ReleaseOrder, Closing
<1>5. TxInv'
  BY DEF CoreInv, TxInv, TxFlagCoversEngine, Closing
<1>6. QED
  BY <1>1, <1>2, <1>3, <1>4, <1>5 DEF CoreInv

(* A session that dies stays owned; its transaction is lost, not forgotten. *)
LEMMA DeathStep ==
  ASSUME CoreInv, NEW h \in Rid, hs[h] \in Alive,
         hs' = [hs EXCEPT ![h] = "dead"],
         engTx' = IF engTx[h] = "open" THEN [engTx EXCEPT ![h] = "lost"] ELSE engTx,
         UNCHANGED <<sent, queue, wkVars, mgrVars, rs, resOf, ts>>
  PROVE  CoreInv'
<1> USE DEF wkVars, mgrVars, Used, Mine, LiveIds, Alive
<1>1. WorkerType' /\ MgrType' /\ EngType'
  BY DEF CoreInv, WorkerType, MgrType, EngType
<1>2. \A g \in Rid : g # h => hs'[g] = hs[g]
  BY DEF CoreInv, EngType
<1>3. hs'[h] = "dead" /\ hs[h] \notin {"none", "freed"}
  BY DEF CoreInv, EngType
<1>4. \A g \in Rid : engTx'[g] = "none" <=> engTx[g] = "none"
  BY DEF CoreInv, EngType
<1>5. JobInv'
  BY DEF CoreInv, JobInv
<1>6. Fresh'
  BY <1>2, <1>3 DEF CoreInv, Fresh
<1>7. LocalsInv'
  BY <1>2, <1>3, <1>4 DEF CoreInv, LocalsInv
<1>8. SlotsInv'
  BY DEF CoreInv, SlotsInv
<1>9. OwnershipInv'
  BY <1>2, <1>3 DEF CoreInv, OwnershipInv, NoDangling, NoSharing, NoLeak, ReleaseOrder, Closing
<1>10. TxInv'
  BY <1>2, <1>3, <1>4 DEF CoreInv, TxInv, TxFlagCoversEngine, Closing
<1>11. QED
  BY <1>1, <1>5, <1>6, <1>7, <1>8, <1>9, <1>10 DEF CoreInv
----------------------------------------------------------------------------
(* The steps of the worker, one lemma for each.                             *)
LEMMA TakeStep ==
  ASSUME IInv, Take PROVE CoreInv' /\ PipeType' /\ CancelReachesRunningQuery'
<1> USE DEF Take, mgrVars, engVars, Used, Mine, LiveIds, uiVars
<1>1. /\ queue \in Seq(Request) /\ queue # <<>> /\ Len(queue) \in Nat
      /\ sent \in Nat /\ job' = queue[1] /\ queue[1] \in Request
      /\ Len(queue') = Len(queue) - 1 /\ queue' \in Seq(Request)
      /\ \A k \in 1..Len(queue') : queue'[k] = queue[k + 1]
  BY ConstantsAssumption DEF IInv, TypeOK, PipeType, UiType
<1>2. job'.rid = (sent - Len(queue)) + 1 /\ job' # NoJob
  BY <1>1 DEF IInv, JobInv, Request, NoJob, Rid
<1>3. WorkerType' /\ PipeType' /\ MgrType' /\ EngType'
  BY <1>1 DEF IInv, TypeOK, WorkerType, MgrType, EngType, PipeType, WorkerPcs, InTx, Slot, SlotOf
<1>4. JobInv'
  BY <1>1, <1>2 DEF IInv, JobInv, OnConn
<1>5. Fresh'
  BY <1>1, <1>2 DEF IInv, Fresh, Request, Rid
<1>6. LocalsInv' /\ SlotsInv'
  BY DEF IInv, LocalsInv, SlotsInv, OnConn
<1>7. OwnershipInv'
  BY DEF IInv, OwnershipInv, NoDangling, NoSharing, NoLeak, ReleaseOrder, Closing
<1>8. TxInv'
  BY DEF IInv, TxInv, TxFlagCoversEngine, Closing
<1>9. CancelReachesRunningQuery'
  BY CancelFrame DEF IInv
<1>10. QED
  BY <1>3, <1>4, <1>5, <1>6, <1>7, <1>8, <1>9 DEF CoreInv

(* WorkerExit leaves the loop with nothing in hand.                         *)
LEMMA WorkerExitStep ==
  ASSUME IInv, WorkerExit PROVE CoreInv' /\ PipeType' /\ CancelReachesRunningQuery'
<1> USE DEF WorkerExit, Goto, mgrVars, engVars, Used, Mine, LiveIds, uiVars
<1>1. WorkerType' /\ PipeType' /\ MgrType' /\ EngType'
  BY DEF IInv, TypeOK, WorkerType, MgrType, EngType, PipeType, WorkerPcs
<1>2. JobInv' /\ Fresh'
  BY DEF IInv, JobInv, Fresh, OnConn
<1>3. LocalsInv' /\ SlotsInv'
  BY DEF IInv, LocalsInv, SlotsInv, OnConn
<1>4. OwnershipInv' /\ TxInv'
  BY DEF IInv, OwnershipInv, NoDangling, NoSharing, NoLeak, ReleaseOrder, Closing,
         TxInv, TxFlagCoversEngine
<1>5. CancelReachesRunningQuery'
  BY CancelFrame DEF IInv
<1>6. QED
  BY <1>1, <1>2, <1>3, <1>4, <1>5 DEF CoreInv

(* An answer that changes neither the manager nor the engine.               *)
LEMMA AnswerFrame ==
  ASSUME IInv, wpc \in {"dispatch", "tunnel", "call"},
         NEW code \in Codes, NEW conn \in Nat, NEW h \in Ref, Answer(code, conn, h),
         UNCHANGED <<uiVars, queue, stop, ops, mgrVars, engVars>>
  PROVE  CoreInv' /\ PipeType' /\ CancelReachesRunningQuery'
<1> USE DEF mgrVars, engVars, Used, Mine, LiveIds, uiVars
<1>1. /\ wpc' = "idle" /\ job' = NoJob /\ wh' = 0 /\ wr' = 0 /\ wt' = 0
      /\ WorkerType' /\ JobInv'
  BY AnswerState DEF IInv
<1>2. PipeType' /\ MgrType' /\ EngType'
  BY AnswerType DEF IInv, TypeOK, PipeType, MgrType, EngType
<1>3. Fresh' /\ LocalsInv' /\ SlotsInv'
  BY <1>1 DEF IInv, Fresh, LocalsInv, SlotsInv, OnConn
<1>4. OwnershipInv' /\ TxInv'
  BY <1>1 DEF IInv, OwnershipInv, NoDangling, NoSharing, NoLeak, ReleaseOrder, Closing,
         TxInv, TxFlagCoversEngine, LocalsInv
<1>5. CancelReachesRunningQuery'
  BY CancelFrame DEF IInv
<1>6. QED
  BY <1>1, <1>2, <1>3, <1>4, <1>5 DEF CoreInv

(* The worker answers with what the type of a reply allows.                 *)
LEMMA AnswerData ==
  ASSUME IInv
  PROVE  /\ {"ok", "conn", "query", "notFound", "other"} \subseteq Codes
         /\ 0 \in Ref /\ wh \in Ref /\ wst \in Codes
         /\ job \in Request \cup {NoJob}
         /\ wpc \notin {"idle", "exited"} => job \in Request /\ job.conn \in Nat /\ job.rid \in Rid
BY ConstantsAssumption DEF IInv, TypeOK, WorkerType, JobInv, Request, Ref, Codes

(* UnknownConn (an id no slot has) answers and changes nothing else.        *)
LEMMA UnknownConnStep ==
  ASSUME IInv, UnknownConn PROVE CoreInv' /\ PipeType' /\ CancelReachesRunningQuery'
BY AnswerData, AnswerFrame DEF UnknownConn

(* OpenStart refuses, or goes on to dial with nothing created yet.          *)
LEMMA OpenStartStep ==
  ASSUME IInv, OpenStart PROVE CoreInv' /\ PipeType' /\ CancelReachesRunningQuery'
<1> USE DEF OpenStart
<1>1. CASE Answer("other", 0, 0)
  BY <1>1, AnswerData, AnswerFrame
<1>2. CASE /\ Goto(IF job.opt THEN "tunnel" ELSE "connect")
           /\ UNCHANGED <<outbox, wh, wr, wt, wst>>
  <2> USE <1>2 DEF Goto, mgrVars, engVars, Used, Mine, LiveIds, uiVars
  <2>1. WorkerType' /\ PipeType' /\ MgrType' /\ EngType'
    BY DEF IInv, TypeOK, WorkerType, MgrType, EngType, PipeType, WorkerPcs
  <2>2. JobInv' /\ Fresh'
    BY DEF IInv, JobInv, Fresh, OnConn
  <2>3. LocalsInv' /\ SlotsInv'
    BY DEF IInv, LocalsInv, SlotsInv, OnConn, Fresh
  <2>4. OwnershipInv' /\ TxInv'
    BY DEF IInv, OwnershipInv, NoDangling, NoSharing, NoLeak, ReleaseOrder, Closing,
           TxInv, TxFlagCoversEngine
  <2>5. CancelReachesRunningQuery'
    BY CancelFrame DEF IInv
  <2>6. QED
    BY <2>1, <2>2, <2>3, <2>4, <2>5 DEF CoreInv
<1>3. QED
  BY <1>1, <1>2

(* While a session is being opened, every slot in use is whole.             *)
LEMMA SlotsWhole ==
  ASSUME IInv, wpc # "untunnel", NEW i \in Used
  PROVE  /\ slots[i] \in Slot /\ slots[i].handle \in Rid /\ hs[slots[i].handle] \in Alive
         /\ slots[i].tunnel # 0 => slots[i].tunnel \in Rid /\ ts[slots[i].tunnel] = "up"
         /\ slots[i].cursor # 0 => slots[i].cursor \in Rid /\ rs[slots[i].cursor] = "open"
BY ConstantsAssumption DEF IInv, OwnershipInv, NoDangling, Closing, Used, TypeOK, MgrType, Slot, Ref, Rid

(* OpenTunnel: the tunnel is the worker's, or is gone when the open fails.  *)
LEMMA OpenTunnelStep ==
  ASSUME IInv, OpenTunnel PROVE CoreInv' /\ PipeType' /\ CancelReachesRunningQuery'
<1> USE DEF OpenTunnel, mgrVars, Used, Mine, LiveIds, uiVars
<1>1. /\ job.rid \in Rid /\ hs[job.rid] = "none" /\ ts[job.rid] = "none" /\ job # NoJob
      /\ job.rid = sent - Len(queue) /\ job.m = "open"
      /\ wh = 0 /\ wr = 0 /\ wt = 0
  BY AnswerData DEF IInv, JobInv, Fresh, LocalsInv
<1>2. CASE (\E code \in {"conn", "other"} : Answer(code, 0, 0)) /\ UNCHANGED ts
  <2>1. PICK code \in {"conn", "other"} : Answer(code, 0, 0)
    BY <1>2
  <2>2. QED
    BY <1>2, <2>1, AnswerData, AnswerFrame DEF engVars
<1>3. CASE /\ Goto("connect") /\ wt' = job.rid /\ ts' = [ts EXCEPT ![job.rid] = "up"]
           /\ UNCHANGED <<outbox, wh, wr, wst>>
  <2> USE <1>1, <1>3 DEF Goto
  <2>1. ts'[job.rid] = "up" /\ \A t \in Rid : t # job.rid => ts'[t] = ts[t]
    BY DEF IInv, TypeOK, EngType
  <2>2. WorkerType' /\ PipeType' /\ MgrType' /\ EngType'
    BY DEF IInv, TypeOK, WorkerType, MgrType, EngType, PipeType, WorkerPcs, Ref, Rid
  <2>3. JobInv' /\ Fresh'
    BY <2>1 DEF IInv, JobInv, Fresh, OnConn, Rid
  <2>4. LocalsInv' /\ SlotsInv'
    BY <2>1, SlotsWhole DEF IInv, LocalsInv, SlotsInv, OnConn, Alive
  <2>5. NoDangling' /\ NoSharing' /\ TxInv'
    BY <2>1, SlotsWhole DEF IInv, OwnershipInv, NoDangling, NoSharing, Closing,
           TxInv, TxFlagCoversEngine
  <2>6. NoLeak' /\ ReleaseOrder'
    BY <2>1 DEF IInv, OwnershipInv, NoLeak, ReleaseOrder, Alive, Rid
  <2>7. CancelReachesRunningQuery'
    BY CancelFrame DEF IInv
  <2>8. QED
    BY <2>2, <2>3, <2>4, <2>5, <2>6, <2>7 DEF CoreInv, OwnershipInv
<1>4. CASE Answer("other", 0, 0) /\ ts' = [ts EXCEPT ![job.rid] = "closed"]
  <2> USE <1>1, <1>4
  <2>1. ts'[job.rid] = "closed" /\ \A t \in Rid : t # job.rid => ts'[t] = ts[t]
    BY DEF IInv, TypeOK, EngType
  <2>2. /\ wpc' = "idle" /\ job' = NoJob /\ wh' = 0 /\ wr' = 0 /\ wt' = 0
        /\ WorkerType' /\ JobInv'
    BY AnswerState DEF IInv
  <2>3. PipeType' /\ MgrType' /\ EngType'
    BY AnswerData, AnswerType DEF IInv, TypeOK, PipeType, MgrType, EngType
  <2>4. Fresh' /\ LocalsInv' /\ SlotsInv'
    BY <2>1, <2>2, SlotsWhole DEF IInv, Fresh, LocalsInv, SlotsInv, OnConn, Alive, Rid
  <2>5. OwnershipInv' /\ TxInv'
    BY <2>1, <2>2, SlotsWhole DEF IInv, OwnershipInv, NoDangling, NoSharing, NoLeak,
           ReleaseOrder, Closing, Alive, TxInv, TxFlagCoversEngine
  <2>6. CancelReachesRunningQuery'
    BY CancelFrame DEF IInv
  <2>7. QED
    BY <2>2, <2>3, <2>4, <2>5, <2>6 DEF CoreInv
<1>5. QED
  BY <1>2, <1>3, <1>4

(* OpenConnect: the session is the worker's, or the tunnel is closed.       *)
LEMMA OpenConnectStep ==
  ASSUME IInv, OpenConnect PROVE CoreInv' /\ PipeType' /\ CancelReachesRunningQuery'
<1> USE DEF OpenConnect, mgrVars, Used, Mine, LiveIds, uiVars
<1>1. /\ job.rid \in Rid /\ hs[job.rid] = "none" /\ job # NoJob
      /\ job.rid = sent - Len(queue) /\ job.m = "open"
      /\ wh = 0 /\ wr = 0
      /\ (wt = 0 /\ ts[job.rid] = "none") \/ (wt = job.rid /\ ts[job.rid] = "up")
  BY AnswerData DEF IInv, JobInv, Fresh, LocalsInv
<1>2. CASE /\ Goto("store") /\ wh' = job.rid /\ hs' = [hs EXCEPT ![job.rid] = "live"]
           /\ UNCHANGED <<outbox, wr, wt, wst, ts>>
  <2> USE <1>1, <1>2 DEF Goto
  <2>1. hs'[job.rid] = "live" /\ \A h \in Rid : h # job.rid => hs'[h] = hs[h]
    BY DEF IInv, TypeOK, EngType
  <2>2. WorkerType' /\ PipeType' /\ MgrType' /\ EngType'
    BY DEF IInv, TypeOK, WorkerType, MgrType, EngType, PipeType, WorkerPcs, Ref, Rid
  <2>3. JobInv' /\ Fresh'
    BY <2>1 DEF IInv, JobInv, Fresh, OnConn, Rid
  <2>4. LocalsInv' /\ SlotsInv'
    BY <2>1, SlotsWhole DEF IInv, LocalsInv, SlotsInv, OnConn, Alive, TxInv
  <2>5. NoDangling' /\ NoSharing'
    BY <2>1, SlotsWhole DEF IInv, OwnershipInv, NoDangling, NoSharing, Closing, Alive, Rid
  <2>6. NoLeak' /\ ReleaseOrder'
    BY <2>1 DEF IInv, OwnershipInv, NoLeak, ReleaseOrder, Alive
  <2>7. TxInv'
    BY <2>1 DEF IInv, TxInv, TxFlagCoversEngine, Closing, Alive
  <2>8. CancelReachesRunningQuery'
    BY CancelFrame DEF IInv
  <2>9. QED
    BY <2>2, <2>3, <2>4, <2>5, <2>6, <2>7, <2>8 DEF CoreInv, OwnershipInv
<1>3. CASE /\ \E code \in {"conn", "other"} : Answer(code, 0, 0)
           /\ hs' \in {hs, Disconnect(job.rid)} /\ ts' = CloseTunnel(wt)
  <2> USE <1>1, <1>3
  <2>1. PICK code \in {"conn", "other"} : Answer(code, 0, 0)
    OBVIOUS
  <2>2. /\ ts' \in [Rid -> {"none", "up", "closed"}] /\ ts'[job.rid] \in {"none", "closed"}
        /\ \A t \in Rid : t # job.rid => ts'[t] = ts[t]
    BY DEF IInv, TypeOK, EngType, CloseTunnel, Rid
  <2>3. /\ hs' \in [Rid -> {"none", "live", "dead", "freed"}] /\ hs'[job.rid] \in {"none", "freed"}
        /\ \A h \in Rid : h # job.rid => hs'[h] = hs[h]
    BY DEF IInv, TypeOK, EngType, Disconnect
  <2>4. /\ wpc' = "idle" /\ job' = NoJob /\ wh' = 0 /\ wr' = 0 /\ wt' = 0
        /\ WorkerType' /\ JobInv'
    BY <2>1, AnswerState DEF IInv
  <2>5. PipeType' /\ MgrType' /\ EngType'
    BY <2>1, <2>2, <2>3, AnswerData, AnswerType DEF IInv, TypeOK, PipeType, MgrType, EngType
  <2>6. \A i \in Used : /\ slots[i].handle # job.rid /\ slots[i].tunnel # job.rid
                       /\ slots[i].handle \in Rid
    BY SlotsWhole DEF IInv, SlotsInv, Alive, Rid
  <2>7. Fresh' /\ LocalsInv' /\ SlotsInv'
    BY <2>2, <2>3, <2>4, <2>6, SlotsWhole DEF IInv, Fresh, LocalsInv, SlotsInv, OnConn, Rid
  <2>8. NoDangling' /\ NoSharing'
    BY <2>2, <2>3, <2>4, <2>6, SlotsWhole DEF IInv, OwnershipInv, NoDangling, NoSharing, Closing,
           Rid
  <2>9. TxInv'
    BY <2>3, <2>4, <2>6, SlotsWhole DEF IInv, Closing, TxInv, TxFlagCoversEngine, Alive
  <2>10. NoLeak'
    BY <2>2, <2>3, <2>4 DEF IInv, OwnershipInv, NoLeak, Alive, Rid
  <2>11. ReleaseOrder'
    <3>1. hs[job.rid] \notin Alive /\ hs'[job.rid] \notin Alive
      BY <2>3 DEF Alive
    <3>2. \A r \in Rid : rs[r] = "open" => resOf[r] \in Rid /\ hs[resOf[r]] \in Alive
      BY DEF IInv, OwnershipInv, ReleaseOrder, TypeOK, EngType, Ref, Rid
    <3>3. QED
      BY <2>2, <2>3, <3>1, <3>2 DEF IInv, OwnershipInv, ReleaseOrder, Rid
  <2>12. CancelReachesRunningQuery'
    BY <2>1, CancelFrame DEF IInv
  <2>13. QED
    BY <2>4, <2>5, <2>7, <2>8, <2>9, <2>10, <2>11, <2>12 DEF CoreInv, OwnershipInv
<1>4. QED
  BY <1>2, <1>3

(* acquire_slot fills a slot nobody used and leaves the others as they are. *)
LEMMA StoreShape ==
  ASSUME MgrType, NEW s \in Slot, s.id # 0, Store(s)
  PROVE  /\ cap' \in Nat /\ slots' \in [1..cap' -> Slot]
         /\ \E n \in 1..cap' : /\ n \notin Used /\ slots'[n] = s
                               /\ Used' = Used \cup {n}
                               /\ \A i \in Used : i \in 1..cap' /\ slots'[i] = slots[i]
<1> USE DEF MgrType, Used
<1>1. CASE ~Full
  <2>1. PICK n \in 1..cap \ Used : slots' = [slots EXCEPT ![n] = s] /\ cap' = cap
    BY <1>1 DEF Store
  <2>2. slots' \in [1..cap' -> Slot]
    BY <2>1
  <2>3. slots'[n] = s /\ \A i \in 1..cap : i # n => slots'[i] = slots[i]
    BY <2>1
  <2>4. Used' = Used \cup {n}
    BY <2>1, <2>3
  <2>5. QED
    BY <2>1, <2>2, <2>3, <2>4
<1>2. CASE Full
  <2>1. /\ cap' = GrownCap /\ cap' \in Nat /\ cap + 1 \in 1..cap'
        /\ 1..cap \subseteq 1..cap'
    BY <1>2, ConstantsAssumption DEF Store, GrownCap
  <2>2. FreeSlot \in Slot
    BY ConstantsAssumption DEF FreeSlot, Slot, Ref
  <2>3. Bigger \in [1..cap' -> Slot]
    BY <2>1, <2>2 DEF Bigger
  <2>4. slots' = [Bigger EXCEPT ![cap + 1] = s]
    BY <1>2 DEF Store
  <2>5. slots' \in [1..cap' -> Slot]
    BY <2>3, <2>4
  <2>6. /\ slots'[cap + 1] = s
        /\ \A i \in 1..cap : slots'[i] = slots[i]
        /\ \A i \in 1..cap' : i \notin 1..(cap + 1) => slots'[i] = FreeSlot
    BY <2>1, <2>3, <2>4 DEF Bigger
  <2>7. Used = 1..cap /\ cap + 1 \notin Used
    BY <1>2 DEF Full
  <2>8. \A i \in 1..cap' : slots'[i].id # 0 <=> i \in 1..(cap + 1)
    BY <2>6, <2>7 DEF FreeSlot
  <2>9. Used' = Used \cup {cap + 1}
    BY <2>1, <2>7, <2>8
  <2>10. QED
    BY <2>1, <2>5, <2>6, <2>7, <2>9
<1>3. QED
  BY <1>1, <1>2

(* OpenStore hands session and tunnel to a slot nobody used, with a new id. *)
LEMMA OpenStoreStep ==
  ASSUME IInv, OpenStore PROVE CoreInv' /\ PipeType' /\ CancelReachesRunningQuery'
<1> USE DEF OpenStore, uiVars, engVars
<1> DEFINE s == [id |-> nextId, handle |-> wh, tunnel |-> wt, cursor |-> 0, inTx |-> FALSE]
<1>1. /\ job.rid \in Rid /\ job # NoJob /\ job.m = "open"
      /\ wh = job.rid /\ wr = 0 /\ engTx[wh] = "none" /\ hs[wh] \in Alive
      /\ (wt = 0 /\ ts[job.rid] = "none") \/ (wt = job.rid /\ ts[job.rid] = "up")
  BY AnswerData DEF IInv, JobInv, LocalsInv, OwnershipInv, NoDangling
<1>2. nextId \in Nat \ {0} /\ s \in Slot
  BY <1>1, AnswerData DEF IInv, TypeOK, MgrType, Slot, Ref, Rid
<1>3. /\ cap' \in Nat /\ slots' \in [1..cap' -> Slot]
      /\ \E n \in 1..cap' : /\ n \notin Used /\ slots'[n] = s
                            /\ Used' = Used \cup {n}
                            /\ \A i \in Used : i \in 1..cap' /\ slots'[i] = slots[i]
  <2> HIDE DEF s
  <2>1. MgrType /\ s.id # 0 /\ Store(s)
    BY <1>2 DEF IInv, TypeOK, s
  <2>2. QED
    BY <2>1, <1>2, StoreShape
<1>4. PICK n \in 1..cap' : /\ n \notin Used /\ slots'[n] = s
                           /\ Used' = Used \cup {n}
                           /\ \A i \in Used : i \in 1..cap' /\ slots'[i] = slots[i]
  BY <1>3
<1>5. /\ wpc' = "idle" /\ job' = NoJob /\ wh' = 0 /\ wr' = 0 /\ wt' = 0
      /\ WorkerType' /\ JobInv'
  BY AnswerState DEF IInv
<1>6. PipeType' /\ MgrType' /\ EngType'
  BY <1>2, <1>3, AnswerData, AnswerType DEF IInv, TypeOK, PipeType, MgrType, EngType
<1>7. \A i \in Used : slots[i].handle # wh /\ slots[i].tunnel # wh
  BY <1>1, SlotsWhole DEF IInv, OwnershipInv, NoSharing, SlotsInv, Rid
<1>8. \A i \in Used : slots[i].id < nextId /\ slots[i].id \in Nat
  BY <1>2, SlotsWhole DEF IInv, SlotsInv, OwnershipInv, Slot
<1>9. Fresh' /\ LocalsInv'
  BY <1>5 DEF IInv, Fresh, LocalsInv, OnConn
<1>10. SlotsInv'
  BY <1>1, <1>2, <1>4, <1>8 DEF IInv, SlotsInv
<1>11. NoDangling'
  BY <1>1, <1>4, <1>5, SlotsWhole DEF IInv, OwnershipInv, NoDangling, Closing, Rid
<1>12. NoSharing'
  BY <1>1, <1>4, <1>5, <1>7, <1>8, SlotsWhole DEF IInv, OwnershipInv, NoSharing, Rid
<1>13. NoLeak'
  BY <1>1, <1>4, <1>5 DEF IInv, OwnershipInv, NoLeak
<1>14. ReleaseOrder'
  BY DEF IInv, OwnershipInv, ReleaseOrder
<1>15. TxInv'
  BY <1>1, <1>4, <1>5 DEF IInv, TxInv, TxFlagCoversEngine, Closing
<1>16. CancelReachesRunningQuery'
  BY CancelFrame DEF IInv
<1>17. QED
  BY <1>5, <1>6, <1>9, <1>10, <1>11, <1>12, <1>13, <1>14, <1>15, <1>16
  DEF CoreInv, OwnershipInv

(* OpenNoMemory takes down the session and the tunnel no slot holds.        *)
LEMMA OpenNoMemoryStep ==
  ASSUME IInv, OpenNoMemory PROVE CoreInv' /\ PipeType' /\ CancelReachesRunningQuery'
<1> USE DEF OpenNoMemory, mgrVars, Used, Mine, LiveIds, uiVars
<1>1. /\ job.rid \in Rid /\ job # NoJob /\ job.m = "open"
      /\ wh = job.rid /\ wr = 0
      /\ (wt = 0 /\ ts[job.rid] = "none") \/ (wt = job.rid /\ ts[job.rid] = "up")
  BY AnswerData DEF IInv, JobInv, LocalsInv
<1>2. /\ hs'[wh] = "freed" /\ \A h \in Rid : h # wh => hs'[h] = hs[h] /\ engTx'[h] = engTx[h]
      /\ engTx'[wh] = "none"
      /\ ts'[wh] \in {"none", "closed"} /\ \A t \in Rid : t # wh => ts'[t] = ts[t]
  BY <1>1 DEF IInv, TypeOK, EngType, Disconnect, CloseTunnel, Rid
<1>3. EngType'
  BY <1>1 DEF IInv, TypeOK, EngType, Disconnect, CloseTunnel
<1>4. /\ wpc' = "idle" /\ job' = NoJob /\ wh' = 0 /\ wr' = 0 /\ wt' = 0
      /\ WorkerType' /\ JobInv'
  BY AnswerState DEF IInv
<1>5. PipeType' /\ MgrType'
  BY AnswerData, AnswerType DEF IInv, TypeOK, PipeType, MgrType
<1>6. \A i \in Used : slots[i].handle # wh /\ slots[i].tunnel # wh
  BY <1>1, SlotsWhole DEF IInv, OwnershipInv, NoSharing, SlotsInv, Rid
<1>7. \A r \in Rid : rs[r] = "open" => resOf[r] # wh /\ resOf[r] \in Rid
  BY <1>1, <1>6, SlotsWhole DEF IInv, OwnershipInv, NoLeak, NoDangling, Rid
<1>8. Fresh' /\ LocalsInv'
  BY <1>1, <1>2, <1>4 DEF IInv, Fresh, LocalsInv, OnConn, JobInv, Rid
<1>9. SlotsInv'
  BY <1>2, <1>6, SlotsWhole DEF IInv, SlotsInv
<1>10. NoDangling' /\ NoSharing'
  BY <1>1, <1>2, <1>4, <1>6, SlotsWhole DEF IInv, OwnershipInv, NoDangling, NoSharing, Closing, Alive
<1>11. NoLeak' /\ ReleaseOrder'
  BY <1>1, <1>2, <1>4, <1>6, <1>7 DEF IInv, OwnershipInv, NoLeak, ReleaseOrder, Alive
<1>12. TxInv'
  BY <1>1, <1>2, <1>4, <1>6, SlotsWhole DEF IInv, TxInv, TxFlagCoversEngine, Closing, Alive
<1>13. CancelReachesRunningQuery'
  BY CancelFrame DEF IInv
<1>14. QED
  BY <1>3, <1>4, <1>5, <1>8, <1>9, <1>10, <1>11, <1>12, <1>13 DEF CoreInv, OwnershipInv

----------------------------------------------------------------------------
(* Statements, cursors and closing: requests on an open connection.         *)

(* The connection a request on the worker's table names.                    *)
LEMMA MySlotData ==
  ASSUME IInv, wpc # "untunnel", job.conn \in LiveIds
  PROVE  \E k \in Used :
           /\ k = SlotOf(job.conn) /\ slots[k] = MySlot /\ slots[k].id = job.conn
           /\ Mine = {k} /\ slots[k] \in Slot
           /\ slots[k].handle \in Rid /\ hs[slots[k].handle] \in Alive
           /\ slots[k].cursor # 0 => slots[k].cursor \in Rid /\ rs[slots[k].cursor] = "open"
                                     /\ resOf[slots[k].cursor] = slots[k].handle
<1>1. SlotOf(job.conn) \in Used /\ slots[SlotOf(job.conn)].id = job.conn
      /\ Mine = {SlotOf(job.conn)}
  BY SlotFound DEF IInv, OwnershipInv
<1>2. QED
  BY <1>1, SlotsWhole DEF MySlot, IInv, OwnershipInv, NoDangling

(* Setting the cursor of one slot touches nothing else in the manager.      *)
LEMMA CursorUpdate ==
  ASSUME MgrType, NEW k \in Used, NEW c \in Ref,
         slots' = [slots EXCEPT ![k].cursor = c], UNCHANGED <<cap, nextId>>
  PROVE  /\ MgrType' /\ Used' = Used /\ LiveIds' = LiveIds
         /\ slots'[k].cursor = c
         /\ \A i \in Used : /\ slots'[i].id = slots[i].id /\ slots'[i].handle = slots[i].handle
                            /\ slots'[i].tunnel = slots[i].tunnel
                            /\ slots'[i].inTx = slots[i].inTx
                            /\ i # k => slots'[i] = slots[i]
<1> USE DEF MgrType, Used
<1>1. slots'[k] = [slots[k] EXCEPT !.cursor = c] /\ slots[k] \in Slot
  BY DEF MgrType
<1>2. \A i \in 1..cap : i # k => slots'[i] = slots[i]
  OBVIOUS
<1>3. [slots[k] EXCEPT !.cursor = c] \in Slot
  BY <1>1 DEF Slot
<1>4. MgrType'
  BY <1>3 DEF MgrType
<1>5. \A i \in 1..cap : /\ slots'[i].id = slots[i].id /\ slots'[i].handle = slots[i].handle
                        /\ slots'[i].tunnel = slots[i].tunnel
                        /\ slots'[i].inTx = slots[i].inTx
  BY <1>1, <1>2 DEF Slot
<1>6. Used' = Used
  BY <1>5
<1>7. LiveIds' = LiveIds
  BY <1>5, <1>6 DEF LiveIds
<1>8. slots'[k].cursor = c
  BY <1>1 DEF Slot
<1>9. QED
  BY <1>2, <1>4, <1>5, <1>6, <1>7, <1>8

(* A cursor that is freed and forgotten leaves every owner with its own.    *)
LEMMA DropCursor ==
  ASSUME IInv, wpc = "dispatch", job.conn \in LiveIds, job \in Request,
         rs' = FreeResult(MySlot.cursor), ClearCursor,
         UNCHANGED <<sent, queue, cap, nextId, hs, resOf, ts, engTx>>,
         wr' = 0, wpc' \notin {"store", "untunnel"}
  PROVE  /\ MgrType' /\ EngType' /\ SlotsInv'
         /\ NoSharing' /\ NoLeak' /\ ReleaseOrder' /\ TxFlagCoversEngine'
         /\ Used' = Used /\ LiveIds' = LiveIds
         /\ \A i \in Used : /\ slots'[i].id = slots[i].id
                            /\ slots'[i].handle = slots[i].handle
                            /\ slots'[i].tunnel = slots[i].tunnel
         /\ \A i \in Mine : slots'[i].cursor = 0
         /\ \A i \in Used :
              /\ slots'[i].handle # 0 /\ hs'[slots'[i].handle] \in Alive
              /\ slots'[i].tunnel # 0 => ts'[slots'[i].tunnel] = "up"
              /\ slots'[i].cursor # 0 => /\ rs'[slots'[i].cursor] = "open"
                                         /\ resOf'[slots'[i].cursor] = slots'[i].handle
         /\ \A r \in Rid : rs[r] = "none" <=> rs'[r] = "none"
<1>1. PICK k \in Used :
           /\ k = SlotOf(job.conn) /\ slots[k] = MySlot /\ slots[k].id = job.conn
           /\ Mine = {k} /\ slots[k] \in Slot
           /\ slots[k].handle \in Rid /\ hs[slots[k].handle] \in Alive
           /\ slots[k].cursor # 0 => slots[k].cursor \in Rid /\ rs[slots[k].cursor] = "open"
                                     /\ resOf[slots[k].cursor] = slots[k].handle
  BY MySlotData
<1>2. wr = 0 /\ wt = 0
  BY DEF IInv, LocalsInv
<1>3. /\ MgrType' /\ Used' = Used /\ LiveIds' = LiveIds
      /\ slots'[k].cursor = 0
      /\ \A i \in Used : /\ slots'[i].id = slots[i].id /\ slots'[i].handle = slots[i].handle
                         /\ slots'[i].tunnel = slots[i].tunnel
                         /\ slots'[i].inTx = slots[i].inTx
                         /\ i # k => slots'[i] = slots[i]
  BY <1>1, CursorUpdate, AnswerData DEF ClearCursor, IInv, TypeOK
<1>4. /\ EngType'
      /\ \A r \in Rid : r # slots[k].cursor => rs'[r] = rs[r]
      /\ slots[k].cursor # 0 => rs'[slots[k].cursor] = "freed"
  BY <1>1 DEF IInv, TypeOK, EngType, FreeResult, Rid
<1>5. \A i \in Used : i # k /\ slots[i].cursor # 0 => slots[i].cursor # slots[k].cursor
  BY DEF IInv, OwnershipInv, NoSharing
<1>6. SlotsInv'
  BY <1>3 DEF IInv, SlotsInv
<1>7. NoSharing'
  BY <1>3 DEF IInv, OwnershipInv, NoSharing
<1>8. NoLeak'
  BY <1>2, <1>3, <1>4 DEF IInv, OwnershipInv, NoLeak, Rid
<1>9. ReleaseOrder'
  BY <1>4 DEF IInv, OwnershipInv, ReleaseOrder, Rid
<1>10. TxFlagCoversEngine'
  BY <1>3 DEF IInv, TxInv, TxFlagCoversEngine, Closing
<1>11. \A i \in Used :
              /\ slots'[i].handle # 0 /\ hs'[slots'[i].handle] \in Alive
              /\ slots'[i].tunnel # 0 => ts'[slots'[i].tunnel] = "up"
              /\ slots'[i].cursor # 0 => /\ rs'[slots'[i].cursor] = "open"
                                         /\ resOf'[slots'[i].cursor] = slots'[i].handle
  BY <1>3, <1>4, <1>5, SlotsWhole DEF IInv, OwnershipInv, NoDangling, Closing
<1>12. \A r \in Rid : rs[r] = "none" <=> rs'[r] = "none"
  BY <1>1, <1>4 DEF Rid
<1>13. QED
  BY <1>1, <1>3, <1>4, <1>6, <1>7, <1>8, <1>9, <1>10, <1>11, <1>12

(* A method that only looks its connection up and goes on to a driver call. *)
LEMMA EnterCall ==
  ASSUME IInv, wpc = "dispatch", job.conn \in LiveIds, job.m # "open",
         wpc' \in {"begin", "txcall", "call"},
         wpc' = "begin" => job.m = "run",
         wpc' = "txcall" => job.m \in TxMethods /\ (job.m = "begin" => ~MySlot.inTx),
         wh' = MySlot.handle,
         UNCHANGED <<uiVars, queue, stop, outbox, ops, job, txBefore, wr, wt, wst, mgrVars, engVars>>
  PROVE  CoreInv' /\ PipeType' /\ CancelReachesRunningQuery'
<1> USE DEF mgrVars, engVars, Used, Mine, LiveIds, uiVars
<1>1. PICK k \in Used :
           /\ k = SlotOf(job.conn) /\ slots[k] = MySlot /\ slots[k].id = job.conn
           /\ Mine = {k} /\ slots[k] \in Slot
           /\ slots[k].handle \in Rid /\ hs[slots[k].handle] \in Alive
           /\ slots[k].cursor # 0 => slots[k].cursor \in Rid /\ rs[slots[k].cursor] = "open"
                                     /\ resOf[slots[k].cursor] = slots[k].handle
  BY MySlotData
<1>2. wr = 0 /\ wt = 0
  BY DEF IInv, LocalsInv
<1>3. WorkerType' /\ PipeType' /\ MgrType' /\ EngType'
  BY <1>1 DEF IInv, TypeOK, WorkerType, MgrType, EngType, PipeType, WorkerPcs, Ref, Rid
<1>4. JobInv' /\ Fresh'
  BY DEF IInv, JobInv, Fresh, OnConn
<1>5. LocalsInv' /\ SlotsInv'
  BY <1>1, <1>2 DEF IInv, LocalsInv, SlotsInv, OnConn
<1>6. OwnershipInv'
  BY <1>1, <1>2 DEF IInv, OwnershipInv, NoDangling, NoSharing, NoLeak, ReleaseOrder, Closing, Rid
<1>7. TxInv'
  BY <1>1 DEF IInv, TxInv, TxFlagCoversEngine, Closing
<1>8. CancelReachesRunningQuery'
  BY CancelFrame DEF IInv
<1>9. QED
  BY <1>3, <1>4, <1>5, <1>6, <1>7, <1>8 DEF CoreInv

(* CallStart (schema and row methods) borrows the handle of the slot.       *)
LEMMA CallStartStep ==
  ASSUME IInv, CallStart PROVE CoreInv' /\ PipeType' /\ CancelReachesRunningQuery'
BY EnterCall DEF CallStart, Dispatching, Goto

(* TxStart refuses a second begin before it reaches the driver.             *)
LEMMA TxStartStep ==
  ASSUME IInv, TxStart PROVE CoreInv' /\ PipeType' /\ CancelReachesRunningQuery'
<1>1. CASE BeginRefused
  BY <1>1, AnswerData, AnswerFrame DEF TxStart
<1>2. CASE ~BeginRefused
  BY <1>2, EnterCall DEF TxStart, BeginRefused, Goto, TxMethods
<1>3. QED
  BY <1>1, <1>2

(* CallReturn gives the handle back.                                        *)
LEMMA CallReturnStep ==
  ASSUME IInv, CallReturn PROVE CoreInv' /\ PipeType' /\ CancelReachesRunningQuery'
<1>1. PICK st \in {"ok", "conn", "query", "other"} : Answer(st, job.conn, wh)
  BY DEF CallReturn
<1>2. QED
  BY <1>1, AnswerData, AnswerFrame DEF CallReturn

(* RunStart frees the cursor of the connection before a cursor run.         *)
LEMMA RunStartStep ==
  ASSUME IInv, RunStart PROVE CoreInv' /\ PipeType' /\ CancelReachesRunningQuery'
<1> USE DEF RunStart, Dispatching
<1>1. CASE ~job.opt
  BY <1>1, EnterCall DEF Goto, mgrVars, engVars
<1>2. CASE job.opt
  <2>1. job \in Request /\ wpc' = "begin" /\ UNCHANGED <<job, txBefore>> /\ wr = 0 /\ wt = 0
    BY AnswerData DEF Goto, IInv, LocalsInv
  <2>2. /\ rs' = FreeResult(MySlot.cursor) /\ ClearCursor
        /\ UNCHANGED <<sent, queue, cap, nextId, hs, resOf, ts, engTx>>
        /\ wr' = 0 /\ wpc' \notin {"store", "untunnel"}
    BY <1>2, <2>1 DEF uiVars
  <2>3. PICK k \in Used : slots[k] = MySlot /\ Mine = {k} /\ slots[k].handle \in Rid
    BY MySlotData
  <2>4. /\ MgrType' /\ EngType' /\ SlotsInv'
        /\ NoSharing' /\ NoLeak' /\ ReleaseOrder' /\ TxFlagCoversEngine'
        /\ Used' = Used /\ LiveIds' = LiveIds
        /\ \A i \in Used : slots'[i].id = slots[i].id /\ slots'[i].handle = slots[i].handle
    BY <2>1, <2>2, DropCursor
  <2>5. /\ \A i \in Used :
              /\ slots'[i].handle # 0 /\ hs'[slots'[i].handle] \in Alive
              /\ slots'[i].tunnel # 0 => ts'[slots'[i].tunnel] = "up"
              /\ slots'[i].cursor # 0 => /\ rs'[slots'[i].cursor] = "open"
                                         /\ resOf'[slots'[i].cursor] = slots'[i].handle
        /\ \A r \in Rid : rs[r] = "none" <=> rs'[r] = "none"
    BY <2>1, <2>2, DropCursor
  <2>6. Mine' = Mine /\ wh' = slots[k].handle
    BY <2>1, <2>3, <2>4 DEF Mine
  <2>7. WorkerType' /\ PipeType'
    BY <2>1, <2>3, <2>6 DEF IInv, TypeOK, WorkerType, PipeType, WorkerPcs, Ref, Rid, uiVars
  <2>8. JobInv'
    BY <2>1, <2>2, <2>4 DEF IInv, JobInv, OnConn
  <2>9. Fresh'
    BY <2>1, <2>2, <2>5, AnswerData DEF IInv, Fresh
  <2>10. LocalsInv'
    BY <2>1, <2>3, <2>4, <2>6 DEF IInv, LocalsInv, OnConn
  <2>11. NoDangling'
    BY <2>1, <2>2, <2>3, <2>4, <2>5, <2>6 DEF NoDangling, Rid
  <2>12. TxInv'
    BY <2>1, <2>2, <2>4 DEF IInv, TxInv
  <2>13. CancelReachesRunningQuery'
    BY CancelFrame DEF IInv, uiVars
  <2>14. QED
    BY <2>4, <2>7, <2>8, <2>9, <2>10, <2>11, <2>12, <2>13 DEF CoreInv, OwnershipInv
<1>3. QED
  BY <1>1, <1>2

(* CursorClose frees the cursor and forgets it.                             *)
LEMMA CursorCloseStep ==
  ASSUME IInv, CursorClose PROVE CoreInv' /\ PipeType' /\ CancelReachesRunningQuery'
<1> USE DEF CursorClose, Dispatching
<1>1. job \in Request /\ Answer("ok", job.conn, 0) /\ UNCHANGED <<sent, queue>>
  BY AnswerData DEF uiVars
<1>2. /\ wpc' = "idle" /\ job' = NoJob /\ wh' = 0 /\ wr' = 0 /\ wt' = 0
      /\ WorkerType' /\ JobInv'
  BY <1>1, AnswerState DEF IInv
<1>3. /\ MgrType' /\ EngType' /\ SlotsInv'
      /\ NoSharing' /\ NoLeak' /\ ReleaseOrder' /\ TxFlagCoversEngine'
      /\ Used' = Used
      /\ \A i \in Used :
              /\ slots'[i].handle # 0 /\ hs'[slots'[i].handle] \in Alive
              /\ slots'[i].tunnel # 0 => ts'[slots'[i].tunnel] = "up"
              /\ slots'[i].cursor # 0 => /\ rs'[slots'[i].cursor] = "open"
                                         /\ resOf'[slots'[i].cursor] = slots'[i].handle
      /\ \A r \in Rid : rs[r] = "none" <=> rs'[r] = "none"
  BY <1>1, <1>2, DropCursor
<1>4. PipeType'
  BY <1>1, AnswerData, AnswerType DEF IInv, TypeOK, PipeType
<1>5. Fresh' /\ LocalsInv'
  BY <1>1, <1>2, <1>3 DEF IInv, Fresh, LocalsInv, OnConn
<1>6. NoDangling' /\ TxInv'
  BY <1>2, <1>3 DEF IInv, NoDangling, TxInv
<1>7. CancelReachesRunningQuery'
  BY CancelFrame DEF IInv, uiVars
<1>8. QED
  BY <1>2, <1>3, <1>4, <1>5, <1>6, <1>7 DEF CoreInv, OwnershipInv

(* CloseStart frees the cursor; session and tunnel are still whole.         *)
LEMMA CloseStartStep ==
  ASSUME IInv, CloseStart PROVE CoreInv' /\ PipeType' /\ CancelReachesRunningQuery'
<1> USE DEF CloseStart, Dispatching
<1>1. /\ job \in Request /\ wpc' = "disconnect" /\ UNCHANGED <<job, txBefore, sent, queue>>
      /\ wr = 0 /\ wr' = 0 /\ wt = 0
  BY AnswerData DEF Goto, uiVars, IInv, LocalsInv
<1>2. PICK k \in Used : /\ slots[k] = MySlot /\ Mine = {k} /\ slots[k].handle \in Rid
                        /\ slots[k] \in Slot
  BY MySlotData
<1>3. /\ MgrType' /\ EngType' /\ SlotsInv'
      /\ NoSharing' /\ NoLeak' /\ ReleaseOrder' /\ TxFlagCoversEngine'
      /\ Used' = Used /\ LiveIds' = LiveIds
      /\ \A i \in Used : /\ slots'[i].id = slots[i].id
                         /\ slots'[i].handle = slots[i].handle
                         /\ slots'[i].tunnel = slots[i].tunnel
      /\ \A i \in Mine : slots'[i].cursor = 0
  BY <1>1, DropCursor
<1>4. /\ \A i \in Used :
              /\ slots'[i].handle # 0 /\ hs'[slots'[i].handle] \in Alive
              /\ slots'[i].tunnel # 0 => ts'[slots'[i].tunnel] = "up"
              /\ slots'[i].cursor # 0 => /\ rs'[slots'[i].cursor] = "open"
                                         /\ resOf'[slots'[i].cursor] = slots'[i].handle
      /\ \A r \in Rid : rs[r] = "none" <=> rs'[r] = "none"
  BY <1>1, DropCursor
<1>5. Mine' = Mine /\ wh' = slots[k].handle /\ wt' = slots[k].tunnel
  BY <1>1, <1>2, <1>3 DEF Mine
<1>6. WorkerType' /\ PipeType'
  BY <1>1, <1>2, <1>5 DEF IInv, TypeOK, WorkerType, PipeType, WorkerPcs, Ref, Rid, uiVars, Slot
<1>7. JobInv' /\ Fresh'
  BY <1>1, <1>3, <1>4 DEF IInv, JobInv, OnConn, Fresh
<1>8. LocalsInv'
  BY <1>1, <1>2, <1>3, <1>5 DEF IInv, LocalsInv, OnConn
<1>9. NoDangling'
  BY <1>1, <1>2, <1>3, <1>4, <1>5 DEF NoDangling, Rid
<1>10. TxInv'
  BY <1>1, <1>3 DEF IInv, TxInv
<1>11. CancelReachesRunningQuery'
  BY CancelFrame DEF IInv, uiVars
<1>12. QED
  BY <1>3, <1>6, <1>7, <1>8, <1>9, <1>10, <1>11 DEF CoreInv, OwnershipInv

(* The connection the worker is in the middle of using.                     *)
LEMMA OnConnData ==
  ASSUME IInv, wpc \in OnConn
  PROVE  \E k \in Used :
           /\ k = SlotOf(job.conn) /\ slots[k] = MySlot /\ slots[k].id = job.conn
           /\ Mine = {k} /\ slots[k] \in Slot
           /\ wh = slots[k].handle /\ wh \in Rid /\ wh # 0
           /\ job \in Request /\ job.conn \in Nat /\ job.rid \in Rid /\ job.rid # 0
           /\ wpc # "untunnel" => hs[wh] \in Alive
           /\ \A i \in Used : i # k => slots[i].handle # wh /\ slots[i].id # job.conn
<1>1. job.conn \in LiveIds
  BY DEF IInv, JobInv
<1>2. SlotOf(job.conn) \in Used /\ slots[SlotOf(job.conn)].id = job.conn
      /\ Mine = {SlotOf(job.conn)}
  BY <1>1, SlotFound DEF IInv, OwnershipInv
<1>3. PICK k \in Used : k = SlotOf(job.conn) /\ slots[k].id = job.conn /\ Mine = {k}
  BY <1>2
<1>4. wh = slots[k].handle /\ slots[k] \in Slot /\ wh # 0
  BY <1>3 DEF IInv, LocalsInv, OwnershipInv, NoDangling, TypeOK, MgrType, Used
<1>5. wh \in Rid
  BY <1>4 DEF Slot, Ref, Rid
<1>6. wpc # "untunnel" => hs[wh] \in Alive
  BY <1>3, <1>4 DEF IInv, OwnershipInv, NoDangling, Closing
<1>7. job \in Request /\ job.conn \in Nat /\ job.rid \in Rid /\ job.rid # 0
  BY AnswerData DEF OnConn, Rid
<1>8. \A i \in Used : i # k => slots[i].handle # wh /\ slots[i].id # job.conn
  BY <1>3, <1>4 DEF IInv, OwnershipInv, NoSharing
<1>9. QED
  BY <1>3, <1>4, <1>5, <1>6, <1>7, <1>8 DEF MySlot

(* CloseDisconnect ends a session no result and no other slot refers to.    *)
LEMMA CloseDisconnectStep ==
  ASSUME IInv, CloseDisconnect PROVE CoreInv' /\ PipeType' /\ CancelReachesRunningQuery'
<1> USE DEF CloseDisconnect, Goto, mgrVars, uiVars, Used, Mine, LiveIds
<1>1. PICK k \in Used : /\ slots[k].id = job.conn /\ Mine = {k} /\ slots[k] \in Slot
                        /\ wh = slots[k].handle /\ wh \in Rid /\ wh # 0
                        /\ \A i \in Used : i # k => slots[i].handle # wh /\ slots[i].id # job.conn
  BY OnConnData DEF OnConn
<1>2. /\ hs'[wh] = "freed" /\ engTx'[wh] = "none"
      /\ \A h \in Rid : h # wh => hs'[h] = hs[h] /\ engTx'[h] = engTx[h]
  BY <1>1 DEF IInv, TypeOK, EngType, Disconnect
<1>3. WorkerType' /\ PipeType' /\ MgrType' /\ EngType'
  BY <1>1 DEF IInv, TypeOK, WorkerType, MgrType, EngType, PipeType, WorkerPcs, Disconnect
<1>4. JobInv'
  BY DEF IInv, JobInv, OnConn
<1>5. hs[wh] \in Alive /\ wr = 0 /\ slots[k].cursor = 0
  BY <1>1 DEF IInv, OwnershipInv, NoDangling, LocalsInv
<1>6. Fresh'
  BY <1>1, <1>2, <1>5 DEF IInv, Fresh, Alive
<1>7. LocalsInv' /\ SlotsInv'
  BY <1>1, <1>2 DEF IInv, LocalsInv, SlotsInv, OnConn
<1>8. NoDangling' /\ NoSharing'
  BY <1>1, <1>2, <1>5, SlotsWhole DEF IInv, OwnershipInv, NoDangling, NoSharing, Closing
<1>9. NoLeak'
  BY <1>2 DEF IInv, OwnershipInv, NoLeak, Alive
<1>10. \A r \in Rid : rs[r] = "open" => resOf[r] # wh /\ resOf[r] \in Rid
  BY <1>1, <1>5, SlotsWhole DEF IInv, OwnershipInv, NoLeak, NoDangling, Rid
<1>11. ReleaseOrder'
  BY <1>2, <1>10 DEF IInv, OwnershipInv, ReleaseOrder, Alive
<1>12. TxInv'
  BY <1>1, <1>2, SlotsWhole DEF IInv, TxInv, TxFlagCoversEngine, Closing, Alive
<1>13. CancelReachesRunningQuery'
  BY CancelFrame DEF IInv
<1>14. QED
  BY <1>3, <1>4, <1>6, <1>7, <1>8, <1>9, <1>11, <1>12, <1>13 DEF CoreInv, OwnershipInv

(* CloseRelease closes the tunnel after its session and frees the slot.     *)
LEMMA CloseReleaseStep ==
  ASSUME IInv, CloseRelease PROVE CoreInv' /\ PipeType' /\ CancelReachesRunningQuery'
<1> USE DEF CloseRelease, mgrVars, uiVars, engVars
<1>1. PICK k \in Used : /\ k = SlotOf(job.conn) /\ slots[k].id = job.conn /\ Mine = {k}
                        /\ slots[k] \in Slot /\ wh = slots[k].handle /\ wh \in Rid
                        /\ \A i \in Used : i # k => slots[i].handle # wh /\ slots[i].id # job.conn
  BY OnConnData DEF OnConn
<1>2. hs[wh] = "freed" /\ wr = 0 /\ wt = slots[k].tunnel /\ slots[k].cursor = 0
  BY <1>1 DEF IInv, LocalsInv
<1>3. /\ wpc' = "idle" /\ job' = NoJob /\ wh' = 0 /\ wr' = 0 /\ wt' = 0
      /\ WorkerType' /\ JobInv'
  BY AnswerState DEF IInv
<1>4. slots' = [slots EXCEPT ![k] = Released(slots[k])] /\ UNCHANGED <<cap, nextId>>
  BY <1>1
<1>5. k \in 1..cap /\ slots \in [1..cap -> Slot]
  BY <1>1 DEF Used, IInv, TypeOK, MgrType
<1>6. Released(slots[k]) \in Slot /\ Released(slots[k]).id = 0
  BY <1>1, ConstantsAssumption DEF Released, FreeSlot, Slot, Ref
<1>7. slots'[k].id = 0 /\ \A i \in 1..cap : i # k => slots'[i] = slots[i]
  BY <1>4, <1>5, <1>6
<1>8. Used' = Used \ {k}
  BY <1>4, <1>7 DEF Used
<1>9. MgrType'
  BY <1>4, <1>5, <1>6 DEF MgrType, IInv, TypeOK
<1>10. EngType' /\ (\A t \in Rid : t # wt => ts'[t] = ts[t]) /\ (wt # 0 => ts'[wt] = "closed")
  BY <1>1, <1>2 DEF IInv, TypeOK, EngType, CloseTunnel, Slot, Ref, Rid
<1>11. \A i \in Used' : i \in Used /\ i # k /\ slots'[i] = slots[i] /\ i \in 1..cap
  BY <1>7, <1>8 DEF Used
<1>12. \A i \in Used : i # k => hs[slots[i].handle] \in Alive /\ slots[i].tunnel # wh
  BY <1>1, SlotsWhole DEF IInv, OwnershipInv, NoDangling, Closing, SlotsInv
<1>13. wt = 0 \/ wt = wh
  BY <1>1, <1>2 DEF IInv, SlotsInv
<1>14. PipeType'
  BY AnswerData, AnswerType, <1>1, OnConnData DEF IInv, TypeOK, PipeType, OnConn
<1>15. Fresh'
  BY <1>2, <1>3, <1>10, <1>13 DEF IInv, Fresh, Rid
<1>16. LocalsInv'
  BY <1>3 DEF LocalsInv, OnConn
<1>17. \A i \in Used' : /\ slots[i].handle \in Rid /\ slots[i].handle # wt
                        /\ slots[i].tunnel # 0 => slots[i].tunnel \in Rid /\ slots[i].tunnel # wt
  <2>1. SUFFICES ASSUME NEW i \in Used, i # k
                 PROVE  /\ slots[i].handle \in Rid /\ slots[i].handle # wt
                        /\ slots[i].tunnel # 0 => slots[i].tunnel \in Rid /\ slots[i].tunnel # wt
    BY <1>11
  <2>2. slots[i] \in Slot /\ slots[i].handle # 0
    BY <1>5 DEF Used, IInv, OwnershipInv, NoDangling
  <2>3. slots[i].handle # wh /\ slots[i].tunnel # wh
    BY <1>1, <1>12, <2>1
  <2>4. QED
    BY <1>13, <2>2, <2>3 DEF Slot, Ref, Rid
<1>18. SlotsInv'
  BY <1>10, <1>11, <1>17 DEF IInv, SlotsInv
<1>19. NoDangling'
  BY <1>2, <1>3, <1>10, <1>11, <1>12, <1>17 DEF IInv, OwnershipInv, NoDangling
<1>20. NoSharing'
  BY <1>3, <1>11 DEF IInv, OwnershipInv, NoSharing
<1>21. NoLeak'
  BY <1>1, <1>2, <1>3, <1>7, <1>8, <1>10 DEF IInv, OwnershipInv, NoLeak, Alive, Rid, Used
<1>22. ReleaseOrder'
  BY <1>2, <1>10, <1>13 DEF IInv, OwnershipInv, ReleaseOrder, Alive, Rid
<1>23. TxInv'
  BY <1>1, <1>3, <1>11, <1>12 DEF IInv, TxInv, TxFlagCoversEngine, Closing
<1>24. CancelReachesRunningQuery'
  BY CancelFrame DEF IInv
<1>25. QED
  BY <1>3, <1>9, <1>10, <1>14, <1>15, <1>16, <1>18, <1>19, <1>20, <1>21, <1>22,
     <1>23, <1>24
  DEF CoreInv, OwnershipInv

(* NextStart moves the cursor from the slot to the worker.                  *)
LEMMA NextStartStep ==
  ASSUME IInv, NextStart PROVE CoreInv' /\ PipeType' /\ CancelReachesRunningQuery'
<1> USE DEF NextStart, Dispatching
<1>1. PICK k \in Used :
           /\ k = SlotOf(job.conn) /\ slots[k] = MySlot /\ slots[k].id = job.conn
           /\ Mine = {k} /\ slots[k] \in Slot
           /\ slots[k].handle \in Rid /\ hs[slots[k].handle] \in Alive
           /\ slots[k].cursor # 0 => slots[k].cursor \in Rid /\ rs[slots[k].cursor] = "open"
                                     /\ resOf[slots[k].cursor] = slots[k].handle
  BY MySlotData
<1>2. CASE MySlot.cursor = 0
  <2>1. Answer("notFound", job.conn, 0) /\ UNCHANGED slots
    BY <1>2
  <2>2. QED
    BY <2>1, AnswerData, AnswerFrame DEF mgrVars
<1>3. CASE MySlot.cursor # 0
  <2>1. /\ wr' = slots[k].cursor /\ wh' = slots[k].handle /\ ClearCursor
        /\ wpc' = "begin" /\ UNCHANGED <<job, txBefore, outbox, wt, wst>>
    BY <1>1, <1>3 DEF Goto
  <2>2. wr = 0 /\ wt = 0 /\ job \in Request
    BY AnswerData DEF IInv, LocalsInv
  <2>3. /\ MgrType' /\ Used' = Used /\ LiveIds' = LiveIds
        /\ slots'[k].cursor = 0
        /\ \A i \in Used : /\ slots'[i].id = slots[i].id /\ slots'[i].handle = slots[i].handle
                           /\ slots'[i].tunnel = slots[i].tunnel
                           /\ slots'[i].inTx = slots[i].inTx
                           /\ i # k => slots'[i] = slots[i]
    BY <1>1, <2>1, CursorUpdate, AnswerData DEF ClearCursor, IInv, TypeOK
  <2>4. Mine' = Mine
    BY <2>1, <2>3 DEF Mine
  <2>5. WorkerType' /\ PipeType' /\ EngType'
    BY <1>1, <1>3, <2>1, <2>2 DEF IInv, TypeOK, WorkerType, EngType, PipeType, WorkerPcs,
       Ref, Rid, uiVars, engVars
  <2>6. JobInv' /\ Fresh'
    BY <2>1, <2>3 DEF IInv, JobInv, Fresh, OnConn, uiVars, engVars
  <2>7. LocalsInv' /\ SlotsInv'
    BY <1>1, <1>3, <2>1, <2>2, <2>3, <2>4 DEF IInv, LocalsInv, SlotsInv, OnConn, engVars
  <2>8. NoDangling'
    BY <1>1, <1>3, <2>1, <2>3, SlotsWhole
    DEF IInv, OwnershipInv, NoDangling, Closing, engVars, Rid
  <2>9. NoSharing'
    BY <1>1, <1>3, <2>1, <2>3 DEF IInv, OwnershipInv, NoSharing
  <2>10. NoLeak'
    BY <1>1, <2>1, <2>2, <2>3 DEF IInv, OwnershipInv, NoLeak, engVars, Rid
  <2>11. ReleaseOrder' /\ TxInv'
    BY <2>1, <2>3 DEF IInv, OwnershipInv, ReleaseOrder, TxInv, TxFlagCoversEngine, Closing, engVars
  <2>12. CancelReachesRunningQuery'
    BY CancelFrame DEF IInv, uiVars
  <2>13. QED
    BY <2>3, <2>5, <2>6, <2>7, <2>8, <2>9, <2>10, <2>11, <2>12 DEF CoreInv, OwnershipInv
<1>4. QED
  BY <1>2, <1>3

(* OpBegin registers the statement, alone, or finds the registry full.      *)
LEMMA OpBeginStep ==
  ASSUME IInv, OpBegin PROVE CoreInv' /\ PipeType' /\ CancelReachesRunningQuery'
<1> USE DEF OpBegin, mgrVars, engVars, Used, Mine, LiveIds, uiVars
<1>1. PICK k \in Used : wh = slots[k].handle /\ wh \in Rid /\ job \in Request /\ job.conn \in Nat
  BY OnConnData DEF OnConn
<1>2. ops = {} /\ OtherOps = {}
  BY DEF IInv, CancelReachesRunningQuery, OtherOps
<1>3. ops' = {} \/ ops' = {[conn |-> job.conn, handle |-> wh]}
  BY <1>2
<1>4. job.m \in {"run", "next"} /\ (wr = 0) = (job.m = "run")
  BY DEF IInv, JobInv, LocalsInv
<1>5. UNCHANGED <<job, txBefore>> /\ wpc' = IF job.m = "run" THEN "query" ELSE "rows"
  BY DEF Goto
<1>6. WorkerType' /\ PipeType' /\ MgrType' /\ EngType'
  BY <1>1, <1>3, <1>5 DEF IInv, TypeOK, WorkerType, MgrType, EngType, PipeType, WorkerPcs
<1>7. JobInv' /\ Fresh'
  BY <1>4, <1>5 DEF IInv, JobInv, Fresh, OnConn
<1>8. LocalsInv' /\ SlotsInv'
  BY <1>4, <1>5 DEF IInv, LocalsInv, SlotsInv, OnConn
<1>9. OwnershipInv' /\ TxInv'
  BY <1>5 DEF IInv, OwnershipInv, NoDangling, NoSharing, NoLeak, ReleaseOrder, Closing,
     TxInv, TxFlagCoversEngine
<1>10. CancelReachesRunningQuery'
  BY <1>3, <1>5 DEF CancelReachesRunningQuery
<1>11. QED
  BY <1>6, <1>7, <1>8, <1>9, <1>10 DEF CoreInv

(* The registry keeps the statement of this connection, and no other, while *)
(* the worker runs it.                                                      *)
LEMMA RunningFrame ==
  ASSUME CancelReachesRunningQuery, wpc' \in {"query", "rows", "end"},
         UNCHANGED <<ui, ops, job, wh>>
  PROVE  CancelReachesRunningQuery'
BY DEF CancelReachesRunningQuery

(* DriverQuery creates the result of this request, or fails with none.      *)
LEMMA DriverQueryStep ==
  ASSUME IInv, DriverQuery PROVE CoreInv' /\ PipeType' /\ CancelReachesRunningQuery'
<1> USE DEF DriverQuery, Goto, mgrVars, Used, Mine, LiveIds, uiVars
<1>1. PICK k \in Used : /\ slots[k].id = job.conn /\ Mine = {k}
                        /\ wh = slots[k].handle /\ wh \in Rid /\ wh # 0
                        /\ job \in Request /\ job.conn \in Nat /\ job.rid \in Rid /\ job.rid # 0
                        /\ hs[wh] \in Alive
  BY OnConnData DEF OnConn
<1>2. /\ rs[job.rid] = "none" /\ wr = 0 /\ wt = 0 /\ job.rid = sent - Len(queue)
      /\ job.m = "run" /\ job # NoJob
  BY <1>1 DEF IInv, Fresh, LocalsInv, JobInv, NoJob
<1>3. CASE /\ wr' = job.rid
           /\ rs' = [rs EXCEPT ![job.rid] = "open"]
           /\ resOf' = [resOf EXCEPT ![job.rid] = wh]
           /\ engTx' \in {engTx} \cup (IF job.read THEN {} ELSE {[engTx EXCEPT ![wh] = "none"]})
           /\ Goto("rows") /\ UNCHANGED wst
  <2> USE <1>3
  <2>1. /\ rs'[job.rid] = "open" /\ resOf'[job.rid] = wh
        /\ \A r \in Rid : r # job.rid => rs'[r] = rs[r] /\ resOf'[r] = resOf[r]
    BY <1>1 DEF IInv, TypeOK, EngType
  <2>2. /\ engTx' \in [Rid -> {"none", "open", "lost"}]
        /\ \A h \in Rid : engTx'[h] = engTx[h] \/ engTx'[h] = "none"
    BY <1>1 DEF IInv, TypeOK, EngType
  <2>3. WorkerType' /\ PipeType' /\ MgrType' /\ EngType'
    <3>1. wh \in Ref /\ job.rid \in Ref /\ job.rid \in Rid
      BY <1>1 DEF Ref, Rid
    <3>2. wr' \in Ref /\ wpc' \in WorkerPcs /\ UNCHANGED <<job, txBefore, wst, wh, wt>>
      BY <3>1 DEF WorkerPcs
    <3>3. WorkerType' /\ PipeType' /\ MgrType'
      BY <3>2 DEF IInv, TypeOK, WorkerType, PipeType, MgrType
    <3>4. rs' \in [Rid -> {"none", "open", "freed"}] /\ resOf' \in [Rid -> Ref]
      BY <3>1 DEF IInv, TypeOK, EngType
    <3>5. EngType'
      BY <2>2, <3>4 DEF IInv, TypeOK, EngType
    <3>6. QED
      BY <3>3, <3>5
  <2>4. JobInv' /\ Fresh'
    BY <1>1, <1>2, <2>1 DEF IInv, JobInv, Fresh, OnConn, Rid
  <2>5. LocalsInv' /\ SlotsInv'
    BY <1>1, <1>2 DEF IInv, LocalsInv, SlotsInv, OnConn
  <2>6. \A i \in Used : slots[i].cursor # job.rid /\ slots[i].handle \in Rid
    BY <1>1, <1>2, SlotsWhole
  <2>7. NoDangling' /\ NoSharing'
    BY <1>1, <2>1, <2>6, SlotsWhole DEF IInv, OwnershipInv, NoDangling, NoSharing, Closing
  <2>8. NoLeak' /\ ReleaseOrder'
    BY SMTT(30), <1>1, <1>2, <2>1 DEF IInv, OwnershipInv, NoLeak, ReleaseOrder, Rid
  <2>9. TxInv'
    BY <2>2, <2>6 DEF IInv, TxInv, TxFlagCoversEngine, Closing
  <2>10. CancelReachesRunningQuery'
    BY RunningFrame DEF IInv
  <2>11. QED
    BY <2>3, <2>4, <2>5, <2>7, <2>8, <2>9, <2>10 DEF CoreInv, OwnershipInv
<1>4. CASE /\ wst' = IF hs[wh] = "live" THEN "query" ELSE "conn"
           /\ Goto("end") /\ UNCHANGED <<wr, rs, resOf, engTx>>
  <2> USE <1>4
  <2>1. WorkerType' /\ PipeType' /\ MgrType' /\ EngType'
    BY <1>1 DEF IInv, TypeOK, WorkerType, MgrType, EngType, PipeType, WorkerPcs, Codes
  <2>2. JobInv' /\ Fresh'
    BY <1>2 DEF IInv, JobInv, Fresh, OnConn
  <2>3. LocalsInv' /\ SlotsInv'
    BY <1>1, <1>2 DEF IInv, LocalsInv, SlotsInv, OnConn
  <2>4. OwnershipInv' /\ TxInv'
    BY DEF IInv, OwnershipInv, NoDangling, NoSharing, NoLeak, ReleaseOrder, Closing,
       TxInv, TxFlagCoversEngine
  <2>5. CancelReachesRunningQuery'
    BY RunningFrame DEF IInv
  <2>6. QED
    BY <2>1, <2>2, <2>3, <2>4, <2>5 DEF CoreInv
<1>5. QED
  BY <1>3, <1>4

(* Materialize keeps the result open as the worker's, or frees it.          *)
LEMMA MaterializeStep ==
  ASSUME IInv, Materialize PROVE CoreInv' /\ PipeType' /\ CancelReachesRunningQuery'
<1> USE DEF Materialize, Goto, mgrVars, Used, Mine, LiveIds, uiVars
<1>1. PICK k \in Used : /\ slots[k].id = job.conn /\ Mine = {k}
                        /\ wh = slots[k].handle /\ wh \in Rid /\ wh # 0
                        /\ hs[wh] \in Alive
  BY OnConnData DEF OnConn
<1>2. wr # 0 /\ wt = 0 /\ wr \in Rid /\ rs[wr] = "open" /\ resOf[wr] = wh
  BY DEF IInv, LocalsInv, OwnershipInv, NoDangling, TypeOK, WorkerType, Ref, Rid
<1>3. \A i \in Used : slots[i].cursor # wr
  BY <1>2 DEF IInv, OwnershipInv, NoSharing
<1>4. \/ wr' = wr /\ rs' = rs
      \/ wr' = 0 /\ rs' = [rs EXCEPT ![wr] = "freed"]
  BY <1>2 DEF FreeResult
<1>5. /\ rs' \in [Rid -> {"none", "open", "freed"}]
      /\ \A r \in Rid : r # wr => rs'[r] = rs[r]
      /\ (wr' = wr /\ rs'[wr] = "open") \/ (wr' = 0 /\ rs'[wr] = "freed")
  BY <1>2, <1>4 DEF IInv, TypeOK, EngType
<1>6. WorkerType' /\ PipeType' /\ MgrType' /\ EngType'
  BY <1>2, <1>5, AnswerData
  DEF IInv, TypeOK, WorkerType, MgrType, EngType, PipeType, WorkerPcs, Codes
<1>7. JobInv' /\ Fresh'
  BY <1>2, <1>5 DEF IInv, JobInv, Fresh, OnConn
<1>8. LocalsInv' /\ SlotsInv'
  BY <1>1, <1>2 DEF IInv, LocalsInv, SlotsInv, OnConn
<1>9. NoDangling' /\ NoSharing'
  BY <1>1, <1>2, <1>3, <1>5, SlotsWhole DEF IInv, OwnershipInv, NoDangling, NoSharing, Closing
<1>10. NoLeak'
  BY <1>2, <1>5 DEF IInv, OwnershipInv, NoLeak, LocalsInv
<1>11. ReleaseOrder' /\ TxInv'
  BY <1>2, <1>5 DEF IInv, OwnershipInv, ReleaseOrder, TxInv, TxFlagCoversEngine, Closing
<1>12. CancelReachesRunningQuery'
  BY RunningFrame DEF IInv
<1>13. QED
  BY <1>6, <1>7, <1>8, <1>9, <1>10, <1>11, <1>12 DEF CoreInv, OwnershipInv

(* OpEnd unregisters the statement and gives an open cursor to the slot.    *)
LEMMA OpEndStep ==
  ASSUME IInv, OpEnd PROVE CoreInv' /\ PipeType' /\ CancelReachesRunningQuery'
<1> USE DEF OpEnd, uiVars
<1>1. PICK k \in Used : /\ k = SlotOf(job.conn) /\ slots[k] = MySlot /\ slots[k].id = job.conn
                        /\ Mine = {k} /\ slots[k] \in Slot
                        /\ wh = slots[k].handle /\ wh \in Rid /\ wh # 0
                        /\ job.conn \in Nat /\ hs[wh] \in Alive
  BY OnConnData DEF OnConn
<1>2. /\ wpc' = "idle" /\ job' = NoJob /\ wh' = 0 /\ wr' = 0 /\ wt' = 0
      /\ WorkerType' /\ JobInv'
  BY AnswerState DEF IInv
<1>3. wt = 0 /\ job.conn \in LiveIds
  BY DEF IInv, LocalsInv, JobInv, OnConn
<1>4. ops' = {}
  BY <1>1 DEF IInv, CancelReachesRunningQuery, OtherOps
<1>5. PipeType'
  BY <1>1, <1>4, AnswerData, AnswerType DEF IInv, TypeOK, PipeType
<1>6. CancelReachesRunningQuery'
  BY <1>4 DEF IInv, CancelReachesRunningQuery
<1>7. CASE wr = 0
  <2>1. UNCHANGED <<slots, rs>>
    BY <1>7
  <2> USE <1>2, <1>3, <1>7, <2>1 DEF Used, Mine, LiveIds
  <2>2. MgrType' /\ EngType' /\ Fresh' /\ LocalsInv' /\ SlotsInv'
    BY DEF IInv, TypeOK, MgrType, EngType, Fresh, LocalsInv, SlotsInv, OnConn
  <2>3. OwnershipInv' /\ TxInv'
    BY DEF IInv, OwnershipInv, NoDangling, NoSharing, NoLeak, ReleaseOrder, Closing,
       TxInv, TxFlagCoversEngine
  <2>4. QED
    BY <1>5, <1>6, <2>2, <2>3 DEF CoreInv
<1>8. CASE wr # 0
  <2>1. /\ wr \in Ref /\ wr \in Rid /\ rs[wr] = "open" /\ resOf[wr] = wh
        /\ \A i \in Used : slots[i].cursor # wr
    BY <1>8 DEF IInv, OwnershipInv, NoDangling, NoSharing, TypeOK, WorkerType, Ref, Rid
  <2>2. /\ slots' = [slots EXCEPT ![k].cursor = wr]
        /\ rs' = FreeResult(slots[k].cursor)
    BY <1>1, <1>3, <1>8, <2>1
  <2>3. /\ MgrType' /\ Used' = Used
        /\ slots'[k].cursor = wr
        /\ \A i \in Used : /\ slots'[i].id = slots[i].id /\ slots'[i].handle = slots[i].handle
                           /\ slots'[i].tunnel = slots[i].tunnel
                           /\ slots'[i].inTx = slots[i].inTx
                           /\ i # k => slots'[i] = slots[i]
    BY <2>1, <2>2, CursorUpdate DEF IInv, TypeOK
  <2>4. slots[k].cursor # 0 => slots[k].cursor \in Rid /\ rs[slots[k].cursor] = "open"
    BY SlotsWhole
  <2>5. /\ EngType'
        /\ \A r \in Rid : r # slots[k].cursor => rs'[r] = rs[r]
        /\ slots[k].cursor # 0 => rs'[slots[k].cursor] = "freed"
    BY <2>2, <2>4 DEF IInv, TypeOK, EngType, FreeResult, Rid
  <2>6. \A i \in Used : i # k /\ slots[i].cursor # 0 => slots[i].cursor # slots[k].cursor
    BY DEF IInv, OwnershipInv, NoSharing
  <2>7. Fresh' /\ LocalsInv'
    BY <1>2, <2>4, <2>5 DEF IInv, Fresh, LocalsInv, OnConn, Rid
  <2>8. SlotsInv'
    BY <2>3 DEF IInv, SlotsInv
  <2>9. NoDangling'
    BY <1>1, <1>2, <2>1, <2>3, <2>5, <2>6, SlotsWhole DEF IInv, OwnershipInv, NoDangling, Closing
  <2>10. NoSharing'
    BY <1>1, <1>2, <2>1, <2>3 DEF IInv, OwnershipInv, NoSharing
  <2>11. NoLeak'
    BY <1>1, <1>2, <1>3, <2>1, <2>3, <2>5 DEF IInv, OwnershipInv, NoLeak, Rid
  <2>12. ReleaseOrder'
    BY <2>1, <2>5 DEF IInv, OwnershipInv, ReleaseOrder, Rid
  <2>13. TxInv'
    BY <1>2, <2>3 DEF IInv, TxInv, TxFlagCoversEngine, Closing
  <2>14. QED
    BY <1>2, <1>5, <1>6, <2>3, <2>5, <2>7, <2>8, <2>9, <2>10, <2>11, <2>12, <2>13
    DEF CoreInv, OwnershipInv
<1>9. QED
  BY <1>7, <1>8

(* TxReturn: the flag moves so that it still covers the engine.             *)
LEMMA TxReturnStep ==
  ASSUME IInv, TxReturn PROVE CoreInv' /\ PipeType' /\ CancelReachesRunningQuery'
<1> USE DEF TxReturn, uiVars
<1>1. PICK k \in Used : /\ k = SlotOf(job.conn) /\ slots[k].id = job.conn
                        /\ Mine = {k} /\ slots[k] \in Slot
                        /\ wh = slots[k].handle /\ wh \in Rid /\ wh # 0
                        /\ job.conn \in Nat /\ hs[wh] \in Alive
                        /\ \A i \in Used : i # k => slots[i].handle # wh
  BY OnConnData DEF OnConn
<1>2. PICK st \in {"ok", "query", "conn"}, newTx \in {"none", "open", "lost"} :
       /\ EngineTx(st, newTx)
       /\ engTx' = [engTx EXCEPT ![wh] = newTx]
       /\ slots' = IF FlagFollows(st)
                   THEN [slots EXCEPT ![SlotOf(job.conn)].inTx = (job.m = "begin")]
                   ELSE slots
       /\ Answer(st, job.conn, wh)
  OBVIOUS
<1>3. /\ wpc' = "idle" /\ job' = NoJob /\ wh' = 0 /\ wr' = 0 /\ wt' = 0
      /\ WorkerType' /\ JobInv'
  BY <1>2, AnswerState DEF IInv
<1>4. wr = 0 /\ wt = 0
  BY DEF IInv, LocalsInv
<1>5. PipeType'
  BY <1>1, <1>2, AnswerData, AnswerType DEF IInv, TypeOK, PipeType
<1>6. EngType' /\ engTx'[wh] = newTx /\ \A h \in Rid : h # wh => engTx'[h] = engTx[h]
  BY <1>1, <1>2 DEF IInv, TypeOK, EngType
<1>7. k \in 1..cap /\ slots \in [1..cap -> Slot]
  BY <1>1 DEF Used, IInv, TypeOK, MgrType
<1>8. [slots[k] EXCEPT !.inTx = (job.m = "begin")] \in Slot
  BY <1>1 DEF Slot
<1>9. \/ slots' = [slots EXCEPT ![k] = [slots[k] EXCEPT !.inTx = (job.m = "begin")]] /\ FlagFollows(st)
      \/ slots' = slots /\ ~FlagFollows(st)
  BY <1>1, <1>2
<1>10. /\ slots' \in [1..cap -> Slot]
       /\ \A i \in 1..cap : i # k => slots'[i] = slots[i]
       /\ \/ slots'[k] = [slots[k] EXCEPT !.inTx = (job.m = "begin")] /\ FlagFollows(st)
          \/ slots'[k] = slots[k] /\ ~FlagFollows(st)
  BY <1>7, <1>8, <1>9
<1>11. \A i \in 1..cap : /\ slots'[i].id = slots[i].id /\ slots'[i].handle = slots[i].handle
                         /\ slots'[i].tunnel = slots[i].tunnel
                         /\ slots'[i].cursor = slots[i].cursor
  BY <1>1, <1>10 DEF Slot
<1>12. /\ \A i \in Used : i \in 1..cap
       /\ Used' = Used /\ MgrType'
  BY <1>10, <1>11 DEF Used, MgrType, IInv, TypeOK
<1>13. newTx # "none" => slots'[k].inTx
  <2>1. engTx[wh] # "none" => slots[k].inTx
    BY <1>1 DEF IInv, TxInv, TxFlagCoversEngine, Closing
  <2>2. job.m = "begin" => ~slots[k].inTx
    BY <1>1 DEF IInv, TxInv
  <2>3. FlagFollows(st) => slots'[k].inTx = (job.m = "begin")
    BY <1>1, <1>10 DEF Slot
  <2>4. ~FlagFollows(st) => slots'[k].inTx = slots[k].inTx
    BY <1>10
  <2>5. CASE job.m = "rollback"
    BY <1>2, <2>5 DEF EngineTx
  <2>6. CASE job.m = "begin"
    BY <1>2, <2>1, <2>2, <2>3, <2>6 DEF EngineTx, FlagFollows
  <2>7. CASE job.m = "commit"
    BY <1>2, <2>1, <2>4, <2>7 DEF EngineTx, FlagFollows
  <2>8. job.m \in TxMethods
    BY DEF IInv, JobInv, TxMethods
  <2>9. QED
    BY <2>5, <2>6, <2>7, <2>8 DEF TxMethods
<1>14. Fresh' /\ LocalsInv'
  BY <1>3 DEF IInv, Fresh, LocalsInv, OnConn
<1>15. SlotsInv'
  BY <1>11, <1>12 DEF IInv, SlotsInv
<1>16. NoDangling' /\ NoSharing'
  BY <1>3, <1>11, <1>12 DEF IInv, OwnershipInv, NoDangling, NoSharing, Closing
<1>17. NoLeak' /\ ReleaseOrder'
  BY <1>3, <1>4, <1>11, <1>12 DEF IInv, OwnershipInv, NoLeak, ReleaseOrder
<1>18. TxInv'
  BY <1>1, <1>3, <1>6, <1>10, <1>12, <1>13, SlotsWhole
  DEF IInv, TxInv, TxFlagCoversEngine, Closing
<1>19. CancelReachesRunningQuery'
  BY CancelFrame DEF IInv
<1>20. QED
  BY <1>3, <1>5, <1>6, <1>12, <1>14, <1>15, <1>16, <1>17, <1>18, <1>19
  DEF CoreInv, OwnershipInv

----------------------------------------------------------------------------
(* The steps of the UI thread, and the engine's own.                        *)

(* The core of the invariant.                                               *)
LEMMA CoreOfIInv == IInv => CoreInv
BY DEF IInv, CoreInv, TypeOK

UiState == [pc : {"idle", "reading", "cancelling", "joining", "unloaded"},
            conn : Nat, target : Ref, handle : Ref]

(* The states of the UI thread outside a cancel are well typed.             *)
LEMMA UiIdleType ==
  UiIdle \in UiState /\ \A pc \in {"joining", "unloaded"} : [UiIdle EXCEPT !.pc = pc] \in UiState
BY ConstantsAssumption DEF UiIdle, UiState, Ref

(* Submit numbers the request after all the others.                         *)
LEMMA SubmitStep ==
  ASSUME IInv, NEW k \in Kinds, NEW c \in {0} \cup known, Submit(k, c)
  PROVE  IInv'
<1> USE DEF Submit
<1> DEFINE r == [rid |-> sent + 1, m |-> k.m, conn |-> c, opt |-> k.opt, read |-> k.read]
<1>1. r \in Request /\ sent \in Nat /\ sent + 1 \in Rid
  BY ConstantsAssumption DEF IInv, TypeOK, UiType, Request, Rid, Kind
<1>2. queue \in Seq(Request) /\ queue' = Append(queue, r)
  BY DEF IInv, TypeOK, PipeType
<1>3. /\ queue' \in Seq(Request) /\ Len(queue) \in Nat /\ Len(queue') = Len(queue) + 1
      /\ \A n \in 1..Len(queue) : queue'[n] = queue[n]
      /\ queue'[Len(queue) + 1].rid = sent + 1
  BY <1>1, <1>2
<1>4. UiType' /\ PipeType'
  BY <1>1, <1>3, ConstantsAssumption DEF IInv, TypeOK, UiType, PipeType, Rid
<1>5. CancelReachesRunningQuery'
  BY DEF IInv, CancelReachesRunningQuery, wkVars
<1>6. sent' - Len(queue') = sent - Len(queue)
  BY <1>1, <1>3
<1>7. JobInv'
  <2>1. \A n \in 1..Len(queue') : queue'[n].rid = (sent' - Len(queue')) + n
    BY <1>1, <1>3, <1>6 DEF IInv, JobInv
  <2>2. Len(queue') <= sent'
    BY <1>1, <1>3 DEF IInv, JobInv
  <2>3. QED
    BY <1>6, <2>1, <2>2 DEF IInv, JobInv, wkVars, mgrVars, LiveIds, Used
<1>8. Fresh'
  BY <1>6 DEF IInv, Fresh, wkVars, engVars
<1> USE DEF wkVars, mgrVars, engVars, Used, Mine, LiveIds
<1>9. WorkerType' /\ MgrType' /\ EngType'
  BY DEF IInv, TypeOK, WorkerType, MgrType, EngType
<1>10. LocalsInv' /\ SlotsInv'
  BY DEF IInv, LocalsInv, SlotsInv
<1>11. OwnershipInv'
  BY DEF IInv, OwnershipInv, NoDangling, NoSharing, NoLeak, ReleaseOrder, Closing
<1>12. TxInv'
  BY DEF IInv, TxInv, TxFlagCoversEngine, Closing
<1>13. QED
  BY <1>4, <1>5, <1>7, <1>8, <1>9, <1>10, <1>11, <1>12 DEF IInv, TypeOK

(* Deliver resolves a promise; the core does not see it.                    *)
LEMMA DeliverStep == ASSUME IInv, Deliver PROVE IInv'
<1> USE DEF Deliver
<1>1. CoreInv'
  BY CoreFrame, CoreOfIInv
<1>2. outbox \in Seq(Reply) /\ Head(outbox) \in Reply /\ Tail(outbox) \in Seq(Reply)
  BY DEF IInv, TypeOK, PipeType
<1>3. UiType' /\ PipeType'
  BY <1>2 DEF IInv, TypeOK, UiType, PipeType, Reply
<1>4. CancelReachesRunningQuery'
  BY DEF IInv, CancelReachesRunningQuery, wkVars
<1>5. QED
  BY <1>1, <1>3, <1>4 DEF CoreInv, IInv, TypeOK

(* Cancel starts reading the manager.                                       *)
LEMMA CancelStep ==
  ASSUME IInv, NEW r \in unanswered, Cancel(r) PROVE IInv'
<1> USE DEF Cancel
<1>1. CoreInv'
  BY CoreFrame, CoreOfIInv
<1>2. UiType' /\ PipeType'
  BY ConstantsAssumption DEF IInv, TypeOK, UiType, PipeType, Request, Rid, Ref
<1>3. CancelReachesRunningQuery'
  BY DEF IInv, CancelReachesRunningQuery, wkVars
<1>4. QED
  BY <1>1, <1>2, <1>3 DEF CoreInv, IInv, TypeOK

(* CancelLock aims at the statement that is registered, or at none.         *)
LEMMA CancelLockStep == ASSUME IInv, CancelLock PROVE IInv'
<1> USE DEF CancelLock
<1>1. CoreInv'
  BY CoreFrame, CoreOfIInv
<1>2. ui \in [pc : {"idle", "reading", "cancelling", "joining", "unloaded"},
             conn : Nat, target : Ref, handle : Ref]
  BY DEF IInv, TypeOK, UiType
<1>3. CASE \E e \in ops : e.conn = ui.conn /\ ui' = [ui EXCEPT !.pc = "cancelling", !.handle = e.handle]
  <2>1. PICK e \in ops : e.conn = ui.conn /\ ui' = [ui EXCEPT !.pc = "cancelling", !.handle = e.handle]
    BY <1>3
  <2>2. wpc \in OnConn /\ e = [conn |-> job.conn, handle |-> wh]
    BY <2>1 DEF IInv, CancelReachesRunningQuery, OnConn
  <2>3. ui'.conn = job.conn /\ ui'.handle = wh /\ wh \in Ref
    <3> HIDE DEF CancelLock
    <3>1. e.conn = job.conn /\ e.handle = wh
      BY <2>2
    <3>2. ui' = [ui EXCEPT !.pc = "cancelling", !.handle = wh] /\ ui.conn = job.conn
      BY <2>1, <3>1
    <3>3. ui'.conn = ui.conn /\ ui'.handle = wh
      BY <1>2, <3>2
    <3>4. QED
      BY <3>2, <3>3 DEF IInv, TypeOK, WorkerType
  <2>4. UiType' /\ PipeType'
    BY <1>2, <2>1, <2>2, <2>3 DEF IInv, TypeOK, UiType, PipeType
  <2>5. CancelReachesRunningQuery'
    <3>1. [conn |-> ui'.conn, handle |-> ui'.handle] \in ops
      BY <2>1, <2>2, <2>3
    <3>2. UNCHANGED <<wpc, job, wh, ops>>
      BY DEF wkVars
    <3> HIDE DEF CancelLock
    <3>3. QED
      BY <3>1, <3>2 DEF IInv, CancelReachesRunningQuery
  <2>6. QED
    BY <1>1, <2>4, <2>5 DEF CoreInv, IInv, TypeOK
<1>4. CASE ui' = UiIdle
  <2>1. UiType' /\ PipeType'
    BY <1>4, UiIdleType DEF IInv, TypeOK, UiType, PipeType, UiState
  <2>2. CancelReachesRunningQuery'
    BY <1>4 DEF IInv, CancelReachesRunningQuery, wkVars, UiIdle
  <2>3. QED
    BY <1>1, <2>1, <2>2 DEF CoreInv, IInv, TypeOK
<1>5. QED
  BY <1>3, <1>4

(* CancelDone may have cut the session of the statement it reached.         *)
LEMMA CancelDoneStep == ASSUME IInv, CancelDone PROVE IInv'
<1> USE DEF CancelDone
<1>1. ui.handle = wh /\ ui.handle \in Rid /\ hs[ui.handle] \in Alive
  BY DEF IInv, CancelReachesRunningQuery, TypeOK, PipeType, OwnershipInv, NoDangling
<1>2. CoreInv'
  <2>1. CASE hs' = hs
    BY <2>1, CoreFrame, CoreOfIInv DEF engVars
  <2>2. CASE hs' # hs
    BY <1>1, <2>2, DeathStep, CoreOfIInv
  <2>3. QED
    BY <2>1, <2>2
<1>3. UiType' /\ PipeType'
  BY UiIdleType DEF IInv, TypeOK, UiType, PipeType, UiState
<1>4. CancelReachesRunningQuery'
  BY DEF IInv, CancelReachesRunningQuery, wkVars, UiIdle
<1>5. QED
  BY <1>2, <1>3, <1>4 DEF CoreInv, IInv, TypeOK

(* CloseWindow and UnloadDrivers only move the UI thread.                   *)
LEMMA ShutdownStep == ASSUME IInv, CloseWindow \/ UnloadDrivers PROVE IInv'
<1> USE DEF CloseWindow, UnloadDrivers
<1>1. CoreInv'
  BY CoreFrame, CoreOfIInv
<1>2. UiType' /\ PipeType'
  BY UiIdleType DEF IInv, TypeOK, UiType, PipeType, UiState
<1>3. CancelReachesRunningQuery'
  BY DEF IInv, CancelReachesRunningQuery, wkVars, UiIdle
<1>4. QED
  BY <1>1, <1>2, <1>3 DEF CoreInv, IInv, TypeOK

(* SessionDies happens to a session that has an owner.                      *)
LEMMA SessionDiesStep ==
  ASSUME IInv, NEW h \in Rid, SessionDies(h) PROVE IInv'
<1> USE DEF SessionDies
<1>1. CoreInv'
  BY DeathStep, CoreOfIInv DEF Alive, uiVars
<1>2. UiType' /\ PipeType'
  BY DEF IInv, TypeOK, UiType, PipeType, uiVars
<1>3. CancelReachesRunningQuery'
  BY DEF IInv, CancelReachesRunningQuery, wkVars, uiVars
<1>4. QED
  BY <1>1, <1>2, <1>3 DEF CoreInv, IInv, TypeOK

----------------------------------------------------------------------------
(* The invariant and what follows from it.                                  *)

(* Nothing has been opened when the program starts.                         *)
LEMMA InitIInv == Init => IInv
<1> SUFFICES ASSUME Init PROVE IInv
  OBVIOUS
<1> USE DEF Init
<1>1. 0 \in Ref /\ 0 \in 0..MaxRequests /\ 0 \in Nat
  BY ConstantsAssumption DEF Ref
<1>2. Used = {} /\ LiveIds = {} /\ Mine = {}
  BY DEF Used, LiveIds, Mine
<1>3. UiType
  BY <1>1, UiIdleType DEF UiType, UiState
<1>4. PipeType
  <2>1. <<>> \in Seq(Request) /\ <<>> \in Seq(Reply)
    OBVIOUS
  <2>2. QED
    BY <2>1 DEF PipeType
<1>5. WorkerType
  BY <1>1 DEF WorkerType, WorkerPcs, Codes
<1>6. slots \in [1..cap -> Slot]
  OBVIOUS
<1>7. MgrType
  BY <1>1, <1>6 DEF MgrType
<1>8. EngType
  BY <1>1 DEF EngType
<1>9. JobInv /\ Fresh
  BY DEF JobInv, Fresh, OnConn
<1>10. LocalsInv /\ SlotsInv
  BY <1>2 DEF LocalsInv, SlotsInv, OnConn
<1>11. OwnershipInv
  BY <1>2 DEF OwnershipInv, NoDangling, NoSharing, NoLeak, ReleaseOrder, Alive
<1>12. TxInv /\ CancelReachesRunningQuery
  BY <1>2 DEF TxInv, TxFlagCoversEngine, CancelReachesRunningQuery, UiIdle
<1>13. QED
  BY <1>3, <1>4, <1>5, <1>7, <1>8, <1>9, <1>10, <1>11, <1>12 DEF IInv, TypeOK

(* The worker writes none of the UI thread's variables.                     *)
LEMMA WorkerKeepsUi == WorkerStep => UNCHANGED uiVars
BY DEF WorkerStep, Take, WorkerExit, UnknownConn, OpenStart, OpenTunnel, OpenConnect,
       OpenStore, OpenNoMemory, RunStart, NextStart, CursorClose, OpBegin, DriverQuery,
       Materialize, OpEnd, TxStart, TxReturn, CallStart, CallReturn, CloseStart,
       CloseDisconnect, CloseRelease

(* The lemmas above, for the whole of WorkerStep.                           *)
LEMMA WorkerIInv == ASSUME IInv, WorkerStep PROVE IInv'
<1>1. CoreInv' /\ PipeType' /\ CancelReachesRunningQuery'
  BY TakeStep, WorkerExitStep, UnknownConnStep, OpenStartStep, OpenTunnelStep,
     OpenConnectStep, OpenStoreStep, OpenNoMemoryStep, RunStartStep, NextStartStep,
     CursorCloseStep, OpBeginStep, DriverQueryStep, MaterializeStep, OpEndStep,
     TxStartStep, TxReturnStep, CallStartStep, CallReturnStep, CloseStartStep,
     CloseDisconnectStep, CloseReleaseStep
  DEF WorkerStep
<1>2. UiType'
  BY WorkerKeepsUi DEF IInv, TypeOK, UiType, uiVars
<1>3. QED
  BY <1>1, <1>2 DEF CoreInv, IInv, TypeOK

(* A step that changes nothing keeps the invariant.                         *)
LEMMA StutterIInv == ASSUME IInv, UNCHANGED vars PROVE IInv'
<1> USE DEF vars
<1>1. CoreInv'
  BY CoreFrame, CoreOfIInv DEF uiVars
<1>2. UiType' /\ PipeType'
  BY DEF IInv, TypeOK, UiType, PipeType, uiVars
<1>3. CancelReachesRunningQuery'
  BY DEF IInv, CancelReachesRunningQuery, wkVars, uiVars
<1>4. QED
  BY <1>1, <1>2, <1>3 DEF CoreInv, IInv, TypeOK

(* The invariant is inductive.                                              *)
LEMMA NextIInv == IInv /\ [Next]_vars => IInv'
<1> SUFFICES ASSUME IInv, [Next]_vars PROVE IInv'
  OBVIOUS
<1>1. CASE UiStep
  BY <1>1, SubmitStep, DeliverStep, CancelStep, CancelLockStep, CancelDoneStep, ShutdownStep
  DEF UiStep
<1>2. CASE WorkerStep
  BY <1>2, WorkerIInv
<1>3. CASE \E h \in Rid : SessionDies(h)
  BY <1>3, SessionDiesStep
<1>4. CASE Terminated \/ UNCHANGED vars
  BY <1>4, StutterIInv DEF Terminated
<1>5. QED
  BY <1>1, <1>2, <1>3, <1>4 DEF Next

(* The worker, the UI thread and the engine keep the inductive invariant.   *)
THEOREM Invariance == Spec => []IInv
<1>1. QED
  BY InitIInv, NextIInv, PTL DEF Spec

------------------------------------------------------------------------------
(* The properties the runs check follow from the inductive invariant; the    *)
(* promise of a retry, the order of the shutdown and the service the         *)
(* threads implement need one more each.                                    *)


(* A session that is gone stays gone, and opens no transaction.             *)
DeadStays ==
  \A h \in Rid : hs[h] \in {"dead", "freed"} =>
    hs'[h] \in {"dead", "freed"} /\ (engTx[h] = "none" => engTx'[h] = "none")

(* No session changes in a step that leaves the engine alone.               *)
LEMMA EngineStays == ASSUME UNCHANGED <<hs, engTx>> PROVE DeadStays
BY DEF DeadStays

(* Only a new session becomes live, and a statement needs a live one.       *)
LEMMA OpenDeadStays ==
  ASSUME IInv, OpenConnect \/ OpenNoMemory \/ CloseDisconnect \/ DriverQuery
  PROVE  DeadStays
<1>1. hs \in [Rid -> {"none", "live", "dead", "freed"}]
      /\ engTx \in [Rid -> {"none", "open", "lost"}]
  BY DEF IInv, TypeOK, EngType
<1>2. CASE OpenConnect
  <2>1. hs[job.rid] = "none"
    BY <1>2 DEF OpenConnect, IInv, Fresh
  <2>2. QED
    BY <1>1, <1>2, <2>1 DEF OpenConnect, Disconnect, DeadStays
<1>3. CASE OpenNoMemory
  BY <1>1, <1>3 DEF OpenNoMemory, Disconnect, DeadStays
<1>4. CASE CloseDisconnect
  BY <1>1, <1>4 DEF CloseDisconnect, Disconnect, DeadStays
<1>5. CASE DriverQuery
  BY <1>1, <1>5 DEF DriverQuery, DeadStays
<1>6. QED
  BY <1>2, <1>3, <1>4, <1>5

(* A tx.begin on a session that is gone opens nothing.                      *)
LEMMA TxDeadStays ==
  ASSUME IInv, TxReturn PROVE DeadStays
<1>1. /\ engTx \in [Rid -> {"none", "open", "lost"}] /\ wh \in Rid
  BY OnConnData DEF IInv, TypeOK, EngType, TxReturn, OnConn
<1>2. PICK st \in {"ok", "query", "conn"}, newTx \in {"none", "open", "lost"} :
        EngineTx(st, newTx) /\ engTx' = [engTx EXCEPT ![wh] = newTx]
  BY DEF TxReturn
<1>3. hs[wh] \in {"dead", "freed"} => st = "conn"
  BY <1>2 DEF EngineTx
<1>4. hs[wh] \in {"dead", "freed"} => newTx \in {"none", engTx[wh]}
  BY <1>2, <1>3 DEF EngineTx
<1>5. hs' = hs
  BY DEF TxReturn
<1>6. QED
  BY <1>1, <1>2, <1>4, <1>5 DEF DeadStays

(* Only a live session dies and loses its transaction.                      *)
LEMMA DeathDeadStays ==
  ASSUME IInv, CancelDone \/ \E h \in Rid : SessionDies(h) PROVE DeadStays
<1>1. hs \in [Rid -> {"none", "live", "dead", "freed"}]
      /\ engTx \in [Rid -> {"none", "open", "lost"}]
  BY DEF IInv, TypeOK, EngType
<1>2. CASE CancelDone
  <2>1. ui.handle = wh /\ ui.handle \in Rid /\ hs[ui.handle] \in Alive
    BY <1>2 DEF CancelDone, IInv, CancelReachesRunningQuery, TypeOK, PipeType,
                OwnershipInv, NoDangling
  <2>2. QED
    BY <1>1, <1>2, <2>1 DEF CancelDone, DeadStays, Alive
<1>3. CASE \E h \in Rid : SessionDies(h)
  BY <1>1, <1>3 DEF SessionDies, DeadStays
<1>4. QED
  BY <1>2, <1>3

(* The same of every step.                                                  *)
LEMMA NextDeadStays == ASSUME IInv, [Next]_vars PROVE DeadStays
<1>1. CASE OpenConnect \/ OpenNoMemory \/ CloseDisconnect \/ DriverQuery
  BY <1>1, OpenDeadStays
<1>2. CASE TxReturn
  BY <1>2, TxDeadStays
<1>3. CASE CancelDone \/ \E h \in Rid : SessionDies(h)
  BY <1>3, DeathDeadStays
<1>4. CASE UiStep /\ ~CancelDone
  BY <1>4, EngineStays DEF UiStep, Submit, Deliver, Cancel, CancelLock, CloseWindow,
                           UnloadDrivers, engVars
<1>5. CASE \/ Take \/ WorkerExit \/ UnknownConn \/ OpenStart \/ OpenTunnel \/ OpenStore
           \/ RunStart \/ NextStart \/ CursorClose \/ OpBegin \/ Materialize \/ OpEnd
           \/ TxStart \/ CallStart \/ CallReturn \/ CloseStart \/ CloseRelease
  BY <1>5, EngineStays
  DEF Take, WorkerExit, UnknownConn, OpenStart, OpenTunnel, OpenStore, RunStart, NextStart,
      CursorClose, OpBegin, Materialize, OpEnd, TxStart, CallStart, CallReturn, CloseStart,
      CloseRelease, engVars
<1>6. CASE Terminated \/ UNCHANGED vars
  BY <1>6, EngineStays DEF Terminated, vars, engVars
<1>7. QED
  BY <1>1, <1>2, <1>3, <1>4, <1>5, <1>6 DEF Next, WorkerStep

----------------------------------------------------------------------------
(* The promise of a retry.                                                  *)

(* Answers already posted keep their promise; a new one is posted with its  *)
(* own, and leaves the worker with nothing to say about a statement.        *)
LEMMA SafeStays ==
  ASSUME DeadStays, NEW a \in Reply, SafeRetry(a) PROVE SafeRetry(a)'
BY DEF DeadStays, SafeRetry

(* Responses that wait for the UI loop keep their promise.                  *)
LEMMA OutboxKeeps ==
  ASSUME IInv, RetriesSafe, DeadStays,
         outbox' = outbox \/ (outbox # <<>> /\ outbox' = Tail(outbox))
  PROVE  RetriesSafe'
<1>1. outbox \in Seq(Reply) /\ \A k \in 1..Len(outbox) : outbox[k] \in Reply
  BY DEF IInv, TypeOK, PipeType
<1>2. \A k \in 1..Len(outbox') : \E n \in 1..Len(outbox) : outbox'[k] = outbox[n]
  <2>1. CASE outbox' = outbox
    BY <2>1
  <2>2. CASE outbox # <<>> /\ outbox' = Tail(outbox)
    <3>1. /\ Len(outbox') = Len(outbox) - 1 /\ Len(outbox) \in Nat
          /\ \A k \in 1..Len(outbox') : outbox'[k] = outbox[k + 1]
      BY <1>1, <2>2
    <3>2. \A k \in 1..Len(outbox') : k + 1 \in 1..Len(outbox)
      BY <3>1
    <3>3. QED
      BY <3>1, <3>2
  <2>3. QED
    BY <2>1, <2>2
<1>3. SUFFICES ASSUME NEW k \in 1..Len(outbox') PROVE SafeRetry(outbox[k])'
  BY DEF RetriesSafe
<1>4. PICK n \in 1..Len(outbox) : outbox'[k] = outbox[n]
  BY <1>2
<1>5. PICK a \in Reply : a = outbox[n] /\ SafeRetry(a)
  BY <1>1 DEF RetriesSafe
<1>6. SafeRetry(a)' /\ outbox'[k] = a
  BY <1>4, <1>5, SafeStays
<1>7. QED
  BY <1>6 DEF SafeRetry

(* A new response keeps its own, and the worker goes idle.                  *)
LEMMA AnswerKeeps ==
  ASSUME IInv, RetryInv, DeadStays, NEW code, NEW conn, NEW h, Answer(code, conn, h),
         RetrySafe(code = "conn" /\ job.m # "open") =>
           h \in Rid /\ hs[h] = "dead" /\ engTx[h] = "none"
  PROVE  RetryInv'
<1> DEFINE a == [rid |-> job.rid, m |-> job.m, conn |-> conn, code |-> code,
                 inTx |-> (code = "conn" /\ job.m # "open") /\ txBefore,
                 retry |-> RetrySafe(code = "conn" /\ job.m # "open"),
                 handle |-> h]
<1>1. outbox \in Seq(Reply) /\ outbox' = Append(outbox, a)
  BY DEF IInv, TypeOK, PipeType, Answer
<1>2. a.retry => /\ a.code = "conn" /\ a.m = "run" /\ a.handle \in Rid
                 /\ hs'[a.handle] \in {"dead", "freed"} /\ engTx'[a.handle] = "none"
  BY DEF RetrySafe, DeadStays
<1> HIDE DEF a
<1>3. /\ Len(outbox') = Len(outbox) + 1 /\ outbox'[Len(outbox) + 1] = a /\ Len(outbox) \in Nat
      /\ \A k \in 1..Len(outbox) : outbox'[k] = outbox[k] /\ outbox[k] \in Reply
  BY <1>1
<1>4. RetriesSafe'
  <2>1. SUFFICES ASSUME NEW k \in 1..Len(outbox') PROVE SafeRetry(outbox[k])'
    BY DEF RetriesSafe
  <2>2. CASE k = Len(outbox) + 1
    BY <1>2, <1>3, <2>2 DEF SafeRetry
  <2>3. CASE k \in 1..Len(outbox)
    <3>1. PICK b \in Reply : b = outbox[k] /\ SafeRetry(b)
      BY <1>3, <2>3 DEF RetryInv, RetriesSafe
    <3>2. SafeRetry(b)' /\ outbox'[k] = b
      BY <1>3, <2>3, <3>1, SafeStays
    <3>3. QED
      BY <3>2 DEF SafeRetry
  <2>4. QED
    BY <1>3, <2>2, <2>3
<1>5. RetryLocal'
  BY DEF Answer, RetryLocal
<1>6. QED
  BY <1>4, <1>5 DEF RetryInv

(* Only a statement is ever offered for retry.                              *)
LEMMA OtherAnswers ==
  ASSUME IInv, RetryInv, [Next]_vars,
         NEW code, NEW conn, NEW h, Answer(code, conn, h), code # "conn" \/ job.m # "run"
  PROVE  RetryInv'
BY AnswerKeeps, NextDeadStays DEF RetrySafe

(* A step that posts nothing need only keep what the worker knows.          *)
LEMMA LocalKeeps ==
  ASSUME IInv, RetryInv, [Next]_vars, RetryLocal', UNCHANGED outbox
  PROVE  RetryInv'
BY OutboxKeeps, NextDeadStays DEF RetryInv

(* Take reads in_tx of the one slot that has the id.                        *)
LEMMA TakeRetry == ASSUME IInv, RetryInv, [Next]_vars, Take PROVE RetryInv'
<1>1. /\ wpc' = "dispatch" /\ wst' = wst /\ UNCHANGED <<outbox, slots, cap>> /\ wpc = "idle"
      /\ txBefore' = (job'.m # "open" /\ InTx(job'.conn))
  BY DEF Take, mgrVars
<1>2. job'.m # "open" /\ ~txBefore' => \A i \in Used : slots[i].id = job'.conn => ~slots[i].inTx
  <2>1. SUFFICES ASSUME NEW i \in Used, slots[i].id = job'.conn, ~InTx(job'.conn)
                 PROVE  ~slots[i].inTx
    BY <1>1
  <2>2. job'.conn \in LiveIds /\ SlotOf(job'.conn) \in Used /\ slots[SlotOf(job'.conn)].id = job'.conn
    BY <2>1 DEF LiveIds, SlotOf
  <2>3. i = SlotOf(job'.conn)
    BY <2>1, <2>2 DEF IInv, OwnershipInv, NoSharing
  <2>4. QED
    BY <2>1, <2>2, <2>3 DEF InTx
<1>3. RetryLocal'
  BY <1>1, <1>2 DEF RetryInv, RetryLocal, Mine, Used
<1>4. QED
  BY <1>1, <1>3, LocalKeeps

(* A statement starts: in_tx as it was read is still the connection's.      *)
LEMMA StartRetry ==
  ASSUME IInv, RetryInv, [Next]_vars, RunStart \/ NextStart PROVE RetryInv'
<1>1. PICK k \in Used : /\ slots[k] = MySlot /\ Mine = {k} /\ slots[k].handle \in Rid
  BY MySlotData DEF RunStart, NextStart, Dispatching
<1>2. CASE wpc' = "begin"
  <2>1. /\ wh' = slots[k].handle /\ txBefore' = txBefore /\ wst' = wst /\ engTx' = engTx
        /\ outbox' = outbox /\ wpc = "dispatch" /\ job.m # "open"
    BY <1>1, <1>2 DEF RunStart, NextStart, Dispatching, Goto, Answer, engVars
  <2>2. ~slots[k].inTx => engTx[wh'] = "none"
    BY <1>1, <2>1 DEF IInv, TxInv, TxFlagCoversEngine, Closing
  <2>3. RetryLocal'
    BY <1>1, <1>2, <2>1, <2>2 DEF RetryInv, RetryLocal
  <2>4. QED
    BY <2>1, <2>3, LocalKeeps
<1>3. CASE wpc' # "begin"
  BY <1>3, OtherAnswers DEF RunStart, NextStart, Goto
<1>4. QED
  BY <1>2, <1>3

(* A running statement opens no transaction; DBC_ERR_CONN is of a dead session. *)
LEMMA RunningRetry ==
  ASSUME IInv, RetryInv, [Next]_vars, OpBegin \/ DriverQuery \/ Materialize PROVE RetryInv'
<1>1. /\ wpc \in {"begin", "query", "rows"} /\ wpc' \in {"query", "rows", "end"}
      /\ UNCHANGED <<txBefore, wh, outbox, hs>> /\ wh \in Rid
      /\ wst' = wst \/ (wpc' = "end" /\ (wst' \in {"query", "other"} \/ (wst' = "conn" /\ hs[wh] # "live")))
  BY OnConnData DEF OpBegin, DriverQuery, Materialize, Goto, engVars, OnConn
<1>2. engTx[wh] = "none" => engTx'[wh] = "none"
  BY <1>1 DEF OpBegin, DriverQuery, Materialize, engVars, IInv, TypeOK, EngType
<1>3. hs[wh] \in Alive
  BY <1>1, OnConnData DEF OnConn
<1>4. RetryLocal'
  BY <1>1, <1>2, <1>3 DEF RetryInv, RetryLocal, Alive
<1>5. QED
  BY <1>1, <1>4, LocalKeeps

(* OpEnd offers a retry for a read whose session died outside a transaction. *)
LEMMA OpEndRetry == ASSUME IInv, RetryInv, [Next]_vars, OpEnd PROVE RetryInv'
<1>1. wh \in Rid /\ wpc = "end" /\ Answer(wst, job.conn, wh)
  BY OnConnData DEF OpEnd, OnConn
<1>2. RetrySafe(wst = "conn" /\ job.m # "open") => hs[wh] = "dead" /\ engTx[wh] = "none"
  BY <1>1 DEF RetrySafe, RetryInv, RetryLocal
<1>3. QED
  BY <1>1, <1>2, AnswerKeeps, NextDeadStays

(* Steps of the worker outside a statement.                                 *)
LEMMA OutsideRetry ==
  ASSUME IInv, RetryInv, [Next]_vars,
         \/ UnknownConn \/ OpenStart \/ OpenTunnel \/ OpenConnect \/ OpenStore \/ OpenNoMemory
         \/ CursorClose \/ TxStart \/ TxReturn \/ CallStart \/ CallReturn
         \/ CloseRelease
  PROVE  RetryInv'
<1>1. CASE UnknownConn \/ CursorClose \/ CloseRelease
  BY <1>1, OtherAnswers DEF UnknownConn, CursorClose, CloseRelease
<1>2. CASE OpenStore \/ OpenNoMemory
  BY <1>2, OtherAnswers DEF OpenStore, OpenNoMemory
<1>3. CASE OpenStart \/ OpenTunnel \/ OpenConnect
  <2>1. job.m = "open"
    BY <1>3 DEF OpenStart, OpenTunnel, OpenConnect, IInv, JobInv
  <2>2. CASE wpc' \in {"tunnel", "connect", "store"}
    <3>1. UNCHANGED <<outbox, wst>> /\ wst = "ok"
      BY <1>3, <2>2 DEF OpenStart, OpenTunnel, OpenConnect, Goto, Answer, RetryInv, RetryLocal
    <3>2. RetryLocal'
      BY <2>2, <3>1 DEF RetryLocal
    <3>3. QED
      BY <3>1, <3>2, LocalKeeps
  <2>3. CASE wpc' \notin {"tunnel", "connect", "store"}
    BY <1>3, <2>1, <2>3, OtherAnswers DEF OpenStart, OpenTunnel, OpenConnect, Goto
  <2>4. QED
    BY <2>2, <2>3
<1>4. CASE TxStart \/ CallStart
  <2>1. wpc = "dispatch" /\ job.m # "run"
    BY <1>4 DEF TxStart, CallStart, Dispatching, TxMethods
  <2>2. CASE wpc' \in {"txcall", "call"}
    <3>1. UNCHANGED <<outbox, wst, job>> /\ wst = "ok" /\ (wpc' = "call" => job.m = "call")
      BY <1>4, <2>1, <2>2 DEF TxStart, CallStart, Dispatching, Goto, Answer, RetryInv, RetryLocal
    <3>2. RetryLocal'
      BY <2>2, <3>1 DEF RetryLocal
    <3>3. QED
      BY <3>1, <3>2, LocalKeeps
  <2>3. CASE wpc' \notin {"txcall", "call"}
    BY <1>4, <2>1, <2>3, OtherAnswers DEF TxStart, CallStart, Goto
  <2>4. QED
    BY <2>2, <2>3
<1>5. CASE TxReturn
  <2>1. job.m # "run"
    BY <1>5 DEF TxReturn, IInv, JobInv, TxMethods
  <2>2. QED
    BY <1>5, <2>1, OtherAnswers DEF TxReturn
<1>6. CASE CallReturn
  <2>1. job.m # "run"
    BY <1>6 DEF CallReturn, RetryInv, RetryLocal
  <2>2. QED
    BY <1>6, <2>1, OtherAnswers DEF CallReturn
<1>7. QED
  BY <1>1, <1>2, <1>3, <1>4, <1>5, <1>6

(* Steps that post nothing and are not the worker's statement.              *)
LEMMA QuietRetry ==
  ASSUME IInv, RetryInv, [Next]_vars, CloseStart \/ CloseDisconnect \/ WorkerExit
  PROVE  RetryInv'
<1>1. /\ UNCHANGED <<outbox, wst>> /\ wst = "ok"
      /\ wpc' \in {"disconnect", "untunnel", "exited"}
  BY DEF CloseStart, CloseDisconnect, WorkerExit, Dispatching, Goto, RetryInv, RetryLocal
<1>2. RetryLocal'
  BY <1>1 DEF RetryLocal
<1>3. QED
  BY <1>1, <1>2, LocalKeeps

(* Cancels, deliveries and deaths break no promise.                         *)
LEMMA UiRetry ==
  ASSUME IInv, RetryInv, [Next]_vars,
         UiStep \/ (\E h \in Rid : SessionDies(h)) \/ Terminated \/ UNCHANGED vars
  PROVE  RetryInv'
<1>1. UNCHANGED <<wkVars, mgrVars>>
  BY DEF UiStep, Submit, Deliver, Cancel, CancelLock, CancelDone, CloseWindow, UnloadDrivers,
         SessionDies, Terminated, vars
<1>2. outbox' = outbox \/ (outbox # <<>> /\ outbox' = Tail(outbox))
  BY DEF UiStep, Submit, Deliver, Cancel, CancelLock, CancelDone, CloseWindow, UnloadDrivers,
         SessionDies, Terminated, vars
<1>3. DeadStays
  BY NextDeadStays
<1>4. wst = "conn" => hs'[wh] = "dead"
  <2>1. wst = "conn" => wpc = "end"
    BY DEF RetryInv, RetryLocal
  <2>2. \A h \in Rid : hs[h] = "dead" => hs'[h] = "dead"
    BY DEF UiStep, Submit, Deliver, Cancel, CancelLock, CancelDone, CloseWindow, UnloadDrivers,
           SessionDies, Terminated, vars, engVars, IInv, TypeOK, EngType
  <2>3. QED
    BY <2>1, <2>2, OnConnData DEF OnConn, RetryInv, RetryLocal
<1>5. wpc \in {"begin", "query", "rows", "end"} /\ engTx[wh] = "none" => engTx'[wh] = "none"
  <2>1. \/ engTx' = engTx
        \/ \E g : engTx[g] = "open" /\ engTx' = [engTx EXCEPT ![g] = "lost"]
    BY DEF UiStep, Submit, Deliver, Cancel, CancelLock, CancelDone, CloseWindow, UnloadDrivers,
           SessionDies, Terminated, vars, engVars
  <2>2. QED
    BY <2>1, OnConnData DEF OnConn, IInv, TypeOK, EngType
<1>6. RetryLocal'
  BY <1>1, <1>4, <1>5 DEF RetryInv, RetryLocal, wkVars, mgrVars, Mine, Used
<1>7. RetriesSafe'
  BY <1>2, <1>3, OutboxKeeps DEF RetryInv
<1>8. QED
  BY <1>6, <1>7 DEF RetryInv

(* Every step keeps the promise of a retry.                                 *)
LEMMA NextRetry == IInv /\ RetryInv /\ [Next]_vars => RetryInv'
BY TakeRetry, StartRetry, RunningRetry, OpEndRetry, OutsideRetry, QuietRetry, UiRetry
DEF Next, WorkerStep

(* Nothing has been promised when the program starts.                       *)
LEMMA InitRetry == Init => RetryInv
BY DEF Init, RetryInv, RetryLocal, RetriesSafe

(* Both invariants together are inductive.                                  *)
LEMMA RetryInvariance == Spec => [](IInv /\ RetryInv)
<1>1. Init => IInv /\ RetryInv
  BY InitIInv, InitRetry
<1>2. (IInv /\ RetryInv) /\ [Next]_vars => (IInv /\ RetryInv)'
  BY NextIInv, NextRetry
<1>3. QED
  BY <1>1, <1>2, PTL DEF Spec

(* Types of what AskInv relates.                                            *)
LEMMA AskTypes ==
  IInv => /\ sent \in Nat /\ Len(queue) \in Nat /\ Len(outbox) \in Nat
          /\ \A k \in 1..Len(queue) : queue[k].rid \in Nat
          /\ \A k \in 1..Len(outbox) : outbox[k].rid \in Nat
          /\ job # NoJob => job.rid \in Nat
<1>1. IInv => /\ queue \in Seq(Request) /\ outbox \in Seq(Reply) /\ sent \in Nat
              /\ job \in Request \cup {NoJob}
  BY DEF IInv, TypeOK, UiType, PipeType, WorkerType
<1>2. (\A r \in Request : r.rid \in Nat) /\ (\A r \in Reply : r.rid \in Nat)
  BY DEF Request, Reply, Rid
<1>3. QED
  BY <1>1, <1>2

(* A response that has been posted, as it was asked for.                    *)
LEMMA AskedReply ==
  ASSUME IInv, AskInv, NEW k \in 1..Len(outbox)
  PROVE  \E b \in Reply : b = outbox[k] /\ b.rid \in Nat /\ Asked(b)
<1>1. PICK b \in Reply : b = outbox[k]
  BY DEF IInv, TypeOK, PipeType
<1>2. Asked(b)
  BY <1>1 DEF AskInv, Asked
<1>3. QED
  BY <1>1, <1>2 DEF Reply, Rid

(* A response is posted: it is of the call that was being handled.          *)
LEMMA AnswerAsk ==
  ASSUME IInv, AskInv, UNCHANGED <<unanswered, queue, sent>>, job # NoJob,
         NEW code, NEW conn, NEW h, Answer(code, conn, h)
  PROVE  AskInv'
<1>1. PICK a : /\ a = [rid |-> job.rid, m |-> job.m, conn |-> conn, code |-> code,
                       inTx |-> (code = "conn" /\ job.m # "open") /\ txBefore,
                       retry |-> RetrySafe(code = "conn" /\ job.m # "open"),
                       handle |-> h]
              /\ outbox' = Append(outbox, a)
  BY DEF Answer
<1>2. outbox \in Seq(Reply) /\ job' = NoJob /\ job \in unanswered
  BY DEF IInv, TypeOK, PipeType, Answer, AskInv
<1>3. /\ a.rid = job.rid /\ job.rid = sent - Len(queue)
      /\ a.retry => job.m = "run" /\ job.read
  BY <1>1 DEF RetrySafe, IInv, JobInv
<1>4. /\ Len(outbox') = Len(outbox) + 1 /\ outbox'[Len(outbox) + 1] = a /\ Len(outbox) \in Nat
      /\ \A k \in 1..Len(outbox) : outbox'[k] = outbox[k]
  BY <1>1, <1>2
<1>5. \A k \in 1..Len(outbox') : k \in 1..Len(outbox) \/ k = Len(outbox) + 1
  BY <1>4
<1>6. Asked(a)'
  BY <1>2, <1>3, AskTypes DEF Asked
<1>7. ASSUME NEW k \in 1..Len(outbox') PROVE Asked(outbox[k])'
  <2>1. CASE k = Len(outbox) + 1
    BY <1>4, <1>6, <2>1 DEF Asked
  <2>2. CASE k \in 1..Len(outbox)
    <3>1. PICK b \in Reply : b = outbox[k] /\ Asked(b)
      BY <2>2, AskedReply
    <3>2. Asked(b)' /\ outbox'[k] = b
      BY <1>2, <1>4, <2>2, <3>1 DEF Asked
    <3>3. QED
      BY <3>2 DEF Asked
  <2>3. QED
    BY <1>5, <2>1, <2>2
<1>8. \A j, k \in 1..Len(outbox') : j # k => outbox'[j].rid # outbox'[k].rid
  <2>1. \A k \in 1..Len(outbox) : outbox[k].rid # job.rid
    BY DEF AskInv, Asked
  <2>2. QED
    BY <1>3, <1>4, <1>5, <2>1 DEF AskInv
<1>9. \A k \in 1..Len(queue') : queue'[k] \in unanswered'
  BY DEF AskInv
<1>10. QED
  BY <1>2, <1>7, <1>8, <1>9 DEF AskInv

(* Take: the oldest request is newer than everything answered so far.       *)
LEMMA TakeAsk == ASSUME IInv, AskInv, Take PROVE AskInv'
<1>1. /\ queue \in Seq(Request) /\ queue # <<>> /\ queue' = Tail(queue) /\ job' = queue[1]
      /\ UNCHANGED <<outbox, unanswered, sent>>
  BY DEF IInv, TypeOK, PipeType, Take, uiVars
<1>2. /\ Len(queue') = Len(queue) - 1 /\ Len(queue) \in Nat \ {0}
      /\ \A k \in 1..Len(queue') : k + 1 \in 1..Len(queue) /\ queue'[k] = queue[k + 1]
  BY <1>1
<1>3. job'.rid = (sent - Len(queue)) + 1 /\ job' \in unanswered
  BY <1>1, <1>2 DEF IInv, JobInv, AskInv
<1>4. \A k \in 1..Len(queue') : queue'[k] \in unanswered'
  BY <1>1, <1>2 DEF AskInv
<1>5. ASSUME NEW k \in 1..Len(outbox') PROVE Asked(outbox[k])'
  <2>1. PICK b \in Reply : b = outbox[k] /\ b.rid \in Nat /\ Asked(b)
    BY <1>1, AskedReply
  <2>2. Asked(b)' /\ outbox'[k] = b
    BY <1>1, <1>2, <1>3, <2>1, AskTypes DEF Asked
  <2>3. QED
    BY <2>2 DEF Asked
<1>6. \A j, k \in 1..Len(outbox') : j # k => outbox'[j].rid # outbox'[k].rid
  BY <1>1 DEF AskInv
<1>7. job' \in unanswered'
  BY <1>1, <1>3
<1>8. QED
  BY <1>4, <1>5, <1>6, <1>7 DEF AskInv

(* rpc_handler gives the new request the next number.                       *)
LEMMA SubmitAsk ==
  ASSUME IInv, AskInv, NEW k \in Kinds, NEW c, Submit(k, c) PROVE AskInv'
<1> DEFINE r == [rid |-> sent + 1, m |-> k.m, conn |-> c, opt |-> k.opt, read |-> k.read]
<1>1. /\ queue \in Seq(Request) /\ queue' = Append(queue, r) /\ sent' = sent + 1
      /\ unanswered' = unanswered \cup {r} /\ UNCHANGED <<outbox, job>>
  BY DEF IInv, TypeOK, PipeType, Submit, wkVars
<1> HIDE DEF r
<1>2. /\ Len(queue') = Len(queue) + 1 /\ Len(queue) \in Nat /\ queue'[Len(queue) + 1] = r
      /\ \A n \in 1..Len(queue) : queue'[n] = queue[n]
  BY <1>1
<1>3. \A n \in 1..Len(queue') : n \in 1..Len(queue) \/ n = Len(queue) + 1
  BY <1>2
<1>4. \A n \in 1..Len(queue') : queue'[n] \in unanswered'
  BY <1>1, <1>2, <1>3 DEF AskInv
<1>5. sent' - Len(queue') = sent - Len(queue)
  BY <1>1, <1>2, AskTypes
<1>6. ASSUME NEW n \in 1..Len(outbox') PROVE Asked(outbox[n])'
  <2>1. PICK b \in Reply : b = outbox[n] /\ Asked(b)
    BY <1>1, AskedReply
  <2>2. Asked(b)' /\ outbox'[n] = b
    BY <1>1, <1>5, <2>1 DEF Asked
  <2>3. QED
    BY <2>2 DEF Asked
<1>7. (job # NoJob => job \in unanswered)' /\ outbox' = outbox
  BY <1>1 DEF AskInv
<1>8. QED
  BY <1>4, <1>6, <1>7 DEF AskInv

(* deliver_rpc_return resolves one promise, and no other call's.            *)
LEMMA DeliverAsk == ASSUME IInv, AskInv, Deliver PROVE AskInv'
<1>1. outbox \in Seq(Reply) /\ outbox # <<>> /\ 1 \in 1..Len(outbox)
  BY DEF IInv, TypeOK, PipeType, Deliver
<1>2. PICK h \in Reply : h = outbox[1] /\ h.rid \in Nat /\ Asked(h)
  BY <1>1, AskedReply
<1>3. /\ h = Head(outbox) /\ outbox' = Tail(outbox)
      /\ unanswered' = {q \in unanswered : q.rid # h.rid} /\ UNCHANGED <<queue, job, sent>>
  BY <1>1, <1>2 DEF Deliver, wkVars
<1>4. /\ Len(outbox') = Len(outbox) - 1 /\ Len(outbox) \in Nat \ {0}
      /\ \A k \in 1..Len(outbox') : k + 1 \in 1..Len(outbox) /\ outbox'[k] = outbox[k + 1]
  BY <1>1, <1>3
<1>5. \A k \in 1..Len(outbox') : outbox'[k].rid # h.rid
  BY <1>1, <1>2, <1>4 DEF AskInv
<1>6. \A k \in 1..Len(queue) : queue[k] \in unanswered'
  <2>1. \A k \in 1..Len(queue) : queue[k].rid = (sent - Len(queue)) + k
    BY DEF IInv, JobInv
  <2>2. \A k \in 1..Len(queue) : queue[k].rid # h.rid
    BY <1>2, <2>1, AskTypes DEF Asked
  <2>3. QED
    BY <1>3, <2>2 DEF AskInv
<1>7. job # NoJob => job \in unanswered'
  BY <1>2, <1>3 DEF AskInv, Asked
<1>8. ASSUME NEW k \in 1..Len(outbox') PROVE Asked(outbox[k])'
  <2>1. PICK b \in Reply : b = outbox[k + 1] /\ Asked(b)
    BY <1>4, AskedReply
  <2>2. outbox'[k] = b /\ b.rid # h.rid
    BY <1>4, <1>5, <2>1
  <2>3. Asked(b)'
    BY <1>3, <2>1, <2>2 DEF Asked
  <2>4. QED
    BY <2>2, <2>3 DEF Asked
<1>9. \A j, k \in 1..Len(outbox') : j # k => outbox'[j].rid # outbox'[k].rid
  BY <1>4 DEF AskInv
<1>10. QED
  BY <1>3, <1>6, <1>7, <1>8, <1>9 DEF AskInv

(* Every step keeps who asked for what.                                     *)
LEMMA NextAsk == IInv /\ AskInv /\ [Next]_vars => AskInv'
<1> SUFFICES ASSUME IInv, AskInv, [Next]_vars PROVE AskInv'
  OBVIOUS
<1>1. CASE UNCHANGED <<unanswered, queue, sent, outbox, job>>
  BY <1>1 DEF AskInv, Asked
<1>2. CASE UiStep
  <2>1. (\E k \in Kinds, c \in {0} \cup known : Submit(k, c)) \/ Deliver
        \/ UNCHANGED <<unanswered, queue, sent, outbox, job>>
    BY <1>2 DEF UiStep, Cancel, CancelLock, CancelDone, CloseWindow, UnloadDrivers, wkVars
  <2>2. QED
    BY <1>1, <2>1, SubmitAsk, DeliverAsk
<1>3. CASE WorkerStep
  <2>1. UNCHANGED <<unanswered, sent>>
    BY <1>3, WorkerKeepsUi DEF uiVars
  <2>2. CASE Take
    BY <2>2, TakeAsk
  <2>3. CASE ~Take
    <3>1. UNCHANGED queue /\ (wpc # "exited" /\ wpc # "idle" => job # NoJob)
      BY <1>3, <2>3 DEF WorkerStep, WorkerExit, UnknownConn, OpenStart, OpenTunnel, OpenConnect,
         OpenStore, OpenNoMemory, RunStart, NextStart, CursorClose, OpBegin, DriverQuery,
         Materialize, OpEnd, TxStart, TxReturn, CallStart, CallReturn, CloseStart,
         CloseDisconnect, CloseRelease, IInv, JobInv
    <3>2. \/ UNCHANGED <<outbox, job>>
          \/ wpc \notin {"idle", "exited"} /\ \E code, conn, h : Answer(code, conn, h)
      <4>1. CASE UnknownConn \/ OpenStore \/ OpenNoMemory \/ CursorClose \/ OpEnd \/ TxReturn
                 \/ CallReturn \/ CloseRelease
        BY <4>1 DEF UnknownConn, OpenStore, OpenNoMemory, CursorClose, OpEnd, TxReturn,
                    CallReturn, CloseRelease, Dispatching
      <4>2. CASE OpenStart \/ OpenTunnel \/ OpenConnect \/ NextStart \/ TxStart
        BY <4>2 DEF OpenStart, OpenTunnel, OpenConnect, NextStart, TxStart, Dispatching, Goto
      <4>3. CASE WorkerExit \/ RunStart \/ OpBegin \/ DriverQuery \/ Materialize \/ CallStart
                 \/ CloseStart \/ CloseDisconnect
        BY <4>3 DEF WorkerExit, RunStart, OpBegin, DriverQuery, Materialize, CallStart,
                    CloseStart, CloseDisconnect, Goto
      <4>4. QED
        BY <1>3, <2>3, <4>1, <4>2, <4>3 DEF WorkerStep
    <3>3. QED
      BY <1>1, <2>1, <3>1, <3>2, AnswerAsk
  <2>4. QED
    BY <2>2, <2>3
<1>4. CASE (\E h \in Rid : SessionDies(h)) \/ Terminated \/ UNCHANGED vars
  BY <1>1, <1>4 DEF SessionDies, Terminated, vars, uiVars, wkVars
<1>5. QED
  BY <1>2, <1>3, <1>4 DEF Next

(* Nobody has asked for anything when the program starts.                   *)
LEMMA InitAsk == Init => AskInv
BY DEF Init, AskInv

(* A worker that has left its loop takes no step, so main may unload.       *)
LEMMA NextShut == IInv /\ ShutInv /\ [Next]_vars => ShutInv'
<1> SUFFICES ASSUME IInv, ShutInv, [Next]_vars PROVE ShutInv'
  OBVIOUS
<1>1. CASE UiStep
  <2>1. UNCHANGED wpc
    BY <1>1 DEF UiStep, Submit, Deliver, Cancel, CancelLock, CancelDone, CloseWindow,
                UnloadDrivers, wkVars
  <2>2. CASE UnloadDrivers
    BY <2>1, <2>2 DEF UnloadDrivers, ShutInv
  <2>3. CASE CancelLock
    <3>1. ui \in [pc : {"idle", "reading", "cancelling", "joining", "unloaded"},
                  conn : Nat, target : Ref, handle : Ref]
      BY DEF IInv, TypeOK, UiType
    <3>2. ui' = UiIdle \/ \E h : ui' = [ui EXCEPT !.pc = "cancelling", !.handle = h]
      BY <2>3 DEF CancelLock
    <3>3. \A h : [ui EXCEPT !.pc = "cancelling", !.handle = h].pc = "cancelling"
      BY <3>1
    <3>4. ui'.pc \in {"cancelling", "idle"}
      <4>1. CASE ui' = UiIdle
        BY <4>1 DEF UiIdle
      <4>2. CASE \E h : ui' = [ui EXCEPT !.pc = "cancelling", !.handle = h]
        <5>1. PICK h : ui' = [ui EXCEPT !.pc = "cancelling", !.handle = h]
          BY <4>2
        <5>2. QED
          BY <3>3, <5>1
      <4>3. QED
        BY <3>2, <4>1, <4>2
    <3>5. QED
      BY <3>4 DEF ShutInv
  <2>4. CASE (\E k \in Kinds, c \in {0} \cup known : Submit(k, c)) \/ Deliver
    BY <2>1, <2>4 DEF Submit, Deliver, ShutInv
  <2>5. CASE (\E r \in unanswered : Cancel(r)) \/ CancelDone \/ CloseWindow
    <3>1. ui'.pc # "unloaded"
      BY <2>5 DEF Cancel, CancelDone, CloseWindow, UiIdle
    <3>2. QED
      BY <3>1 DEF ShutInv
  <2>6. QED
    BY <1>1, <2>2, <2>3, <2>4, <2>5 DEF UiStep
<1>2. CASE WorkerStep
  <2>1. wpc # "exited"
    BY <1>2 DEF WorkerStep, Take, WorkerExit, UnknownConn, OpenStart, OpenTunnel, OpenConnect,
       OpenStore, OpenNoMemory, RunStart, NextStart, CursorClose, OpBegin, DriverQuery,
       Materialize, OpEnd, TxStart, TxReturn, CallStart, CallReturn, CloseStart,
       CloseDisconnect, CloseRelease, Dispatching
  <2>2. QED
    BY <1>2, <2>1, WorkerKeepsUi DEF ShutInv, uiVars
<1>3. CASE (\E h \in Rid : SessionDies(h)) \/ Terminated \/ UNCHANGED vars
  BY <1>3 DEF SessionDies, Terminated, vars, wkVars, uiVars, ShutInv
<1>4. QED
  BY <1>1, <1>2, <1>3 DEF Next

----------------------------------------------------------------------------
(* Every variable keeps its type, in every behaviour of the native side.    *)
THEOREM TypeCorrect == Spec => []TypeOK
<1>1. IInv => TypeOK
  BY DEF IInv
<1>2. QED
  BY <1>1, Invariance, PTL

(* conn/manager.c and the methods: what a slot, or the worker, points to is *)
(* connected, up or open, except what a conn.close has just released.       *)
THEOREM NothingDangles == Spec => []NoDangling
<1>1. IInv => NoDangling
  BY DEF IInv, OwnershipInv
<1>2. QED
  BY <1>1, Invariance, PTL

(* No session, tunnel or result has two owners, so none is freed twice.     *)
THEOREM NothingShared == Spec => []NoSharing
<1>1. IInv => NoSharing
  BY DEF IInv, OwnershipInv
<1>2. QED
  BY <1>1, Invariance, PTL

(* Every error path of conn.open, query.run and query.next frees or stores  *)
(* what it created: nothing open is left without an owner.                  *)
THEOREM NothingLeaks == Spec => []NoLeak
<1>1. IInv => NoLeak
  BY DEF IInv, OwnershipInv
<1>2. QED
  BY <1>1, Invariance, PTL

(* release_slot and the error paths release in the order the objects use    *)
(* each other: result, session, tunnel.                                     *)
THEOREM ReleasedInOrder == Spec => []ReleaseOrder
<1>1. IInv => ReleaseOrder
  BY DEF IInv, OwnershipInv
<1>2. QED
  BY <1>1, Invariance, PTL

(* op_registry.c: the handle op.cancel gives to the driver is that of the   *)
(* statement the worker is running, and it stays so until the hook returns. *)
THEOREM CancelHitsLiveHandle == Spec => []CancelReachesRunningQuery
<1>1. IInv => CancelReachesRunningQuery
  BY DEF IInv
<1>2. QED
  BY <1>1, Invariance, PTL

(* tx_methods.c: in_tx never misses a transaction of tx.begin.              *)
THEOREM FlagNeverMisses == Spec => []TxFlagCoversEngine
<1>1. IInv => TxFlagCoversEngine
  BY DEF IInv, TxInv
<1>2. QED
  BY <1>1, Invariance, PTL

(* tx_methods.c: a tx.begin that reaches the engine finds no transaction.   *)
THEOREM BeginNeverNests == Spec => []NoNestedBegin
<1>1. IInv => NoNestedBegin
  <2>1. SUFFICES ASSUME IInv, wpc = "txcall", job.m = "begin" PROVE engTx[wh] = "none"
    BY DEF NoNestedBegin
  <2>2. PICK k \in Used : Mine = {k} /\ wh = slots[k].handle
    BY <2>1, OnConnData DEF OnConn
  <2>3. QED
    BY <2>1, <2>2 DEF IInv, TxInv, TxFlagCoversEngine, Closing
<1>2. QED
  BY <1>1, Invariance, PTL

(* conn_lost.c: an answer that offers a retry is of a read, as the frontend *)
(* asked for it and still waits for it, on a session that died with no      *)
(* transaction open.                                                        *)
THEOREM RetryIsSafe == Spec => []NoBlindRetry
<1>1. RetryInv /\ AskInv => NoBlindRetry
  BY DEF RetryInv, RetriesSafe, SafeRetry, AskInv, Asked, NoBlindRetry
<1>2. QED
  BY <1>1, RetryInvariance, InitAsk, NextAsk, PTL DEF Spec

(* main: the drivers are unloaded after the worker has left its loop, with  *)
(* no statement in the registry.                                            *)
THEOREM DriversLast == Spec => []DriversOutliveCalls
<1>1. Init => ShutInv
  BY DEF Init, ShutInv, UiIdle
<1>2. IInv /\ ShutInv => DriversOutliveCalls
  BY DEF IInv, ShutInv, DriversOutliveCalls, CancelReachesRunningQuery
<1>3. QED
  BY <1>1, <1>2, NextShut, Invariance, PTL DEF Spec

----------------------------------------------------------------------------
(* The threads implement the service of module RpcService.                  *)

(* A posted answer without the name of its session, which only the proof of *)
(* the promise of a retry uses.                                             *)
Told(a) == [rid |-> a.rid, m |-> a.m, conn |-> a.conn, code |-> a.code,
            inTx |-> a.inTx, retry |-> a.retry]
ToldOf(out) == [k \in 1..Len(out) |-> Told(out[k])]
Tale == {Told(a) : a \in Reply}

(* The answers of the service are as many as the responses posted.          *)
LEMMA ToldSeq ==
  ASSUME NEW out \in Seq(Reply)
  PROVE  ToldOf(out) \in Seq(Tale) /\ Len(ToldOf(out)) = Len(out)
<1>1. Len(out) \in Nat /\ \A k \in 1..Len(out) : out[k] \in Reply
  BY LenProperties, ElementOfSeq
<1>2. ToldOf(out) \in [1..Len(out) -> Tale]
  BY <1>1 DEF ToldOf, Tale
<1>3. QED
  BY <1>1, <1>2, LenProperties DEF ToldOf

(* Posting a response adds one answer.                                      *)
LEMMA ToldAppend ==
  ASSUME NEW out \in Seq(Reply), NEW a \in Reply
  PROVE  ToldOf(Append(out, a)) = Append(ToldOf(out), Told(a))
<1>1. /\ Append(out, a) \in Seq(Reply) /\ Len(Append(out, a)) = Len(out) + 1 /\ Len(out) \in Nat
      /\ Append(out, a)[Len(out) + 1] = a /\ \A k \in 1..Len(out) : Append(out, a)[k] = out[k]
  BY AppendProperties, LenProperties
<1>2. Told(a) \in Tale /\ ToldOf(out) \in Seq(Tale) /\ Len(ToldOf(out)) = Len(out)
      /\ ToldOf(Append(out, a)) \in Seq(Tale) /\ Len(ToldOf(Append(out, a))) = Len(out) + 1
  BY <1>1, ToldSeq DEF Tale
<1>3. /\ Append(ToldOf(out), Told(a)) \in Seq(Tale)
      /\ Len(Append(ToldOf(out), Told(a))) = Len(out) + 1
      /\ Append(ToldOf(out), Told(a))[Len(out) + 1] = Told(a)
      /\ \A k \in 1..Len(out) : Append(ToldOf(out), Told(a))[k] = ToldOf(out)[k]
  BY <1>2, AppendProperties
<1>4. \A k \in 1..(Len(out) + 1) : ToldOf(Append(out, a))[k] = Append(ToldOf(out), Told(a))[k]
  <2> SUFFICES ASSUME NEW k \in 1..(Len(out) + 1)
               PROVE  ToldOf(Append(out, a))[k] = Append(ToldOf(out), Told(a))[k]
    OBVIOUS
  <2>1. ToldOf(Append(out, a))[k] = Told(Append(out, a)[k])
    BY <1>1 DEF ToldOf
  <2>2. CASE k = Len(out) + 1
    BY <1>1, <1>3, <2>1, <2>2
  <2>3. CASE k \in 1..Len(out)
    <3>1. ToldOf(out)[k] = Told(out[k])
      BY <2>3 DEF ToldOf
    <3>2. QED
      BY <1>1, <1>3, <2>1, <2>3, <3>1
  <2>4. Len(out) \in Nat
    BY <1>1
  <2>5. k = Len(out) + 1 \/ k \in 1..Len(out)
    BY <2>4
  <2>6. QED
    BY <2>2, <2>3, <2>5
<1>5. QED
  BY <1>1, <1>2, <1>3, <1>4, SeqEqual

(* Delivering the oldest response takes away the oldest answer.             *)
LEMMA ToldTail ==
  ASSUME NEW out \in Seq(Reply), out # <<>>
  PROVE  ToldOf(out) # <<>> /\ ToldOf(Tail(out)) = Tail(ToldOf(out))
<1>1. /\ Tail(out) \in Seq(Reply) /\ Len(Tail(out)) = Len(out) - 1 /\ Len(out) \in Nat \ {0}
      /\ \A k \in 1..Len(Tail(out)) : Tail(out)[k] = out[k + 1]
  BY HeadTailProperties, LenProperties, EmptySeq
<1>2. /\ ToldOf(out) \in Seq(Tale) /\ Len(ToldOf(out)) = Len(out)
      /\ ToldOf(Tail(out)) \in Seq(Tale) /\ Len(ToldOf(Tail(out))) = Len(out) - 1
  BY <1>1, ToldSeq
<1>3. ToldOf(out) # <<>>
  BY <1>1, <1>2, EmptySeq
<1>4. /\ Tail(ToldOf(out)) \in Seq(Tale) /\ Len(Tail(ToldOf(out))) = Len(out) - 1
      /\ \A k \in 1..(Len(out) - 1) : Tail(ToldOf(out))[k] = ToldOf(out)[k + 1]
  BY <1>2, <1>3, HeadTailProperties
<1>5. \A k \in 1..(Len(out) - 1) : ToldOf(Tail(out))[k] = Tail(ToldOf(out))[k]
  <2> SUFFICES ASSUME NEW k \in 1..(Len(out) - 1)
               PROVE  ToldOf(Tail(out))[k] = Tail(ToldOf(out))[k]
    OBVIOUS
  <2>1. ToldOf(Tail(out))[k] = Told(Tail(out)[k])
    BY <1>1 DEF ToldOf
  <2>2. ToldOf(out)[k + 1] = Told(out[k + 1])
    BY <1>1 DEF ToldOf
  <2>3. QED
    BY <1>1, <1>4, <2>1, <2>2
<1>6. QED
  BY SMTT(30), <1>2, <1>3, <1>4, <1>5, SeqEqual

(* in_tx of a connection, as the service sees it.                           *)
LEMMA FlagOf ==
  ASSUME NoSharing, NEW id
  PROVE  /\ InTx(id) <=> id \in Flags
         /\ id \in LiveIds => SlotOf(id) \in Used /\ slots[SlotOf(id)].id = id
<1>1. ASSUME id \in LiveIds
      PROVE  /\ SlotOf(id) \in Used /\ slots[SlotOf(id)].id = id
             /\ \A i \in Used : slots[i].id = id => i = SlotOf(id)
  <2>1. SlotOf(id) \in Used /\ slots[SlotOf(id)].id = id
    BY <1>1 DEF LiveIds, SlotOf
  <2>2. QED
    BY <2>1 DEF NoSharing
<1>2. Flags \subseteq LiveIds
  BY DEF Flags, LiveIds
<1>3. QED
  BY <1>1, <1>2 DEF InTx, Flags

(* What the service has before it: the request at hand, then the queue.     *)
LEMMA PendingIs ==
  ASSUME IInv
  PROVE  /\ queue \in Seq(Request) /\ Pending \in Seq(Request) /\ outbox \in Seq(Reply)
         /\ (job = NoJob <=> wpc \in {"idle", "exited"})
         /\ job = NoJob => Pending = queue
         /\ job # NoJob => /\ job \in Request /\ Pending = <<job>> \o queue
                           /\ Pending # <<>> /\ Head(Pending) = job /\ Tail(Pending) = queue
<1>1. queue \in Seq(Request) /\ outbox \in Seq(Reply) /\ job \in Request \cup {NoJob}
  BY DEF IInv, TypeOK, PipeType, WorkerType
<1>2. job = NoJob <=> wpc \in {"idle", "exited"}
  BY DEF IInv, JobInv
<1>3. CASE job = NoJob
  BY SMTT(30), <1>1, <1>2, <1>3, ConcatEmptySeq DEF Pending
<1>4. CASE job # NoJob
  <2>1. PICK j \in Request : j = job
    BY <1>1, <1>4
  <2>2. <<j>> \in Seq(Request) /\ Len(<<j>>) = 1 /\ <<j>>[1] = j
    OBVIOUS
  <2>3. PICK p : p = <<j>> \o queue
    OBVIOUS
  <2>4. /\ p \in Seq(Request) /\ Len(p) = 1 + Len(queue) /\ Len(queue) \in Nat
        /\ \A i \in 1..(1 + Len(queue)) : p[i] = IF i <= 1 THEN j ELSE queue[i - 1]
    BY <1>1, <2>2, <2>3, ConcatProperties, LenProperties
  <2>5. p # <<>> /\ Head(p) = j
    BY <2>4, EmptySeq, HeadTailProperties
  <2>6. Tail(p) = queue
    <3>1. /\ Tail(p) \in Seq(Request) /\ Len(Tail(p)) = Len(queue)
          /\ \A i \in 1..Len(queue) : Tail(p)[i] = p[i + 1]
      BY <2>4, <2>5, HeadTailProperties
    <3>2. \A i \in 1..Len(queue) : Tail(p)[i] = queue[i]
      BY <2>4, <3>1
    <3>3. QED
      BY <1>1, <3>1, <3>2, SeqEqual
  <2>7. Pending = p
    BY <1>4, <2>1, <2>3 DEF Pending
  <2>8. QED
    BY <1>1, <1>2, <1>4, <2>1, <2>3, <2>4, <2>5, <2>6, <2>7
<1>5. QED
  BY <1>3, <1>4

(* A step of the native side, as the service takes it.                      *)
ServiceStep == Service!Next \/ UNCHANGED Service!svars

(* The worker answers the call the service has first.                       *)
Serving == Pending # <<>> /\ Head(Pending) = job /\ Pending' = Tail(Pending)

(* The refinement mapping shows the responses in that way.                  *)
LEMMA AnswersTold == Answers = ToldOf(outbox)
BY DEF Answers, ToldOf, Told

(* Steps the service does not see.                                          *)
LEMMA Unseen ==
  ASSUME UNCHANGED <<Pending, outbox, LiveIds, Flags, nextId>> PROVE ServiceStep
<1>1. UNCHANGED <<Answers, Flags>>
  BY DEF Answers
<1>2. QED
  BY <1>1 DEF ServiceStep, Service!svars, Flags

(* Steps that only move the worker along are of that kind.                  *)
LEMMA QuietStep ==
  ASSUME SvcInv, UNCHANGED <<job, txBefore, queue, outbox, known, nextId, LiveIds, Flags>>,
         wst' \in {"ok", "conn", "query", "other"}
  PROVE  SvcInv' /\ ServiceStep
<1>1. UNCHANGED Pending
  BY DEF Pending
<1>2. FlagRead'
  BY DEF SvcInv, FlagRead
<1>3. Given'
  BY DEF SvcInv, Given
<1>4. QED
  BY <1>1, <1>2, <1>3, Unseen DEF SvcInv

(* So are those that leave the manager alone.                               *)
LEMMA SlotsQuiet ==
  ASSUME SvcInv, UNCHANGED <<job, txBefore, queue, outbox, known, mgrVars>>,
         wst' \in {"ok", "conn", "query", "other"}
  PROVE  SvcInv' /\ ServiceStep
<1>1. UNCHANGED <<nextId, LiveIds, Flags>>
  BY DEF mgrVars, LiveIds, Flags, Used
<1>2. QED
  BY <1>1, QuietStep

(* Setting a cursor changes no connection and no flag.                      *)
LEMMA CursorSame ==
  ASSUME IInv, NEW k \in Used, NEW c \in Ref,
         slots' = [slots EXCEPT ![k].cursor = c], UNCHANGED <<cap, nextId>>
  PROVE  LiveIds' = LiveIds /\ Flags' = Flags
<1>1. /\ Used' = Used /\ LiveIds' = LiveIds
      /\ \A i \in Used : slots'[i].id = slots[i].id /\ slots'[i].inTx = slots[i].inTx
  BY CursorUpdate DEF IInv, TypeOK
<1>2. Flags' = Flags
  BY <1>1 DEF Flags
<1>3. QED
  BY <1>1, <1>2

(* A posted answer is the one the service gives to its first call.          *)
LEMMA AnswerServed ==
  ASSUME IInv, SvcInv, wpc \notin {"idle", "exited"},
         NEW code \in Codes, NEW conn \in Nat, NEW h \in Ref, Answer(code, conn, h),
         UNCHANGED <<queue, known>>, nextId' \in Nat, nextId <= nextId',
         job.m = "open" /\ code = "ok" => conn < nextId'
  PROVE  SvcInv' /\ Serving /\ Service!Reply(conn, code)
<1> DEFINE lost == code = "conn" /\ job.m # "open"
           a == [rid |-> job.rid, m |-> job.m, conn |-> conn, code |-> code,
                 inTx |-> lost /\ txBefore, retry |-> RetrySafe(lost), handle |-> h]
<1>1. /\ queue \in Seq(Request) /\ outbox \in Seq(Reply) /\ job # NoJob /\ job \in Request
      /\ Pending # <<>> /\ Head(Pending) = job /\ Tail(Pending) = queue
  BY PendingIs
<1>2. /\ outbox' = Append(outbox, a) /\ job' = NoJob /\ wst' = "ok"
      /\ wpc' = "idle"
  BY DEF Answer
<1>3. a \in Reply
  BY <1>1, AnswerData DEF Reply, RetrySafe, IInv, TypeOK, WorkerType, Request
<1>4. Pending' = queue
  <2>1. queue' = queue
    OBVIOUS
  <2>2. queue' \in Seq(Request)
    BY <1>1, <2>1
  <2>3. Pending' = <<>> \o queue'
    BY <1>2 DEF Pending
  <2>4. QED
    BY <1>1, <2>1, <2>3, ConcatEmptySeq
<1>5. Serving
  BY <1>1, <1>4 DEF Serving
<1>6. Told(a) = Service!Ans(job, conn, code)
  <2>1. txBefore <=> (job.m # "open" /\ job.conn \in Flags)
    BY <1>1 DEF SvcInv, FlagRead
  <2>2. txBefore \in BOOLEAN
    BY DEF IInv, TypeOK, WorkerType
  <2>3. /\ (lost /\ txBefore) = (lost /\ job.conn \in Flags)
        /\ RetrySafe(lost) = (lost /\ job.conn \notin Flags /\ job.m = "run" /\ job.read)
    BY <2>1, <2>2 DEF RetrySafe
  <2>4. Service!Ans(job, conn, code) =
          [rid |-> job.rid, m |-> job.m, conn |-> conn, code |-> code,
           inTx |-> lost /\ job.conn \in Flags,
           retry |-> lost /\ job.conn \notin Flags /\ job.m = "run" /\ job.read]
    BY DEF Service!Ans, Flags
  <2>5. QED
    BY <2>3, <2>4 DEF Told
<1> HIDE DEF a, lost
<1>7. Service!Reply(conn, code)
  <2>1. ToldOf(Append(outbox, a)) = Append(ToldOf(outbox), Told(a))
    BY <1>1, <1>3, ToldAppend
  <2>2. Answers' = ToldOf(outbox)'
    BY DEF Answers, ToldOf, Told
  <2>3. ToldOf(outbox)' = ToldOf(Append(outbox, a))
    BY <1>2 DEF ToldOf
  <2>4. Answers' = Append(Answers, Service!Ans(job, conn, code))
    BY <1>6, <2>1, <2>2, <2>3, AnswersTold
  <2>5. QED
    BY <1>1, <2>4 DEF Service!Reply
<1>8. Given'
  <2>1. /\ Len(outbox) \in Nat /\ Len(outbox') = Len(outbox) + 1 /\ outbox'[Len(outbox) + 1] = a
        /\ \A k \in 1..Len(outbox) : outbox'[k] = outbox[k] /\ outbox[k] \in Reply
    BY <1>1, <1>2, <1>3
  <2>2. a.m = job.m /\ a.code = code /\ a.conn = conn
    BY DEF a
  <2>3. nextId \in Nat /\ known \subseteq Nat
    BY DEF IInv, TypeOK, MgrType, UiType
  <2>4. \A c \in known' : c < nextId'
    BY <2>3 DEF SvcInv, Given
  <2>5. ASSUME NEW k \in 1..Len(outbox'), outbox'[k].m = "open", outbox'[k].code = "ok"
        PROVE  outbox'[k].conn < nextId'
    <3>1. CASE k = Len(outbox) + 1
      BY <2>1, <2>2, <2>5, <3>1
    <3>2. CASE k \in 1..Len(outbox)
      <4>1. outbox[k].conn \in Nat /\ outbox[k].conn < nextId
        BY <2>1, <2>5, <3>2 DEF SvcInv, Given, Reply
      <4>2. QED
        BY <2>1, <2>3, <3>2, <4>1
    <3>3. QED
      BY <2>1, <3>1, <3>2
  <2>6. QED
    BY <2>4, <2>5 DEF Given
<1>9. SvcInv'
  BY <1>2, <1>8 DEF SvcInv, FlagRead
<1>10. QED
  BY <1>5, <1>7, <1>9

(* An open is served as the service opens.                                  *)
LEMMA ServeOpen ==
  ASSUME Serving, job.m = "open", Service!Open(job) PROVE ServiceStep
BY DEF Serving, ServiceStep, Service!Next, Service!Serve

(* A call that names no open connection.                                    *)
LEMMA ServeUnknown ==
  ASSUME Serving, job.m # "open", job.conn \notin LiveIds,
         Service!Reply(job.conn, "notFound"), Service!Same
  PROVE  ServiceStep
BY DEF Serving, ServiceStep, Service!Next, Service!Serve

(* A call on an open connection, by its method.                             *)
LEMMA ServeKnown ==
  ASSUME Serving, job.m # "open", job.conn \in LiveIds,
         \/ job.m = "close" /\ Service!Close(job)
         \/ job.m = "begin" /\ Service!Begin(job)
         \/ job.m = "commit" /\ Service!Commit(job)
         \/ job.m = "rollback" /\ Service!Rollback(job)
         \/ job.m \notin {"close", "begin", "commit", "rollback"} /\ Service!Work(job)
  PROVE  ServiceStep
<1>1. /\ Pending # <<>> /\ Pending' = Tail(Pending) /\ Head(Pending) = job
      /\ Head(Pending).m # "open" /\ Head(Pending).conn \in LiveIds
  BY DEF Serving
<1>2. Service!Close(job) => Service!Close(Head(Pending))
  BY <1>1 DEF Service!Close, Service!Reply
<1>3. Service!Begin(job) => Service!Begin(Head(Pending))
  BY <1>1 DEF Service!Begin, Service!Reply
<1>4. Service!Commit(job) => Service!Commit(Head(Pending))
  BY <1>1 DEF Service!Commit, Service!Reply
<1>5. Service!Rollback(job) => Service!Rollback(Head(Pending))
  BY <1>1 DEF Service!Rollback, Service!Reply
<1>6. Service!Work(job) => Service!Work(Head(Pending))
  BY <1>1 DEF Service!Work, Service!Reply
<1>7. /\ Pending # <<>> /\ Pending' = Tail(Pending)
      /\ Head(Pending).m # "open" /\ Head(Pending).conn \in LiveIds
      /\ \/ Head(Pending).m = "close" /\ Service!Close(Head(Pending))
         \/ Head(Pending).m = "begin" /\ Service!Begin(Head(Pending))
         \/ Head(Pending).m = "commit" /\ Service!Commit(Head(Pending))
         \/ Head(Pending).m = "rollback" /\ Service!Rollback(Head(Pending))
         \/ Head(Pending).m \notin {"close", "begin", "commit", "rollback"}
            /\ Service!Work(Head(Pending))
  BY <1>1, <1>2, <1>3, <1>4, <1>5, <1>6
<1>8. Service!Serve
  BY <1>7 DEF Service!Serve
<1>9. QED
  BY <1>8 DEF ServiceStep, Service!Next

----------------------------------------------------------------------------
(* The UI thread: calls come in and answers are collected.                  *)
LEMMA SubmitServed ==
  ASSUME IInv, SvcInv, NEW k \in Kinds, NEW c \in {0} \cup known, Submit(k, c)
  PROVE  SvcInv' /\ ServiceStep
<1> DEFINE r == [rid |-> sent + 1, m |-> k.m, conn |-> c, opt |-> k.opt, read |-> k.read]
<1>1. /\ r \in Request /\ queue' = Append(queue, r) /\ r.conn = c
      /\ UNCHANGED <<job, txBefore, wst, known, outbox, slots, cap, nextId>>
  <2>1. sent \in Nat /\ sent + 1 \in Rid /\ c \in Nat
    BY ConstantsAssumption DEF Submit, IInv, TypeOK, UiType, Rid
  <2>2. k.m \in AllMethods /\ k.opt \in BOOLEAN /\ k.read \in BOOLEAN
    BY ConstantsAssumption DEF Kind
  <2>3. r \in Request
    BY <2>1, <2>2 DEF Request
  <2>4. QED
    BY <2>3 DEF Submit, wkVars, mgrVars
<1>2. c \in Nat /\ c <= nextId - 1 /\ nextId \in Nat
  <2>1. c = 0 \/ (c \in known /\ known \subseteq Nat)
    BY DEF IInv, TypeOK, UiType
  <2>2. nextId \in Nat \ {0} /\ \A d \in known : d < nextId
    BY DEF SvcInv, Given, IInv, TypeOK, MgrType
  <2>3. QED
    BY <2>1, <2>2
<1> HIDE DEF r
<1>3. Pending \in Seq(Request) /\ queue \in Seq(Request)
  BY PendingIs
<1>4. Pending' = Append(Pending, r)
  <2>1. CASE job = NoJob
    <3>1. Pending = queue
      BY <2>1, PendingIs
    <3>2. Pending' = <<>> \o queue'
      BY <1>1, <2>1 DEF Pending
    <3>3. queue' \in Seq(Request)
      BY <1>1, <1>3
    <3>4. Pending' = queue'
      BY <3>2, <3>3, ConcatEmptySeq
    <3>5. QED
      BY <1>1, <3>1, <3>4
  <2>2. CASE job # NoJob
    <3>1. job \in Request /\ Pending = <<job>> \o queue
      BY <2>2, PendingIs
    <3>2. Pending' = <<job>> \o Append(queue, r)
      BY <1>1, <2>2 DEF Pending
    <3>3. PICK j \in Request : j = job
      BY <3>1
    <3>4. <<j>> \in Seq(Request)
      OBVIOUS
    <3>5. <<j>> \o Append(queue, r) = Append(<<j>> \o queue, r)
      <4>1. Append(queue, r) = queue \o <<r>> /\ <<r>> \in Seq(Request)
        BY <1>1, <1>3, AppendIsConcat
      <4>2. <<j>> \o queue \in Seq(Request)
        BY <1>3, <3>4, ConcatProperties
      <4>3. Append(<<j>> \o queue, r) = (<<j>> \o queue) \o <<r>>
        BY <1>1, <4>2, AppendIsConcat
      <4>4. QED
        BY <1>3, <3>4, <4>1, <4>3, ConcatAssociative
    <3>6. QED
      BY <3>1, <3>2, <3>3, <3>5
  <2>3. QED
    BY <2>1, <2>2
<1>5. /\ Len(Pending') = Len(Pending) + 1 /\ SubSeq(Pending', 1, Len(Pending)) = Pending
      /\ Pending'[Len(Pending) + 1] = r
  <2>1. PICK p \in Seq(Request) : p = Pending
    BY <1>3
  <2>2. /\ Append(p, r) \in Seq(Request) /\ Len(Append(p, r)) = Len(p) + 1 /\ Len(p) \in Nat
        /\ Append(p, r)[Len(p) + 1] = r /\ \A i \in 1..Len(p) : Append(p, r)[i] = p[i]
    BY <1>1, AppendProperties, LenProperties
  <2>3. SubSeq(Append(p, r), 1, Len(p)) = p
    <3>1. /\ SubSeq(Append(p, r), 1, Len(p)) \in Seq(Request)
          /\ Len(SubSeq(Append(p, r), 1, Len(p))) = Len(p)
          /\ \A i \in 1..Len(p) : SubSeq(Append(p, r), 1, Len(p))[i] = Append(p, r)[i]
      BY <2>2, SubSeqProperties
    <3>2. QED
      BY <2>2, <3>1, SeqEqual
  <2>4. QED
    BY <1>4, <2>1, <2>2, <2>3
<1>6. UNCHANGED <<Answers, LiveIds, Flags, nextId>>
  BY <1>1 DEF Answers, LiveIds, Flags, Used
<1>7. Service!Call
  BY <1>1, <1>2, <1>5, <1>6 DEF Service!Call, Flags
<1>8. SvcInv'
  BY <1>1, <1>6 DEF SvcInv, FlagRead, Given
<1>9. QED
  BY <1>7, <1>8 DEF ServiceStep, Service!Next

(* The oldest response is collected.                                        *)
LEMMA DeliverServed ==
  ASSUME IInv, SvcInv, Deliver PROVE SvcInv' /\ ServiceStep
<1>1. /\ outbox \in Seq(Reply) /\ outbox # <<>> /\ outbox' = Tail(outbox)
      /\ UNCHANGED <<queue, job, txBefore, wst, slots, cap, nextId>>
  BY PendingIs DEF Deliver, wkVars, mgrVars
<1>2. UNCHANGED <<Pending, LiveIds, Flags, nextId>>
  BY <1>1 DEF Pending, LiveIds, Flags, Used
<1>3. Answers # <<>> /\ Answers' = Tail(Answers)
  <2>1. Answers' = ToldOf(Tail(outbox))
    BY <1>1 DEF Answers, ToldOf, Told
  <2>2. QED
    BY <1>1, <2>1, ToldTail, AnswersTold
<1>4. Service!Collect
  BY <1>2, <1>3 DEF Service!Collect, Flags
<1>5. Given'
  <2>1. /\ Len(outbox) \in Nat /\ Len(outbox) >= 1 /\ Len(outbox') = Len(outbox) - 1
        /\ Head(outbox) = outbox[1]
        /\ \A k \in 1..Len(outbox') : k + 1 \in 1..Len(outbox) /\ outbox'[k] = outbox[k + 1]
    <3>1. Len(outbox) \in Nat \ {0}
      BY <1>1, LenProperties, EmptySeq
    <3>2. Len(outbox') = Len(outbox) - 1 /\ Head(outbox) = outbox[1]
          /\ \A k \in 1..Len(outbox') : outbox'[k] = outbox[k + 1]
      BY <1>1, HeadTailProperties
    <3>3. \A k \in 1..Len(outbox') : k + 1 \in 1..Len(outbox)
      BY <3>1, <3>2
    <3>4. QED
      BY <3>1, <3>2, <3>3
  <2>2. \A c \in known' : c < nextId
    BY <2>1 DEF Deliver, SvcInv, Given
  <2>3. \A k \in 1..Len(outbox') :
          outbox'[k].m = "open" /\ outbox'[k].code = "ok" => outbox'[k].conn < nextId
    BY <2>1 DEF SvcInv, Given
  <2>4. QED
    BY <1>1, <2>2, <2>3 DEF Given
<1>6. SvcInv'
  BY <1>1, <1>2, <1>5 DEF SvcInv, FlagRead
<1>7. QED
  BY <1>4, <1>6 DEF ServiceStep, Service!Next

(* Cancels, the shutdown and the server's own doing.                        *)
LEMMA OutsideServed ==
  ASSUME SvcInv,
         \/ \E r \in unanswered : Cancel(r)
         \/ CancelLock \/ CancelDone \/ CloseWindow \/ UnloadDrivers \/ WorkerExit
         \/ \E h \in Rid : SessionDies(h)
         \/ Terminated \/ UNCHANGED vars
  PROVE  SvcInv' /\ ServiceStep
<1>1. UNCHANGED <<job, txBefore, queue, outbox, known, wst, mgrVars>>
  BY DEF Cancel, CancelLock, CancelDone, CloseWindow, UnloadDrivers, WorkerExit, SessionDies,
         Terminated, vars, Goto, uiVars, wkVars
<1>2. wst' \in {"ok", "conn", "query", "other"}
  BY <1>1 DEF SvcInv
<1>3. QED
  BY <1>1, <1>2, SlotsQuiet

----------------------------------------------------------------------------
(* The worker.                                                              *)

(* The dequeue moves the call from the queue to the worker's hands.         *)
LEMMA TakeServed == ASSUME IInv, SvcInv, Take PROVE SvcInv' /\ ServiceStep
<1>1. /\ queue \in Seq(Request) /\ queue # <<>> /\ job = NoJob /\ Pending = queue
      /\ job' = Head(queue) /\ queue' = Tail(queue)
      /\ UNCHANGED <<outbox, known, wst, slots, cap, nextId>>
      /\ (txBefore' <=> (job'.m # "open" /\ InTx(job'.conn)))
  BY PendingIs DEF Take, uiVars, mgrVars
<1>2. UNCHANGED <<LiveIds, Flags, nextId, outbox>>
  BY <1>1 DEF LiveIds, Flags, Used
<1>3. PICK q \in Seq(Request) : q = queue
  BY <1>1
<1>4. PICK j \in Request : j = Head(q)
  BY <1>1, <1>3, HeadTailProperties
<1>5. <<j>> \o Tail(q) = q
  <2>1. /\ Tail(q) \in Seq(Request) /\ Len(Tail(q)) = Len(q) - 1 /\ Len(q) \in Nat \ {0}
        /\ \A i \in 1..Len(Tail(q)) : Tail(q)[i] = q[i + 1]
        /\ j = q[1]
    BY <1>1, <1>3, <1>4, HeadTailProperties, LenProperties, EmptySeq
  <2>2. <<j>> \in Seq(Request) /\ Len(<<j>>) = 1 /\ <<j>>[1] = j
    OBVIOUS
  <2>3. PICK p : p = <<j>> \o Tail(q)
    OBVIOUS
  <2>4. /\ p \in Seq(Request) /\ Len(p) = 1 + Len(Tail(q))
        /\ \A i \in 1..(1 + Len(Tail(q))) : p[i] = IF i <= 1 THEN j ELSE Tail(q)[i - 1]
    BY <2>1, <2>2, <2>3, ConcatProperties
  <2>5. Len(p) = Len(q)
    BY <2>1, <2>4
  <2>6. \A i \in 1..Len(q) : p[i] = q[i]
    <3>1. SUFFICES ASSUME NEW i \in 1..Len(q) PROVE p[i] = q[i]
      OBVIOUS
    <3>2. CASE i = 1
      BY <2>1, <2>4, <3>2
    <3>3. CASE i # 1
      <4>1. i - 1 \in 1..Len(Tail(q)) /\ (i - 1) + 1 = i /\ i \in 1..(1 + Len(Tail(q))) /\ ~(i <= 1)
        BY <2>1, <3>3
      <4>2. QED
        BY <2>1, <2>4, <4>1
    <3>4. QED
      BY <3>2, <3>3
  <2>7. QED
    BY <2>3, <2>4, <2>5, <2>6, SeqEqual
<1>6. j # NoJob
  BY DEF NoJob, Request, Rid
<1>7. Pending' = Pending
  <2>1. Pending' = <<j>> \o Tail(q)
    BY <1>1, <1>3, <1>4, <1>6 DEF Pending
  <2>2. QED
    BY <1>1, <1>3, <1>5, <2>1
<1>8. InTx(j.conn) <=> j.conn \in Flags
  BY FlagOf DEF IInv, OwnershipInv
<1>9. FlagRead'
  <2>1. txBefore' <=> (j.m # "open" /\ j.conn \in Flags)
    BY <1>1, <1>3, <1>4, <1>8
  <2>2. job' = j /\ Flags' = Flags
    BY <1>1, <1>2, <1>3, <1>4
  <2>3. QED
    BY <2>1, <2>2 DEF FlagRead
<1>10. SvcInv'
  BY <1>1, <1>9 DEF SvcInv, Given
<1>11. QED
  BY <1>2, <1>7, <1>10, Unseen

(* An answer that leaves the connections as they were.                      *)
LEMMA PlainAnswer ==
  ASSUME IInv, SvcInv, wpc \notin {"idle", "exited"},
         NEW code \in Codes, NEW conn \in Nat, NEW h \in Ref, Answer(code, conn, h),
         UNCHANGED <<queue, known, LiveIds, Flags, nextId>>,
         ~(job.m = "open" /\ code = "ok")
  PROVE  SvcInv' /\ Serving /\ Service!Reply(conn, code) /\ Service!Same
<1>1. nextId' \in Nat /\ nextId <= nextId'
  BY DEF IInv, TypeOK, MgrType
<1>2. SvcInv' /\ Serving /\ Service!Reply(conn, code)
  BY <1>1, AnswerServed
<1>3. Service!Same
  BY DEF Service!Same, Flags
<1>4. QED
  BY <1>2, <1>3

(* A conn.open that fails.                                                  *)
LEMMA OpenFails ==
  ASSUME IInv, SvcInv, wpc \notin {"idle", "exited"}, job.m = "open",
         NEW code \in {"conn", "other"}, Answer(code, 0, 0),
         UNCHANGED <<queue, known, mgrVars>>
  PROVE  SvcInv' /\ ServiceStep
<1>1. UNCHANGED <<LiveIds, Flags, nextId>> /\ code \in Codes /\ 0 \in Nat /\ 0 \in Ref /\ code # "ok"
  BY AnswerData DEF mgrVars, LiveIds, Flags, Used
<1>2. SvcInv' /\ Serving /\ Service!Reply(0, code) /\ Service!Same
  BY <1>1, PlainAnswer
<1>3. Service!Open(job)
  BY <1>2 DEF Service!Open
<1>4. QED
  BY <1>2, <1>3, ServeOpen

(* query.*, schema.* and row.*: a plain answer about an open connection.    *)
LEMMA WorkAnswered ==
  ASSUME IInv, SvcInv, wpc \notin {"idle", "exited"}, job.conn \in LiveIds,
         job.m \notin {"open", "close", "begin", "commit", "rollback"},
         NEW code \in {"ok", "conn", "query", "other", "notFound"}, NEW h \in Ref,
         code = "notFound" => job.m = "next",
         Answer(code, job.conn, h),
         UNCHANGED <<queue, known, LiveIds, Flags, nextId>>
  PROVE  SvcInv' /\ ServiceStep
<1>1. PICK conn \in Nat : conn = job.conn
  BY AnswerData
<1>2. code \in Codes /\ Answer(code, conn, h)
  BY <1>1, AnswerData
<1>3. SvcInv' /\ Serving /\ Service!Reply(conn, code) /\ Service!Same
  BY <1>2, PlainAnswer
<1>4. Service!Work(job)
  BY <1>1, <1>3 DEF Service!Work, Service!Reply
<1>5. QED
  BY <1>3, <1>4, ServeKnown

(* conn.open goes on, or takes down what it has and fails.                  *)
LEMMA OpenServed ==
  ASSUME IInv, SvcInv, OpenStart \/ OpenTunnel \/ OpenConnect \/ OpenNoMemory
  PROVE  SvcInv' /\ ServiceStep
<1>1. /\ wpc \notin {"idle", "exited"} /\ job.m = "open" /\ UNCHANGED <<queue, known, mgrVars>>
  BY DEF OpenStart, OpenTunnel, OpenConnect, OpenNoMemory, uiVars, IInv, JobInv
<1>2. CASE \E code \in {"conn", "other"} : Answer(code, 0, 0)
  BY <1>1, <1>2, OpenFails
<1>3. CASE UNCHANGED <<job, txBefore, outbox, wst>>
  <2>1. wst' \in {"ok", "conn", "query", "other"}
    BY <1>3 DEF SvcInv
  <2>2. QED
    BY <1>1, <1>3, <2>1, SlotsQuiet
<1>4. QED
  BY <1>2, <1>3 DEF OpenStart, OpenTunnel, OpenConnect, OpenNoMemory, Goto

(* conn.open: the slot gets an id nobody had.                               *)
LEMMA OpenStoreServed == ASSUME IInv, SvcInv, OpenStore PROVE SvcInv' /\ ServiceStep
<1> DEFINE s == [id |-> nextId, handle |-> wh, tunnel |-> wt, cursor |-> 0, inTx |-> FALSE]
<1>1. /\ wpc = "store" /\ job.m = "open" /\ Store(s) /\ nextId' = nextId + 1
      /\ Answer("ok", nextId, wh) /\ UNCHANGED <<queue, known>>
  BY DEF OpenStore, uiVars, IInv, JobInv
<1>2. /\ nextId \in Nat /\ nextId # 0 /\ wh \in Ref /\ wt \in Ref /\ 0 \in Ref /\ MgrType
      /\ "ok" \in Codes
  BY AnswerData DEF IInv, TypeOK, MgrType, WorkerType
<1>3. s \in Slot /\ s.id = nextId /\ s.inTx = FALSE
  BY <1>2 DEF Slot
<1> HIDE DEF s
<1>4. PICK n \in 1..cap' : /\ n \notin Used /\ slots'[n] = s /\ Used' = Used \cup {n}
                           /\ \A i \in Used : slots'[i] = slots[i]
  BY <1>1, <1>2, <1>3, StoreShape
<1>5. LiveIds' = LiveIds \cup {nextId} /\ Flags' = Flags
  BY <1>3, <1>4 DEF LiveIds, Flags
<1>6. nextId' \in Nat /\ nextId <= nextId' /\ nextId < nextId' /\ nextId = (nextId - 1) + 1
      /\ nextId' - 1 = (nextId - 1) + 1
  BY <1>1, <1>2
<1>7. PICK id \in Nat : id = nextId
  BY <1>2
<1>8. SvcInv' /\ Serving /\ Service!Reply(id, "ok")
  <2>1. Answer("ok", id, wh) /\ id < nextId' /\ wpc \notin {"idle", "exited"}
    BY <1>1, <1>6, <1>7
  <2>2. PICK h \in Ref : h = wh
    BY <1>2
  <2>3. Answer("ok", id, h)
    BY <2>1, <2>2 DEF Answer
  <2>4. QED
    BY <1>1, <1>2, <1>6, <2>1, <2>3, AnswerServed
<1>9. Service!Open(job)
  BY <1>5, <1>6, <1>7, <1>8 DEF Service!Open, Service!Reply, Flags
<1>10. QED
  BY <1>1, <1>8, <1>9, ServeOpen

(* A call on a connection that is not open changes nothing.                 *)
LEMMA UnknownServed == ASSUME IInv, SvcInv, UnknownConn PROVE SvcInv' /\ ServiceStep
<1>1. /\ wpc = "dispatch" /\ job.m # "open" /\ job.conn \notin LiveIds
      /\ Answer("notFound", job.conn, 0) /\ UNCHANGED <<queue, known, mgrVars>>
  BY DEF UnknownConn, uiVars
<1>2. UNCHANGED <<LiveIds, Flags, nextId>>
  BY <1>1 DEF mgrVars, LiveIds, Flags, Used
<1>3. PICK conn \in Nat : conn = job.conn
  BY <1>1, AnswerData
<1>4. Answer("notFound", conn, 0) /\ "notFound" \in Codes /\ 0 \in Ref
  BY <1>1, <1>3, AnswerData
<1>5. SvcInv' /\ Serving /\ Service!Reply(conn, "notFound") /\ Service!Same
  BY <1>1, <1>2, <1>4, PlainAnswer
<1>6. Service!Reply(job.conn, "notFound")
  BY <1>3, <1>5 DEF Service!Reply
<1>7. QED
  BY <1>1, <1>5, <1>6, ServeUnknown

(* A statement starts, and a page or an error comes back.                   *)
LEMMA StatementServed ==
  ASSUME IInv, SvcInv,
         RunStart \/ NextStart \/ CursorClose \/ OpBegin \/ DriverQuery \/ Materialize \/ OpEnd
  PROVE  SvcInv' /\ ServiceStep
<1>1. 0 \in Ref /\ wh \in Ref /\ wr \in Ref /\ UNCHANGED <<queue, known, cap, nextId>>
  BY AnswerData DEF RunStart, NextStart, CursorClose, OpBegin, DriverQuery, Materialize, OpEnd,
       uiVars, mgrVars, IInv, TypeOK, WorkerType
<1>2. CASE OpBegin \/ DriverQuery \/ Materialize
  <2>1. UNCHANGED <<job, txBefore, outbox, mgrVars>>
    BY <1>2 DEF OpBegin, DriverQuery, Materialize, Goto
  <2>2. wst' \in {"ok", "conn", "query", "other"}
    BY <1>2 DEF OpBegin, DriverQuery, Materialize, SvcInv
  <2>3. QED
    BY <1>1, <2>1, <2>2, SlotsQuiet
<1>3. CASE RunStart \/ NextStart \/ CursorClose
  <2>1. /\ wpc = "dispatch" /\ job.conn \in LiveIds /\ job.m \in {"run", "next", "cursorClose"}
    BY <1>3 DEF RunStart, NextStart, CursorClose, Dispatching
  <2>2. PICK k \in Used : k = SlotOf(job.conn)
    BY <2>1, MySlotData
  <2>3. LiveIds' = LiveIds /\ Flags' = Flags
    <3>1. CASE slots' = slots
      BY <1>1, <3>1 DEF LiveIds, Flags, Used
    <3>2. CASE ClearCursor
      <4>1. slots' = [slots EXCEPT ![k].cursor = 0]
        BY <2>2, <3>2 DEF ClearCursor
      <4>2. QED
        BY <1>1, <4>1, CursorSame
    <3>3. QED
      BY <1>3, <3>1, <3>2 DEF RunStart, NextStart, CursorClose
  <2>4. CASE UNCHANGED <<job, txBefore, outbox, wst>>
    <3>1. wst' \in {"ok", "conn", "query", "other"}
      BY <2>4 DEF SvcInv
    <3>2. QED
      BY <1>1, <2>3, <2>4, <3>1, QuietStep
  <2>5. CASE \/ job.m = "next" /\ Answer("notFound", job.conn, 0)
             \/ Answer("ok", job.conn, 0)
    <3>1. wpc \notin {"idle", "exited"}
          /\ job.m \notin {"open", "close", "begin", "commit", "rollback"}
      BY <2>1
    <3>2. QED
      BY <1>1, <2>1, <2>3, <2>5, <3>1, WorkAnswered
  <2>6. QED
    BY <1>3, <2>4, <2>5 DEF RunStart, NextStart, CursorClose, Goto, Dispatching
<1>4. CASE OpEnd
  <2>1. /\ wpc = "end" /\ Answer(wst, job.conn, wh) /\ wst \in {"ok", "conn", "query", "other"}
        /\ job.conn \in LiveIds /\ job.m \in {"run", "next"}
    BY <1>4 DEF OpEnd, SvcInv, IInv, JobInv, OnConn
  <2>2. PICK k \in Used : k = SlotOf(job.conn)
    BY <2>1, OnConnData DEF OnConn
  <2>3. PICK c \in Ref : c = wr
    BY <1>1
  <2>4. slots' = slots \/ slots' = [slots EXCEPT ![k].cursor = c]
    BY <1>4, <2>2, <2>3 DEF OpEnd
  <2>5. LiveIds' = LiveIds /\ Flags' = Flags
    <3>1. CASE slots' = slots
      BY <1>1, <3>1 DEF LiveIds, Flags, Used
    <3>2. CASE slots' = [slots EXCEPT ![k].cursor = c]
      BY <1>1, <3>2, CursorSame
    <3>3. QED
      BY <2>4, <3>1, <3>2
  <2>6. PICK st \in {"ok", "conn", "query", "other"}, h \in Ref : st = wst /\ h = wh
    BY <1>1, <2>1
  <2>7. Answer(st, job.conn, h)
    BY <2>1, <2>6 DEF Answer
  <2>8. /\ wpc \notin {"idle", "exited"} /\ st # "notFound"
        /\ job.m \notin {"open", "close", "begin", "commit", "rollback"}
    BY <2>1
  <2>9. QED
    BY <1>1, <2>1, <2>5, <2>7, <2>8, WorkAnswered
<1>5. QED
  BY <1>2, <1>3, <1>4

(* Setting in_tx of a connection changes that flag alone.                   *)
LEMMA FlagUpdate ==
  ASSUME IInv, NEW k \in Used, NEW b \in BOOLEAN,
         slots' = [slots EXCEPT ![k].inTx = b], UNCHANGED cap
  PROVE  /\ LiveIds' = LiveIds
         /\ b => Flags' = Flags \cup {slots[k].id}
         /\ ~b => Flags' = Flags \ {slots[k].id}
<1>1. slots \in [1..cap -> Slot] /\ k \in 1..cap
  BY DEF IInv, TypeOK, MgrType, Used
<1>2. /\ slots[k] \in Slot /\ slots'[k] = [slots[k] EXCEPT !.inTx = b]
      /\ \A i \in 1..cap : i # k => slots'[i] = slots[i]
  BY <1>1
<1>3. slots'[k].id = slots[k].id /\ slots'[k].inTx = b
  BY <1>2 DEF Slot
<1>4. \A i \in 1..cap : slots'[i].id = slots[i].id
  BY <1>2, <1>3
<1>5. Used' = Used
  BY <1>4 DEF Used
<1>6. LiveIds' = LiveIds
  BY <1>4, <1>5 DEF LiveIds, Used
<1>7. \A i \in Used : i \in 1..cap /\ (slots[i].id = slots[k].id => i = k)
  BY DEF IInv, OwnershipInv, NoSharing, Used
<1>8. Flags' = {slots[i].id : i \in {j \in Used : slots'[j].inTx}}
  BY <1>4, <1>5 DEF Flags, Used
<1>9. ASSUME b PROVE Flags' = Flags \cup {slots[k].id}
  <2>1. {j \in Used : slots'[j].inTx} = {j \in Used : slots[j].inTx} \cup {k}
    BY <1>2, <1>3, <1>7, <1>9
  <2>2. QED
    BY <1>8, <2>1 DEF Flags
<1>10. ASSUME ~b PROVE Flags' = Flags \ {slots[k].id}
  BY SMTT(30), <1>2, <1>3, <1>7, <1>8, <1>10 DEF Flags
<1>11. QED
  BY <1>6, <1>9, <1>10

(* tx.*: the flag follows the call, and a begin inside a transaction is     *)
(* refused.                                                                 *)
LEMMA TxStartServed == ASSUME IInv, SvcInv, TxStart PROVE SvcInv' /\ ServiceStep
<1>1. /\ wpc = "dispatch" /\ job.m \in TxMethods /\ job.conn \in LiveIds
      /\ UNCHANGED <<queue, known, mgrVars>>
  BY DEF TxStart, uiVars
<1>2. UNCHANGED <<LiveIds, Flags, nextId>>
  BY <1>1 DEF mgrVars, LiveIds, Flags, Used
<1>3. CASE BeginRefused
  <2>1. PICK conn \in Nat : conn = job.conn
    BY <1>1, AnswerData
  <2>2. /\ job.m = "begin" /\ Answer("query", conn, 0) /\ "query" \in Codes /\ 0 \in Ref
        /\ wpc \notin {"idle", "exited"}
    BY <1>1, <1>3, <2>1, AnswerData DEF TxStart, BeginRefused
  <2>3. SvcInv' /\ Serving /\ Service!Reply(conn, "query") /\ Service!Same
    BY <1>1, <1>2, <2>2, PlainAnswer
  <2>4. Service!Begin(job)
    BY <2>1, <2>3 DEF Service!Begin, Service!Reply
  <2>5. QED
    BY <1>1, <2>2, <2>3, <2>4, ServeKnown
<1>4. CASE ~BeginRefused
  <2>1. UNCHANGED <<job, txBefore, outbox, wst>> /\ wst' \in {"ok", "conn", "query", "other"}
    BY <1>4 DEF TxStart, Goto, SvcInv
  <2>2. QED
    BY <1>1, <2>1, SlotsQuiet
<1>5. QED
  BY <1>3, <1>4

(* in_tx follows the call exactly when the service says so.                 *)
LEMMA TxReturnServed == ASSUME IInv, SvcInv, TxReturn PROVE SvcInv' /\ ServiceStep
<1>1. /\ wpc = "txcall" /\ job.m \in TxMethods /\ job.conn \in LiveIds
      /\ UNCHANGED <<queue, known, cap, nextId>>
  BY DEF TxReturn, uiVars, IInv, JobInv, OnConn
<1>2. PICK k \in Used : /\ k = SlotOf(job.conn) /\ slots[k].id = job.conn /\ Mine = {k}
                        /\ job.conn \in Nat /\ slots[k] \in Slot
  BY <1>1, OnConnData DEF OnConn
<1>3. PICK st \in {"ok", "query", "conn"} :
        /\ Answer(st, job.conn, wh)
        /\ slots' = IF FlagFollows(st) THEN [slots EXCEPT ![k].inTx = (job.m = "begin")] ELSE slots
  BY <1>2 DEF TxReturn
<1>4. PICK conn \in Nat, h \in Ref, b \in BOOLEAN : conn = job.conn /\ h = wh /\ b = (job.m = "begin")
  BY <1>2, AnswerData
<1>5. /\ nextId' \in Nat /\ nextId <= nextId' /\ st \in Codes
      /\ wpc \notin {"idle", "exited"} /\ job.m # "open" /\ Answer(st, conn, h)
  BY <1>1, <1>3, <1>4, AnswerData DEF IInv, TypeOK, MgrType, TxMethods
<1>6. SvcInv' /\ Serving /\ Service!Reply(conn, st)
  BY <1>1, <1>5, AnswerServed
<1>7. job.m = "begin" => conn \notin Flags
  <2>1. job.m = "begin" => ~slots[k].inTx
    BY <1>1, <1>2 DEF IInv, TxInv
  <2>2. \A i \in Used : slots[i].id = conn => i = k
    BY <1>2, <1>4 DEF IInv, OwnershipInv, NoSharing
  <2>3. QED
    BY <2>1, <2>2 DEF Flags
<1>8. CASE FlagFollows(st)
  <2>1. slots' = [slots EXCEPT ![k].inTx = b]
    BY <1>3, <1>4, <1>8
  <2>2. /\ LiveIds' = LiveIds
        /\ b => Flags' = Flags \cup {conn}
        /\ ~b => Flags' = Flags \ {conn}
    BY <1>1, <1>2, <1>4, <2>1, FlagUpdate
  <2>3. CASE job.m = "begin"
    <3>1. st = "ok" /\ b
      BY <1>4, <1>8, <2>3 DEF FlagFollows
    <3>2. Service!Begin(job)
      BY <1>1, <1>4, <1>6, <1>7, <2>2, <2>3, <3>1 DEF Service!Begin, Service!Reply, Flags
    <3>3. QED
      BY <1>1, <1>5, <1>6, <2>3, <3>2, ServeKnown
  <2>4. CASE job.m = "commit"
    <3>1. st = "ok" /\ ~b
      BY <1>4, <1>8, <2>4 DEF FlagFollows
    <3>2. Service!Commit(job)
      BY <1>1, <1>4, <1>6, <2>2, <3>1 DEF Service!Commit, Service!Reply, Flags
    <3>3. QED
      BY <1>1, <1>5, <1>6, <2>4, <3>2, ServeKnown
  <2>5. CASE job.m = "rollback"
    <3>1. ~b
      BY <1>4, <2>5
    <3>2. Service!Rollback(job)
      BY <1>1, <1>4, <1>6, <2>2, <3>1 DEF Service!Rollback, Service!Reply, Flags
    <3>3. QED
      BY <1>1, <1>5, <1>6, <2>5, <3>2, ServeKnown
  <2>6. QED
    BY <1>1, <2>3, <2>4, <2>5 DEF TxMethods
<1>9. CASE ~FlagFollows(st)
  <2>1. slots' = slots /\ st # "ok" /\ job.m # "rollback"
    BY <1>3, <1>9 DEF FlagFollows
  <2>2. LiveIds' = LiveIds /\ Flags' = Flags /\ Service!Same
    BY <1>1, <2>1 DEF LiveIds, Flags, Used, Service!Same
  <2>3. CASE job.m = "begin"
    <3>1. Service!Begin(job)
      BY <1>4, <1>6, <1>7, <2>1, <2>2, <2>3 DEF Service!Begin, Service!Reply, Flags
    <3>2. QED
      BY <1>1, <1>5, <1>6, <2>3, <3>1, ServeKnown
  <2>4. CASE job.m = "commit"
    <3>1. Service!Commit(job)
      BY <1>4, <1>6, <2>1, <2>2 DEF Service!Commit, Service!Reply
    <3>2. QED
      BY <1>1, <1>5, <1>6, <2>4, <3>1, ServeKnown
  <2>5. QED
    BY <1>1, <2>1, <2>3, <2>4 DEF TxMethods
<1>10. QED
  BY <1>8, <1>9

(* schema.* and row.*.                                                      *)
LEMMA CallServed == ASSUME IInv, RetryInv, SvcInv, CallStart \/ CallReturn PROVE SvcInv' /\ ServiceStep
<1>1. CASE CallStart
  <2>1. /\ UNCHANGED <<job, txBefore, queue, outbox, known, mgrVars>>
        /\ wst' \in {"ok", "conn", "query", "other"}
    BY <1>1 DEF CallStart, Goto, uiVars, SvcInv
  <2>2. QED
    BY <2>1, SlotsQuiet
<1>2. CASE CallReturn
  <2>1. PICK st \in {"ok", "conn", "query", "other"} : Answer(st, job.conn, wh)
    BY <1>2 DEF CallReturn
  <2>2. PICK h \in Ref : h = wh
    BY AnswerData
  <2>3. /\ wpc = "call" /\ job.m = "call" /\ job.conn \in LiveIds
        /\ UNCHANGED <<queue, known, mgrVars>>
    BY <1>2 DEF CallReturn, uiVars, RetryInv, RetryLocal, IInv, JobInv, OnConn
  <2>4. UNCHANGED <<LiveIds, Flags, nextId>>
    BY <2>3 DEF mgrVars, LiveIds, Flags, Used
  <2>5. /\ wpc \notin {"idle", "exited"} /\ st # "notFound" /\ Answer(st, job.conn, h)
        /\ job.m \notin {"open", "close", "begin", "commit", "rollback"}
    BY <2>1, <2>2, <2>3
  <2>6. QED
    BY <2>3, <2>4, <2>5, WorkAnswered
<1>3. QED
  BY <1>1, <1>2

(* conn.close: the connection is gone when its answer is posted.            *)
LEMMA CloseServed ==
  ASSUME IInv, SvcInv, CloseStart \/ CloseDisconnect PROVE SvcInv' /\ ServiceStep
<1>1. /\ UNCHANGED <<job, txBefore, queue, outbox, known, cap, nextId>>
      /\ wst' \in {"ok", "conn", "query", "other"} /\ 0 \in Ref
  BY AnswerData DEF CloseStart, CloseDisconnect, Goto, uiVars, mgrVars, SvcInv
<1>2. CASE CloseDisconnect
  BY <1>1, <1>2, SlotsQuiet DEF CloseDisconnect
<1>3. CASE CloseStart
  <2>1. PICK k \in Used : k = SlotOf(job.conn)
    BY <1>3, MySlotData DEF CloseStart, Dispatching
  <2>2. slots' = [slots EXCEPT ![k].cursor = 0]
    BY <1>3, <2>1 DEF CloseStart, ClearCursor
  <2>3. LiveIds' = LiveIds /\ Flags' = Flags
    BY <1>1, <2>2, CursorSame
  <2>4. QED
    BY <1>1, <2>3, QuietStep
<1>4. QED
  BY <1>2, <1>3

(* release_slot takes the id and its flag away together.                    *)
LEMMA CloseReleaseServed ==
  ASSUME IInv, SvcInv, CloseLocal, CloseRelease PROVE SvcInv' /\ ServiceStep
<1>1. /\ wpc = "untunnel" /\ job.m = "close" /\ job.conn \in LiveIds
      /\ UNCHANGED <<queue, known, cap, nextId>> /\ Answer("ok", job.conn, 0)
  BY DEF CloseRelease, uiVars, IInv, JobInv, OnConn, CloseLocal
<1>2. PICK k \in Used : /\ k = SlotOf(job.conn) /\ slots[k].id = job.conn
                        /\ job.conn \in Nat /\ slots[k] \in Slot
  BY <1>1, OnConnData DEF OnConn
<1>3. PICK conn \in Nat : conn = job.conn
  BY <1>2
<1>4. slots' = [slots EXCEPT ![k] = Released(slots[k])]
  BY <1>2 DEF CloseRelease
<1>5. k \in 1..cap /\ slots \in [1..cap -> Slot]
  BY <1>2 DEF Used, IInv, TypeOK, MgrType
<1>6. Released(slots[k]).id = 0
  BY DEF Released, FreeSlot
<1>7. slots'[k].id = 0 /\ \A i \in 1..cap : i # k => slots'[i] = slots[i]
  BY <1>4, <1>5, <1>6
<1>8. Used' = Used \ {k} /\ \A i \in Used' : slots'[i] = slots[i] /\ i \in Used /\ i # k
  BY <1>1, <1>7 DEF Used
<1>9. \A i \in Used : slots[i].id = conn => i = k
  BY <1>2, <1>3 DEF IInv, OwnershipInv, NoSharing
<1>10. LiveIds' = LiveIds \ {conn} /\ Flags' = Flags \ {conn}
  <2>1. LiveIds' = {slots[i].id : i \in Used \ {k}}
    BY <1>8 DEF LiveIds
  <2>2. Flags' = {slots[i].id : i \in {j \in Used \ {k} : slots[j].inTx}}
    BY <1>8 DEF Flags
  <2>3. k \in Used /\ slots[k].id = conn /\ \A i \in Used : slots[i].id = conn <=> i = k
    BY <1>2, <1>3, <1>9
  <2>4. LiveIds' = LiveIds \ {conn}
    BY <2>1, <2>3 DEF LiveIds
  <2>5. Flags' = Flags \ {conn}
    <3>1. \A i \in {j \in Used : slots[j].inTx} : slots[i].id # conn <=> i # k
      BY <2>3
    <3>2. {j \in Used \ {k} : slots[j].inTx} = {j \in Used : slots[j].inTx} \ {k}
      OBVIOUS
    <3>3. QED
      BY <2>2, <3>1, <3>2 DEF Flags
  <2>6. QED
    BY <2>4, <2>5
<1>11. /\ nextId' \in Nat /\ nextId <= nextId' /\ "ok" \in Codes /\ 0 \in Ref
       /\ wpc \notin {"idle", "exited"} /\ job.m # "open" /\ Answer("ok", conn, 0)
  BY <1>1, <1>3, AnswerData DEF IInv, TypeOK, MgrType
<1>12. SvcInv' /\ Serving /\ Service!Reply(conn, "ok")
  BY <1>1, <1>11, AnswerServed
<1>13. Service!Close(job)
  BY <1>1, <1>3, <1>10, <1>12 DEF Service!Close, Service!Reply, Flags
<1>14. QED
  BY <1>1, <1>12, <1>13, ServeKnown

(* The worker's points after a driver is disconnected belong to conn.close. *)
LEMMA NextCloseLocal == ASSUME IInv, CloseLocal, [Next]_vars PROVE CloseLocal'
<1>1. CASE CloseStart
  BY <1>1 DEF CloseStart, Dispatching, Goto, CloseLocal
<1>2. CASE CloseDisconnect
  BY <1>2 DEF CloseDisconnect, Goto, CloseLocal
<1>3. CASE WorkerStep /\ ~CloseStart /\ ~CloseDisconnect
  <2>1. wpc' \notin {"disconnect", "untunnel"}
    BY <1>3 DEF WorkerStep, Take, WorkerExit, UnknownConn, OpenStart, OpenTunnel, OpenConnect,
         OpenStore, OpenNoMemory, RunStart, NextStart, CursorClose, OpBegin, DriverQuery,
         Materialize, OpEnd, TxStart, TxReturn, CallStart, CallReturn, CloseRelease,
         Goto, Answer
  <2>2. QED
    BY <2>1 DEF CloseLocal
<1>4. CASE UiStep \/ (\E h \in Rid : SessionDies(h)) \/ Terminated \/ UNCHANGED vars
  <2>1. UNCHANGED <<wpc, job>>
    BY <1>4 DEF UiStep, Submit, Deliver, Cancel, CancelLock, CancelDone, CloseWindow,
         UnloadDrivers, SessionDies, Terminated, vars, wkVars
  <2>2. QED
    BY <2>1 DEF CloseLocal
<1>5. QED
  BY <1>1, <1>2, <1>3, <1>4 DEF Next

(* Every step of the threads is a step of the service, or none.             *)
LEMMA NextServed ==
  ASSUME IInv, RetryInv, SvcInv, CloseLocal, [Next]_vars PROVE SvcInv' /\ ServiceStep
<1>1. CASE UiStep
  BY <1>1, SubmitServed, DeliverServed, OutsideServed DEF UiStep
<1>2. CASE WorkerStep
  BY <1>2, TakeServed, OutsideServed, UnknownServed, OpenServed, OpenStoreServed,
     StatementServed, TxStartServed, TxReturnServed, CallServed, CloseServed,
     CloseReleaseServed
  DEF WorkerStep
<1>3. CASE (\E h \in Rid : SessionDies(h)) \/ Terminated \/ UNCHANGED vars
  BY <1>3, OutsideServed
<1>4. QED
  BY <1>1, <1>2, <1>3 DEF Next

(* The program starts as the service does, with nothing.                    *)
LEMMA InitServed == Init => SvcInv /\ CloseLocal /\ Service!Init
<1> SUFFICES ASSUME Init PROVE SvcInv /\ CloseLocal /\ Service!Init
  OBVIOUS
<1>1. SvcInv /\ CloseLocal
  BY DEF Init, SvcInv, CloseLocal, FlagRead, Given
<1>2. Used = {}
  BY DEF Init, Used
<1>3. LiveIds = {} /\ Flags = {} /\ nextId - 1 = 0
  BY <1>2 DEF Init, LiveIds, Flags
<1>4. Pending = <<>>
  <2>1. Pending = <<>> \o <<>>
    BY DEF Init, Pending
  <2>2. <<>> \o <<>> = <<>>
    BY ConcatEmptySeq, EmptySeq
  <2>3. QED
    BY <2>1, <2>2
<1>5. Answers = <<>>
  <2>1. outbox = <<>> /\ outbox \in Seq(Reply)
    BY InitIInv DEF Init, IInv, TypeOK, PipeType
  <2>2. ToldOf(outbox) \in Seq(Tale) /\ Len(ToldOf(outbox)) = 0
    BY <2>1, ToldSeq
  <2>3. QED
    BY <2>2, AnswersTold, EmptySeq
<1>6. QED
  BY <1>1, <1>3, <1>4, <1>5 DEF Service!Init, Flags

(* rpc_handler, rpc_worker_loop and deliver_rpc_return, with everything the *)
(* methods do in between, are one first-in first-out service: a call takes  *)
(* effect at once when its answer is posted, in the order the calls were    *)
(* made, and each is answered once.                                         *)
THEOREM ThreadsAreOneService == Spec => ServiceSpec
<1>1. Init => IInv /\ RetryInv /\ SvcInv /\ CloseLocal /\ Service!Init
  BY InitIInv, InitRetry, InitServed
<1>2. ASSUME IInv, RetryInv, SvcInv, CloseLocal, [Next]_vars
      PROVE  (IInv /\ RetryInv /\ SvcInv /\ CloseLocal)' /\ ServiceStep
  BY <1>2, NextIInv, NextRetry, NextCloseLocal, NextServed
<1>3. ServiceStep => [Service!Next]_Service!svars
  BY DEF ServiceStep
<1>4. Spec => [](IInv /\ RetryInv /\ SvcInv /\ CloseLocal)
  BY <1>1, <1>2, PTL DEF Spec
<1>5. QED
  BY <1>1, <1>2, <1>3, <1>4, PTL DEF Spec, ServiceSpec, Service!Spec
=============================================================================
