----------------------------- MODULE RpcService -----------------------------
(***************************************************************************)
(* What the native side promises the frontend, whatever its threads do: a  *)
(* first-in first-out service.  Each call takes effect at one instant, in  *)
(* the order the calls were made, and is answered once, in that order; a    *)
(* connection id is given out once and means nothing after its conn.close;  *)
(* the transaction flag of a connection follows tx.begin, tx.commit and     *)
(* tx.rollback alone; and the connLost data of an answer describes the      *)
(* connection as it was when the call took effect.                          *)
(***************************************************************************)
EXTENDS Naturals, Sequences

VARIABLES
  calls,    \* calls not yet answered, oldest first
  answers,  \* answers the frontend has not collected, oldest first
  open,     \* ids of the open connections
  inTx,     \* those with a transaction of tx.begin
  issued    \* the last id given out

svars == <<calls, answers, open, inTx, issued>>

Ans(r, conn, code) ==
  LET lost == code = "conn" /\ r.m # "open" IN
  [rid |-> r.rid, m |-> r.m, conn |-> conn, code |-> code,
   inTx |-> lost /\ r.conn \in inTx,
   retry |-> lost /\ r.conn \notin inTx /\ r.m = "run" /\ r.read]

Codes == {"ok", "conn", "query", "notFound", "other"}

Init == calls = <<>> /\ answers = <<>> /\ open = {} /\ inTx = {} /\ issued = 0

(* A call reaches the service; it names a connection that was given out.    *)
Call ==
  /\ Len(calls') = Len(calls) + 1 /\ SubSeq(calls', 1, Len(calls)) = calls
  /\ LET r == calls'[Len(calls) + 1] IN r.conn <= issued
  /\ UNCHANGED <<answers, open, inTx, issued>>

Collect == answers # <<>> /\ answers' = Tail(answers) /\ UNCHANGED <<calls, open, inTx, issued>>

Reply(conn, code) == answers' = Append(answers, Ans(Head(calls), conn, code))
Same == UNCHANGED <<open, inTx, issued>>

Open(r) ==
  \/ /\ Reply(issued + 1, "ok")
     /\ issued' = issued + 1 /\ open' = open \cup {issued + 1} /\ UNCHANGED inTx
  \/ \E code \in {"conn", "other"} : Reply(0, code) /\ Same

Close(r) == Reply(r.conn, "ok") /\ open' = open \ {r.conn} /\ inTx' = inTx \ {r.conn}
            /\ UNCHANGED issued

Begin(r) ==
  \/ /\ r.conn \notin inTx /\ Reply(r.conn, "ok")
     /\ inTx' = inTx \cup {r.conn} /\ UNCHANGED <<open, issued>>
  \/ Reply(r.conn, "query") /\ Same
  \/ r.conn \notin inTx /\ Reply(r.conn, "conn") /\ Same

Commit(r) ==
  \/ Reply(r.conn, "ok") /\ inTx' = inTx \ {r.conn} /\ UNCHANGED <<open, issued>>
  \/ \E code \in {"conn", "query"} : Reply(r.conn, code) /\ Same

Rollback(r) ==
  \E code \in {"ok", "conn", "query"} :
    Reply(r.conn, code) /\ inTx' = inTx \ {r.conn} /\ UNCHANGED <<open, issued>>

(* query.*, schema.*, row.*: no connection opens, closes or changes its flag.*)
Work(r) ==
  \/ \E code \in {"ok", "conn", "query", "other"} : Reply(r.conn, code) /\ Same
  \/ r.m = "next" /\ Reply(r.conn, "notFound") /\ Same

Serve ==
  /\ calls # <<>> /\ calls' = Tail(calls)
  /\ LET r == Head(calls) IN
     IF r.m = "open" THEN Open(r)
     ELSE IF r.conn \notin open THEN Reply(r.conn, "notFound") /\ Same
     ELSE \/ r.m = "close" /\ Close(r)
          \/ r.m = "begin" /\ Begin(r)
          \/ r.m = "commit" /\ Commit(r)
          \/ r.m = "rollback" /\ Rollback(r)
          \/ r.m \notin {"close", "begin", "commit", "rollback"} /\ Work(r)

Next == Call \/ Serve \/ Collect

Spec == Init /\ [][Next]_svars
=============================================================================
