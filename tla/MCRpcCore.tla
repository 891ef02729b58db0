----------------------------- MODULE MCRpcCore -----------------------------
(* Small instances of RpcCore: the kinds of call each run lets the frontend *)
(* make.                                                                    *)
EXTENDS RpcCoreInv

K(m, opt, read) == [m |-> m, opt |-> opt, read |-> read]

(* Sessions, tunnels and cursors.                                           *)
SessionKinds == {K("open", TRUE, FALSE), K("close", FALSE, FALSE), K("run", TRUE, TRUE),
                 K("next", FALSE, FALSE), K("cursorClose", FALSE, FALSE)}

(* Every kind of call.                                                      *)
AllKinds == Kind

----------------------------------------------------------------------------
(* What the documents and comments claim of the native side, and the code   *)
(* does not do.                                                             *)

(* docs/IPC.md 413-417: "since a connection runs one query at a time the    *)
(* connId is enough", and a cancel for a query that has already finished is *)
(* answered canceled: false.  No driver is told to cancel on behalf of a    *)
(* statement whose answer the worker has already posted.                    *)
FinishedQueryIsNotCanceled ==
  ui.pc = "cancelling" => \A k \in 1..Len(outbox) : outbox[k].rid # ui.target
=============================================================================
