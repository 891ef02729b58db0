----------------------------- MODULE Reconnect -----------------------------
(***************************************************************************)
(* One saved connection of the frontend: connecting, disconnecting, a      *)
(* session that dies, its replacement by itself, the one re-send of a call *)
(* and the consent a protected connection asks for before a write.         *)
(*                                                                         *)
(* transport.call sends every request; when an answer says the session     *)
(* died it waits for the listener of App.tsx, which may open a session in  *)
(* its place (replaceSession).  A timer tries again by itself.  As in      *)
(* module Paging, a request is served at the moment its answer is          *)
(* delivered, oldest first (RpcService).                                   *)
(***************************************************************************)
EXTENDS Naturals, Sequences, FiniteSets, SequencesExt, Subsequences

CONSTANTS
  MaxSess,    \* bound: sessions ever opened
  MaxCalls,   \* bound: calls the user and the keep-alive make
  MaxDeaths,  \* bound: sessions the server drops
  MaxMoves,   \* bound: times the user connects, reconnects or disconnects
  Kinds,      \* the kinds of call made
  Modes,      \* safe modes the saved connection may have
  Patient     \* the user leaves a connection that is reconnecting alone

AllKinds == {"read", "probe", "write", "row", "begin", "typedBegin",
             "editBegin", "rollback"}
Writes == {"write", "row"}          \* requestWrites: what the guard stops
RetrySafe == {"read", "probe"}      \* retry_safe: query.run proved a read

ASSUME ConstantsAssumption ==
  /\ MaxSess \in Nat \ {0} /\ MaxCalls \in Nat
  /\ MaxDeaths \in Nat /\ MaxMoves \in Nat
  /\ Kinds \subseteq AllKinds
  /\ Modes \subseteq {"none", "confirm", "readOnly"}
  /\ Patient \in BOOLEAN

VARIABLES
  mode,        \* safeMode of the saved connection
  entry,       \* its element of openConns, or NoEntry
  connecting,  \* connectingId() # null: onConnect is under way
  guard,       \* guards: protection per session
  consent,     \* consent: confirmed actions under way per session
  uiTx,        \* txs[connId].open
  repl,        \* replacing: NotReplaced, Pending, or the session that took over
  waiters,     \* calls awaiting a pending replacement, oldest first
  calls,       \* every call made, with what became of it
  queue,       \* requests not yet answered, oldest first
  core,        \* slots of the core and the server's side of each session
  heir,        \* history: the session adopted in place of each session
  deaths, moves

page == <<entry, connecting, guard, consent, uiTx, repl, waiters>>
vars == <<mode, page, calls, queue, core, heir, deaths, moves>>

Sess == 1..MaxSess
Calls == 1..Len(calls)
NotReplaced == 0           \* `replacing` has no entry for the session
Pending == MaxSess + 1     \* or a promise that has not resolved
NoEntry == [conn |-> 0, lost |-> FALSE, reconn |-> FALSE, retry |-> FALSE]
Opened(s) == [conn |-> s, lost |-> FALSE, reconn |-> FALSE, retry |-> FALSE]

(* A slot: flag is in_tx, eng the transaction at the server, lostTx that a  *)
(* transaction died with the session.                                       *)
Unused == [st |-> "none", flag |-> FALSE, eng |-> FALSE, lostTx |-> FALSE]

Open(k, dead) == [m |-> "open", s |-> dead, k |-> k, c |-> 0]
Close(s, k) == [m |-> "close", s |-> s, k |-> k, c |-> 0]
Send(c, s) == [m |-> "call", s |-> s, k |-> "call", c |-> c]

(* The next connId of the core's manager; ids are never used twice.         *)
Fresh == {s \in Sess : core[s].st = "none" /\ \A r \in Sess : core[r].st = "none" => s <= r}

Init ==
  /\ mode \in Modes
  /\ entry = NoEntry /\ connecting = FALSE
  /\ guard = [s \in Sess |-> "none"] /\ consent = [s \in Sess |-> 0]
  /\ uiTx = [s \in Sess |-> FALSE] /\ repl = [s \in Sess |-> NotReplaced]
  /\ waiters = <<>> /\ calls = <<>> /\ queue = <<>>
  /\ core = [s \in Sess |-> Unused]
  /\ heir = [s \in Sess |-> 0]
  /\ deaths = 0 /\ moves = 0

----------------------------------------------------------------------------
(* What a call leaves when it returns.                                      *)

ReleasedNever(F) == consent                                      \* mutant

(* withConfirmedWrites, finally: the scopes of the finished calls end.      *)
Released(F) ==
  [s \in Sess |-> consent[s] -
     Cardinality({c \in F : calls[c].home = s /\ calls[c].asked = "scope"
                            /\ calls[c].st # "asking"})]

(* The indicator after tx.begin and tx.rollback, whose answers edit.ts      *)
(* drops; W are the calls that return, in order.                            *)
Indicated(W) ==
  [s \in Sess |->
     LET mine == {i \in DOMAIN W : calls[W[i]].home = s
                                   /\ calls[W[i]].kind \in {"begin", "rollback"}}
     IN  IF mine = {} THEN uiTx[s]
         ELSE calls[W[CHOOSE i \in mine : \A j \in mine : j <= i]].kind = "begin"]

Ended(F, out) ==
  [c \in Calls |-> IF c \in F THEN [calls[c] EXCEPT !.st = "done", !.out = out]
                   ELSE calls[c]]

MayRetryAnything(c) == ~calls[c].retried                          \* mutant

(* mayRetry, the re-send of call(): once, and only what is proved safe.     *)
MayRetry(c) == calls[c].kind \in RetrySafe /\ ~calls[c].retried

MayReconnectByFlag(inTx, s) == ~inTx                              \* mutant

(* mayReconnect: not when a transaction would die unnoticed.                *)
MayReconnect(inTx, s) == ~inTx /\ ~uiTx[s]

MarkedLostOnly(s, retry) ==                                       \* mutant
  IF entry.conn = s THEN [entry EXCEPT !.lost = TRUE, !.retry = retry] ELSE entry

(* markLost: nothing when the connection has another session by now.        *)
MarkedLost(s, retry) ==
  IF entry.conn = s
  THEN [conn |-> s, lost |-> TRUE, reconn |-> FALSE, retry |-> retry]
  ELSE entry

(* closeConnection: the guard goes before the call is sent.                 *)
Unguarded(s) == [guard EXCEPT ![s] = "none"]

GuardedNot(s) == guard                                            \* mutant

(* setConnGuard on a session that has just been opened.                     *)
Guarded(s) == [guard EXCEPT ![s] = mode]

----------------------------------------------------------------------------
(* The user: connect, reconnect, disconnect.                                *)

Connect ==
  /\ ~connecting /\ entry = NoEntry /\ moves < MaxMoves
  /\ connecting' = TRUE /\ moves' = moves + 1
  /\ queue' = Append(queue, Open("connect", 0))
  /\ UNCHANGED <<mode, entry, guard, consent, uiTx, repl, waiters, calls, core,
                 heir, deaths>>

(* A session is being opened in place of a dead one.  The flag the page      *)
(* shows, entry.reconn, does not always tell.                               *)
Reopening == \E i \in DOMAIN queue : queue[i].m = "open" /\ queue[i].k # "connect"

(* onConnect(c, true): «Reconectar» closes the session it has first.        *)
Reconnect ==
  /\ ~connecting /\ entry # NoEntry /\ moves < MaxMoves
  /\ Patient => ~Reopening
  /\ connecting' = TRUE /\ moves' = moves + 1
  /\ guard' = Unguarded(entry.conn)
  /\ queue' = Append(queue, Close(entry.conn, "connect"))
  /\ UNCHANGED <<mode, entry, consent, uiTx, repl, waiters, calls, core, heir, deaths>>

(* disconnect: with a transaction open the user is asked first, and comes   *)
(* here once it is settled.                                                 *)
Disconnect ==
  /\ entry # NoEntry /\ moves < MaxMoves
  /\ Patient => ~Reopening
  /\ entry.lost \/ ~uiTx[entry.conn]
  /\ moves' = moves + 1
  /\ guard' = Unguarded(entry.conn)
  /\ queue' = Append(queue, Close(entry.conn, "disconnect"))
  /\ UNCHANGED <<mode, entry, connecting, consent, uiTx, repl, waiters, calls,
                 core, heir, deaths>>

(* The answer to conn.close, which never says the session is lost.  Both    *)
(* callers then drop the entry of the saved connection, whatever session it *)
(* has by now.                                                              *)
ClosedAnswered ==
  /\ queue # <<>> /\ Head(queue).m = "close"
  /\ LET q == Head(queue) IN
     /\ core' = [core EXCEPT ![q.s].st = "closed"]
     /\ entry' = IF q.k = "none" THEN entry ELSE NoEntry
     /\ queue' = IF q.k = "connect" THEN Append(Tail(queue), Open("connect", 0))
                 ELSE Tail(queue)
  /\ UNCHANGED <<mode, connecting, guard, consent, uiTx, repl, waiters, calls,
                 heir, deaths, moves>>

----------------------------------------------------------------------------
(* A call of the user, of a panel or of the keep-alive.                     *)

New(kind, st, asked, out) ==
  [kind |-> kind, st |-> st, asked |-> asked, out |-> out, home |-> entry.conn,
   retried |-> FALSE, runs |-> 0]

(* activity: requests not answered, and rows whose question is not.         *)
InFlight(s) ==
  \/ \E i \in DOMAIN queue : queue[i].m # "open" /\ queue[i].s = s
  \/ \E c \in Calls : calls[c].st = "asking" /\ calls[c].asked = "row" /\ calls[c].home = s

(* keepAliveDue: never on a connection with a call in flight.  A second     *)
(* BEGIN is refused by the editor, and a grid is not edited inside the      *)
(* user's transaction (planStatement, txEditBlocked).                       *)
MayMake(kind) ==
  /\ entry # NoEntry /\ Len(calls) < MaxCalls
  /\ kind = "probe" => ~entry.reconn /\ ~InFlight(entry.conn)
  /\ kind \in {"begin", "typedBegin", "editBegin"} => ~uiTx[entry.conn]

(* Nothing to protect, or inside an action already confirmed.               *)
MakeCall(kind) ==
  LET s == entry.conn
      free == kind \notin Writes \/ guard[s] = "none"
      covered == ~free /\ guard[s] = "confirm" /\ consent[s] > 0
  IN
  /\ MayMake(kind) /\ (free \/ covered)
  /\ calls' = Append(calls, New(kind, "sent", IF covered THEN "covered" ELSE "no", "none"))
  /\ queue' = Append(queue, Send(Len(calls) + 1, s))
  /\ UNCHANGED <<mode, page, core, heir, deaths, moves>>

(* Read-only: refused before anything is sent.  Confirm: the dialog opens;  *)
(* a statement of the editor asks for the whole action (withWriteConsent),  *)
(* a row written on its own for itself (safeModeBlock).                     *)
StopCall(kind) ==
  LET s == entry.conn IN
  /\ MayMake(kind) /\ kind \in Writes
  /\ \/ /\ guard[s] = "readOnly"
        /\ calls' = Append(calls, New(kind, "done", "no", "refused"))
     \/ /\ guard[s] = "confirm" /\ consent[s] = 0
        /\ calls' = Append(calls,
             New(kind, "asking", IF kind = "write" THEN "scope" ELSE "row", "none"))
  /\ UNCHANGED <<mode, page, queue, core, heir, deaths, moves>>

Confirmed(c) ==
  /\ calls[c].st = "asking"
  /\ calls' = [calls EXCEPT ![c].st = "sent"]
  /\ consent' = IF calls[c].asked = "scope"
                THEN [consent EXCEPT ![calls[c].home] = @ + 1] ELSE consent
  /\ queue' = Append(queue, Send(c, calls[c].home))
  /\ UNCHANGED <<mode, entry, connecting, guard, uiTx, repl, waiters, core, heir,
                 deaths, moves>>

Declined(c) ==
  /\ calls[c].st = "asking"
  /\ calls' = [calls EXCEPT ![c].st = "done", ![c].out = "refused"]
  /\ UNCHANGED <<mode, page, queue, core, heir, deaths, moves>>

----------------------------------------------------------------------------
(* Opening a session, for onConnect or for replaceSession.                  *)

Opening(k) == queue # <<>> /\ Head(queue).m = "open" /\ Head(queue).k \in k

(* core: conn.open answered with a new id.                                  *)
Stored(n) == [core EXCEPT ![n].st = "open"]

ConnectOk ==
  /\ Opening({"connect"})
  /\ \E n \in Fresh :
       /\ core' = Stored(n) /\ guard' = Guarded(n) /\ entry' = Opened(n)
  /\ connecting' = FALSE /\ queue' = Tail(queue)
  /\ UNCHANGED <<mode, consent, uiTx, repl, waiters, calls, heir, deaths, moves>>

ConnectFails ==
  /\ Opening({"connect"})
  /\ connecting' = FALSE /\ queue' = Tail(queue)
  /\ UNCHANGED <<mode, entry, guard, consent, uiTx, repl, waiters, calls, core,
                 heir, deaths, moves>>

(* The promise of `replacing` resolves: the waiting calls go on in order.   *)
(* With a session, those that may be re-sent are, once, on it.              *)
Woken == IF Head(queue).k = "call" THEN waiters ELSE <<>>

ForgottenNot(dead) == repl                                        \* mutant

(* A failed attempt is forgotten, so that the next call can try again.      *)
Forgotten(dead) ==
  IF Head(queue).k = "call" THEN [repl EXCEPT ![dead] = NotReplaced] ELSE repl

GivenUpNot(n) == Tail(queue)                                      \* mutant

(* A session that came too late is closed at once.                          *)
GivenUp(n) == Append(Tail(queue), Close(n, "none"))

Again(W, n) == [i \in DOMAIN W |-> Send(W[i], n)]

Resolved(W, out) ==
  /\ waiters' = IF Head(queue).k = "call" THEN <<>> ELSE waiters
  /\ LET F == ToSet(W)
         R == IF out = "unsafe" THEN {c \in F : MayRetry(c)} ELSE {} IN
     /\ calls' = [c \in Calls |->
                    IF c \in R THEN [calls[c] EXCEPT !.st = "sent", !.retried = TRUE]
                    ELSE Ended(F, out)[c]]
     /\ consent' = Released(F \ R)
  /\ uiTx' = Indicated(W)

(* replaceSession, after openSession: the entry still names the dead        *)
(* session, so the new one takes its place and the dead one is closed.      *)
ReplaceAdopts ==
  /\ Opening({"call", "timer"}) /\ entry.conn = Head(queue).s
  /\ LET dead == Head(queue).s IN
     \E n \in Fresh :
       /\ core' = Stored(n)
       /\ guard' = [Guarded(n) EXCEPT ![dead] = "none"]
       /\ entry' = Opened(n)
       /\ heir' = [heir EXCEPT ![dead] = n]
       /\ repl' = IF Head(queue).k = "call" THEN [repl EXCEPT ![dead] = n] ELSE repl
       /\ Resolved(Woken, "unsafe")
       /\ queue' = Append(Tail(queue), Close(dead, "none")) \o
                   Again(Only(Woken, {c \in Calls : MayRetry(c)}), n)
  /\ UNCHANGED <<mode, connecting, deaths, moves>>

(* «Closed or reconnected by hand meanwhile: this session is nobody's.»     *)
ReplaceTooLate ==
  /\ Opening({"call", "timer"}) /\ entry.conn # Head(queue).s
  /\ LET dead == Head(queue).s IN
     /\ \E n \in Fresh :
          /\ core' = Stored(n)
          /\ guard' = [Guarded(n) EXCEPT ![n] = "none"]
          /\ queue' = GivenUp(n)
     /\ repl' = Forgotten(dead)
  /\ Resolved(Woken, "down")
  /\ UNCHANGED <<mode, entry, connecting, heir, deaths, moves>>

(* The server cannot be reached: marked lost, and the timer will try again. *)
ReplaceFails ==
  /\ Opening({"call", "timer"})
  /\ LET dead == Head(queue).s IN
     /\ entry' = MarkedLost(dead, TRUE)
     /\ repl' = Forgotten(dead)
  /\ Resolved(Woken, "down")
  /\ queue' = Tail(queue)
  /\ UNCHANGED <<mode, connecting, guard, core, heir, deaths, moves>>

(* The timer of App.tsx: a lost session whose retry is due.                 *)
Timer ==
  /\ entry.lost /\ ~entry.reconn /\ entry.retry
  /\ entry' = [entry EXCEPT !.reconn = TRUE]
  /\ queue' = Append(queue, Open("timer", entry.conn))
  /\ UNCHANGED <<mode, connecting, guard, consent, uiTx, repl, waiters, calls,
                 core, heir, deaths, moves>>

----------------------------------------------------------------------------
(* The answer to a call.                                                    *)

Calling == queue # <<>> /\ Head(queue).m = "call"
Caller == Head(queue).c
Target == Head(queue).s

(* What the engine does; only a successful begin or end moves the flag.     *)
Effect(kind, t) ==
  IF kind \in {"begin", "editBegin"} /\ ~t.flag THEN [t EXCEPT !.flag = TRUE, !.eng = TRUE]
  ELSE IF kind = "typedBegin" THEN [t EXCEPT !.eng = TRUE]
  ELSE IF kind = "rollback" THEN [t EXCEPT !.flag = FALSE, !.eng = FALSE]
  ELSE t

CallServed ==
  /\ Calling /\ core[Target].st = "open"
  /\ LET c == Caller  k == calls[c].kind IN
     /\ core' = [core EXCEPT ![Target] = Effect(k, core[Target])]
     /\ calls' = [calls EXCEPT ![c].st = "done", ![c].out = "ok",
                               ![c].runs = @ + 1]
     /\ consent' = Released({c})
     /\ uiTx' = IF k = "typedBegin" THEN [uiTx EXCEPT ![calls[c].home] = TRUE]
                ELSE Indicated(<<c>>)
  /\ queue' = Tail(queue)
  /\ UNCHANGED <<mode, entry, connecting, guard, repl, waiters, heir, deaths, moves>>

(* The id is unknown by now: an error, and nobody is told of a lost session. *)
CallRefused ==
  /\ Calling /\ core[Target].st = "closed"
  /\ calls' = Ended({Caller}, "error") /\ consent' = Released({Caller})
  /\ uiTx' = Indicated(<<Caller>>)
  /\ queue' = Tail(queue)
  /\ UNCHANGED <<mode, entry, connecting, guard, repl, waiters, core, heir, deaths, moves>>

(* The listener of App.tsx for an answer that the session died; C is calls  *)
(* as the engine left it, inTx the flag before the call.                    *)
LostIgnored ==       \* not ours: a session closed or replaced meanwhile
  /\ repl[Target] = NotReplaced /\ entry.conn # Target

LostWithTx(inTx) ==
  /\ repl[Target] = NotReplaced /\ entry.conn = Target /\ ~MayReconnect(inTx, Target)

LostReplaced(inTx) ==
  /\ repl[Target] = NotReplaced /\ entry.conn = Target /\ MayReconnect(inTx, Target)

Lost(inTx, C) ==
  LET c == Caller  s == Target
      ended(out) == [C EXCEPT ![c].st = "done", ![c].out = out]
      waits == [C EXCEPT ![c].st = "waiting"]
  IN
  \/ /\ LostIgnored
     /\ calls' = ended("down") /\ consent' = Released({c}) /\ uiTx' = Indicated(<<c>>)
     /\ queue' = Tail(queue)
     /\ UNCHANGED <<entry, repl, waiters>>
  \/ /\ LostWithTx(inTx)
     /\ entry' = MarkedLost(s, FALSE)
     /\ calls' = ended("tx") /\ consent' = Released({c}) /\ uiTx' = Indicated(<<c>>)
     /\ queue' = Tail(queue)
     /\ UNCHANGED <<repl, waiters>>
  \/ /\ LostReplaced(inTx)
     /\ entry' = [entry EXCEPT !.reconn = TRUE]
     /\ repl' = [repl EXCEPT ![s] = Pending]
     /\ waiters' = Append(waiters, c) /\ calls' = waits
     /\ queue' = Append(Tail(queue), Open("call", s))
     /\ UNCHANGED <<consent, uiTx>>
  \/ /\ repl[s] = Pending
     /\ waiters' = Append(waiters, c) /\ calls' = waits
     /\ queue' = Tail(queue)
     /\ UNCHANGED <<entry, repl, consent, uiTx>>
  \/ /\ repl[s] \in Sess
     /\ \/ /\ MayRetry(c)
           /\ calls' = [C EXCEPT ![c].retried = TRUE]
           /\ queue' = Append(Tail(queue), Send(c, repl[s]))
           /\ UNCHANGED <<consent, uiTx>>
        \/ /\ ~MayRetry(c)
           /\ calls' = ended("unsafe") /\ consent' = Released({c})
           /\ uiTx' = Indicated(<<c>>)
           /\ queue' = Tail(queue)
     /\ UNCHANGED <<entry, repl, waiters>>

(* The session is dead, or dies under the call: what it asked for was done  *)
(* or not.  tx.rollback clears the flag whatever happens.                   *)
CallLost ==
  /\ Calling
  /\ LET c == Caller  t == core[Target]  dies == t.st = "open" IN
     /\ t.st \in {"open", "dead"} /\ (dies => deaths < MaxDeaths)
     /\ deaths' = IF dies THEN deaths + 1 ELSE deaths
     /\ core' = [core EXCEPT ![Target] =
                   [t EXCEPT !.st = "dead", !.eng = FALSE,
                             !.flag = @ /\ calls[c].kind # "rollback",
                             !.lostTx = IF dies THEN t.eng ELSE @]]
     /\ \E done \in IF dies THEN {0, 1} ELSE {0} :
          Lost(t.flag, [calls EXCEPT ![c].runs = @ + done])
  /\ UNCHANGED <<mode, connecting, guard, heir, moves>>

(* The server drops the session between two calls.                          *)
SessionDies(s) ==
  /\ core[s].st = "open" /\ deaths < MaxDeaths
  /\ deaths' = deaths + 1
  /\ core' = [core EXCEPT ![s].st = "dead", ![s].lostTx = core[s].eng, ![s].eng = FALSE]
  /\ UNCHANGED <<mode, page, calls, queue, heir, moves>>

----------------------------------------------------------------------------
ReplaceEnds == ReplaceAdopts \/ ReplaceTooLate

Answer ==
  \/ ClosedAnswered \/ ConnectOk \/ ConnectFails
  \/ ReplaceAdopts \/ ReplaceTooLate \/ ReplaceFails
  \/ CallServed \/ CallRefused \/ CallLost

Next ==
  \/ Connect \/ Reconnect \/ Disconnect
  \/ \E kind \in Kinds : MakeCall(kind) \/ StopCall(kind)
  \/ \E c \in Calls : Confirmed(c) \/ Declined(c)
  \/ Timer \/ Answer
  \/ \E s \in Sess : SessionDies(s)

(* Every request is answered (EveryCallAnswered of RpcCore); the timer ticks *)
(* each second; a server that is asked again and again answers some day.    *)
Fairness == WF_vars(Answer) /\ WF_vars(Timer) /\ SF_vars(ReplaceEnds)

Spec == Init /\ [][Next]_vars
FairSpec == Spec /\ Fairness

----------------------------------------------------------------------------
(* App.tsx:2346, «this session is nobody's»: a session open in the core is   *)
(* the one of the entry or is about to be closed.                           *)
NoOrphanSession ==
  \A s \in Sess : core[s].st \in {"open", "dead"} =>
    entry.conn = s \/ \E i \in DOMAIN queue : queue[i].m = "close" /\ queue[i].s = s

(* safeMode.ts: a write reaches the server of a protected connection only   *)
(* if the user confirmed it or an action it runs in, and never when the     *)
(* connection is read-only; across replacements and closes.                 *)
WritesWereAllowed ==
  \A c \in Calls : calls[c].kind \in Writes /\ calls[c].runs > 0 =>
    /\ mode # "readOnly"
    /\ mode = "confirm" => calls[c].asked # "no"

(* transport.ts: consent lasts exactly as long as the confirmed actions of  *)
(* the session, whatever way they end.                                      *)
ConsentIsScoped ==
  \A s \in Sess : consent[s] =
    Cardinality({c \in Calls : calls[c].home = s /\ calls[c].asked = "scope"
                               /\ calls[c].st \in {"sent", "waiting"}})

(* reconnect.ts, mayRetry: what may change something runs at most once,     *)
(* whatever sessions die under it; a read is re-sent once.                  *)
NothingRunsTwice ==
  \A c \in Calls : calls[c].runs <= IF calls[c].kind \in RetrySafe THEN 2 ELSE 1

(* reconnect.ts, mayReconnect: a session is replaced by itself only if no   *)
(* transaction died with it, or after a call has said that one did.         *)
NoTxDiesSilently ==
  \A s \in Sess : heir[s] # 0 /\ core[s].lostTx =>
    \E c \in Calls : calls[c].out = "tx" /\ calls[c].home = s

(* Every call that was sent returns, whatever happens to its session.       *)
CallsReturn ==
  \A c \in 1..MaxCalls :
    (c \in Calls /\ calls[c].st \in {"sent", "waiting"})
      ~> (c \in Calls /\ calls[c].st = "done")

(* App.tsx:2420: a session lost without a transaction is reopened by itself *)
(* unless the user closes it or a call finds the user's transaction open.   *)
LostIsReopened ==
  (entry.lost /\ entry.retry) ~> (~entry.lost \/ ~entry.retry \/ Fresh = {})

=============================================================================
