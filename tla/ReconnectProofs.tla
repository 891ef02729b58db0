--------------------------- MODULE ReconnectProofs ---------------------------
(***************************************************************************)
(* What holds of a saved connection for every number of sessions, calls,   *)
(* deaths and moves of the user.                                           *)
(***************************************************************************)
EXTENDS Reconnect, SequenceFacts

ModeSet == {"none", "confirm", "readOnly"}
Slot  == [st : {"none", "open", "dead", "closed"}, flag : BOOLEAN, eng : BOOLEAN,
          lostTx : BOOLEAN]
Entry == [conn : Sess, lost : BOOLEAN, reconn : BOOLEAN, retry : BOOLEAN]
Call  == [kind : AllKinds, st : {"asking", "sent", "waiting", "done"},
          asked : {"no", "covered", "scope", "row"},
          out : {"none", "ok", "refused", "error", "down", "tx", "unsafe"},
          home : Sess, retried : BOOLEAN, runs : Nat]
Request == [m : {"open", "close", "call"}, s : 0..MaxSess,
            k : {"connect", "disconnect", "none", "call", "timer"}, c : Nat]

Types ==
  /\ mode \in ModeSet /\ entry \in Entry \cup {NoEntry} /\ connecting \in BOOLEAN
  /\ guard \in [Sess -> {"none", mode}] /\ consent \in [Sess -> Nat]
  /\ uiTx \in [Sess -> BOOLEAN] /\ repl \in [Sess -> 0..(MaxSess + 1)]
  /\ waiters \in Seq(Nat) /\ calls \in Seq(Call) /\ queue \in Seq(Request)
  /\ core \in [Sess -> Slot] /\ heir \in [Sess -> 0..MaxSess]

(* Session s was lost, and if a transaction died with it a call has said so. *)
Said(s) == \E c \in Calls : calls[c].out = "tx" /\ calls[c].home = s
Settled(s) ==
  s \in Sess /\ core[s].st \in {"dead", "closed"} /\ (core[s].lostTx => Said(s))
Used(s) == s \in Sess /\ core[s].st # "none"

(* What the user's confirmation, or a connection without protection, allows. *)
Permitted(c) ==
  calls[c].kind \in Writes =>
    mode # "readOnly" /\ (mode = "confirm" => calls[c].asked # "no")

(* A request on its way: the call it belongs to is one that was sent, to its *)
(* own session unless it was re-sent, and a session is reopened only when   *)
(* what died with it has been said.                                         *)
Sound(q) ==
  /\ q.m = "call" => /\ q.c \in Calls /\ calls[q.c].st = "sent" /\ Used(q.s)
                     /\ ~calls[q.c].retried => calls[q.c].home = q.s
  /\ q.m = "open" => q.k \in {"connect", "call", "timer"} /\ (q.k # "connect" => Settled(q.s))
  /\ q.m = "close" => Used(q.s)

SameCall(q, r) == q.m = "call" /\ r.m = "call" /\ q.c = r.c
Queued ==
  /\ \A i \in DOMAIN queue : Sound(queue[i])
  /\ \A i, j \in DOMAIN queue : SameCall(queue[i], queue[j]) => i = j

Waiting(c) ==
  /\ c \in Calls /\ calls[c].st = "waiting"
  /\ calls[c].kind \notin RetrySafe => Settled(calls[c].home)
Waits ==
  /\ \A i \in DOMAIN waiters : Waiting(waiters[i])
  /\ \A i, j \in DOMAIN waiters : waiters[i] = waiters[j] => i = j

(* A call belongs to a session that was opened; how often it may have run, and *)
(* that it was allowed to.                                                  *)
CallOk(c) ==
  /\ Used(calls[c].home)
  /\ calls[c].runs <= (IF calls[c].retried THEN 1 ELSE 0)
                    + (IF calls[c].st \in {"asking", "sent"} THEN 0 ELSE 1)
  /\ calls[c].retried => calls[c].kind \in RetrySafe
  /\ calls[c].st # "done" => calls[c].out = "none"
  /\ calls[c].runs > 0 \/ calls[c].st = "asking" => Permitted(c)
CallsOk == \A c \in Calls : CallOk(c)

(* A write nobody allowed is behind the close of its session, and the guard  *)
(* of the page's session is off only once its close is on the way.          *)
ClosedBefore(i, s) ==
  core[s].st = "closed" \/ \E j \in DOMAIN queue : j < i /\ queue[j].m = "close" /\ queue[j].s = s
Fenced ==
  \A i \in DOMAIN queue :
    queue[i].m = "call" /\ ~Permitted(queue[i].c) => ClosedBefore(i, queue[i].s)
Shielded(s) == guard[s] = mode \/ ClosedBefore(Len(queue) + 1, s)

(* A transaction of the page's session, alive or dead with it, is one that   *)
(* keeps the session from being reopened, or one that a call told of.       *)
InTx(s) == \/ core[s].st = "open" /\ core[s].eng
           \/ core[s].st = "dead" /\ core[s].lostTx
Known(s) == Used(s) /\ (InTx(s) => core[s].flag \/ uiTx[s] \/ Said(s))
EntryOk ==
  entry # NoEntry => /\ Shielded(entry.conn) /\ Known(entry.conn)
                     /\ entry.lost /\ entry.retry => Settled(entry.conn)
Replaced ==
  \A s \in Sess : /\ repl[s] # NotReplaced \/ heir[s] # 0 => Settled(s)
                  /\ repl[s] \in Sess => Used(repl[s])
                  /\ core[s].st = "none" => core[s] = Unused

IInv == /\ Types /\ Queued /\ Waits /\ CallsOk /\ Fenced /\ ConsentIsScoped
        /\ EntryOk /\ Replaced
----------------------------------------------------------------------------
(* What never goes back: a session that was used, closed or settled.         *)

Older(t, u) ==
  /\ t.st # "none" => u.st # "none"
  /\ t.st = "closed" => u.st = "closed" /\ u.lostTx = t.lostTx
  /\ t.st = "dead" => u.st \in {"dead", "closed"} /\ u.lostTx = t.lostTx

Untouched(c) == c \in Calls' /\ calls'[c] = calls[c]
SaidStays(c) == c \in Calls' /\ calls'[c].home = calls[c].home
                             /\ (calls[c].out = "tx" => calls'[c].out = "tx")

Steady ==
  \A s \in Sess : /\ Used(s) => Used(s)'
                  /\ Settled(s) => Settled(s)'
                  /\ Said(s) => Said(s)'
                  /\ core[s].st = "closed" => core'[s].st = "closed"

LEMMA AreSteady ==
  ASSUME \A s \in Sess : Older(core[s], core'[s]), \A c \in Calls : SaidStays(c)
  PROVE  Steady
  <1> SUFFICES ASSUME NEW s \in Sess
               PROVE  /\ Used(s) => Used(s)'
                      /\ Settled(s) => Settled(s)'
                      /\ Said(s) => Said(s)'
                      /\ core[s].st = "closed" => core'[s].st = "closed"
    BY DEF Steady
  <1>1. Said(s) => Said(s)'
    BY DEF Said, SaidStays
  <1>2. Older(core[s], core'[s])
    OBVIOUS
  <1> QED BY <1>1, <1>2 DEF Used, Settled, Older

(* The queue after a step: its first d requests are gone, and those behind   *)
(* the others are in N.                                                     *)
Shifts(d, N) ==
  LET n == Len(queue) - d IN
  /\ n \in Nat /\ queue' \in Seq(Request) /\ Len(queue') \in Nat /\ n <= Len(queue')
  /\ \A i \in 1..n : queue'[i] = queue[i + d]
  /\ \A i \in (n + 1)..Len(queue') : queue'[i] \in N
  /\ \A i, j \in (n + 1)..Len(queue') : SameCall(queue'[i], queue'[j]) => i = j

LEMMA QueueLen == ASSUME Types PROVE Len(queue) \in Nat /\ DOMAIN queue = 1..Len(queue)
                                     /\ \A i \in 1..Len(queue) : queue[i] \in Request
  BY LenProperties, ElementOfSeq DEF Types

LEMMA ShiftSame == ASSUME Types, UNCHANGED queue PROVE Shifts(0, {})
  <1>1. queue \in Seq(Request) /\ Len(queue) \in Nat
    BY QueueLen DEF Types
  <1> QED BY <1>1 DEF Shifts

LEMMA ShiftAppend ==
  ASSUME Types, NEW r \in Request, queue' = Append(queue, r) PROVE Shifts(0, {r})
  <1>1. queue \in Seq(Request) /\ Len(queue) \in Nat
    BY QueueLen DEF Types
  <1>2. /\ queue' \in Seq(Request) /\ Len(queue') = Len(queue) + 1
        /\ \A i \in 1..Len(queue) : queue'[i] = queue[i]
        /\ queue'[Len(queue) + 1] = r
    BY <1>1, AppendProperties
  <1> QED BY <1>1, <1>2 DEF Shifts

LEMMA TailFacts ==
  ASSUME Types, queue # <<>>
  PROVE  /\ Tail(queue) \in Seq(Request) /\ Len(Tail(queue)) = Len(queue) - 1
         /\ Len(queue) \in Nat \ {0} /\ Head(queue) = queue[1] /\ 1 \in DOMAIN queue
         /\ \A i \in 1..(Len(queue) - 1) : Tail(queue)[i] = queue[i + 1]
  BY HeadTailProperties, EmptySeq, QueueLen DEF Types

LEMMA ShiftTail == ASSUME Types, queue # <<>>, queue' = Tail(queue) PROVE Shifts(1, {})
  BY TailFacts DEF Shifts

LEMMA ShiftTailAppend ==
  ASSUME Types, queue # <<>>, NEW r \in Request, queue' = Append(Tail(queue), r)
  PROVE  Shifts(1, {r})
  <1>1. /\ queue' \in Seq(Request) /\ Len(queue') = Len(queue)
        /\ \A i \in 1..(Len(queue) - 1) : queue'[i] = Tail(queue)[i]
        /\ queue'[Len(queue)] = r
    BY SMTT(30), TailFacts, AppendProperties
  <1>2. PICK n \in Nat : Len(queue) = n + 1 /\ Len(queue) - 1 = n
    <2>1. Len(queue) \in Nat \ {0}
      BY TailFacts
    <2>2. Len(queue) - 1 \in Nat /\ Len(queue) = (Len(queue) - 1) + 1
      BY <2>1
    <2> QED BY <2>2
  <1>3. \A i \in 1..n : queue'[i] = queue[i + 1]
    BY <1>1, <1>2, TailFacts
  <1>4. Len(queue') = n + 1 /\ queue'[n + 1] = r
    BY <1>1, <1>2
  <1>5. /\ \A i \in (n + 1)..Len(queue') : queue'[i] \in {r}
        /\ \A i, j \in (n + 1)..Len(queue') : i = j
    BY <1>4
  <1> QED BY <1>1, <1>2, <1>3, <1>4, <1>5 DEF Shifts

(* A request that was sound still is, if its call is as it was.              *)
LEMMA SoundStays ==
  ASSUME Steady, NEW q, Sound(q), q.m = "call" => Untouched(q.c)
  PROVE  Sound(q)'
  BY DEF Sound, Steady, Untouched, Used, Settled

(* What becomes of the queue: d is 1 when the oldest request is answered.    *)
LEMMA QueuedStays ==
  ASSUME Types, Queued, Steady, NEW d \in {0, 1}, NEW N, Shifts(d, N),
         \A r \in N : Sound(r)',
         \A i \in DOMAIN queue : i > d /\ queue[i].m = "call" => Untouched(queue[i].c),
         \A r \in N, i \in DOMAIN queue : i > d => ~SameCall(queue[i], r)
  PROVE  Queued'
  <1> DEFINE n == Len(queue) - d
  <1>1. Len(queue) \in Nat /\ DOMAIN queue = 1..Len(queue) /\ n \in Nat
        /\ DOMAIN queue' = 1..Len(queue') /\ Len(queue') \in Nat /\ n <= Len(queue')
    BY QueueLen, LenProperties DEF Shifts
  <1>2. ASSUME NEW i \in 1..Len(queue')
        PROVE  \/ i \in 1..n /\ i + d \in DOMAIN queue /\ i + d > d /\ queue'[i] = queue[i + d]
               \/ i \in (n + 1)..Len(queue') /\ queue'[i] \in N
    BY <1>1 DEF Shifts
  <1>3. ASSUME NEW i \in DOMAIN queue' PROVE Sound(queue[i])'
    <2>1. CASE i \in 1..n /\ i + d \in DOMAIN queue /\ i + d > d /\ queue'[i] = queue[i + d]
      <3>1. Sound(queue[i + d]) /\ (queue[i + d].m = "call" => Untouched(queue[i + d].c))
        BY <2>1 DEF Queued
      <3>2. PICK q : q = queue[i + d]
        OBVIOUS
      <3>3. Sound(q)'
        BY <3>1, <3>2, SoundStays
      <3> QED BY <2>1, <3>2, <3>3 DEF Sound
    <2>2. CASE queue'[i] \in N
      <3>1. PICK r \in N : r = queue'[i]
        BY <2>2
      <3> QED BY <3>1 DEF Sound
    <2> QED BY <2>1, <2>2, <1>1, <1>2
  <1>4. ASSUME NEW i \in DOMAIN queue', NEW j \in DOMAIN queue', SameCall(queue'[i], queue'[j])
        PROVE  i = j
    <2>1. CASE i \in 1..n /\ j \in 1..n
      <3>1. i + d = j + d
        BY <1>1, <1>2, <1>4, <2>1 DEF Queued, Shifts
      <3> QED BY <3>1, <2>1, <1>1
    <2>2. CASE i \in (n + 1)..Len(queue') /\ j \in (n + 1)..Len(queue')
      BY <1>4, <2>2 DEF Shifts
    <2>3. CASE i \in 1..n /\ j \in (n + 1)..Len(queue')
      BY <1>1, <1>2, <1>4, <2>3 DEF Shifts
    <2>4. CASE j \in 1..n /\ i \in (n + 1)..Len(queue')
      <3>1. SameCall(queue'[j], queue'[i])
        BY <1>4 DEF SameCall
      <3> QED BY <1>1, <1>2, <3>1, <2>4 DEF Shifts
    <2> QED BY <1>1, <1>2, <2>1, <2>2, <2>3, <2>4
  <1> QED BY <1>3, <1>4 DEF Queued

(* The close in front of a request stays there, or has been served.          *)
LEMMA CloseStays ==
  ASSUME Types, Steady, NEW d \in {0, 1}, NEW N, Shifts(d, N),
         d = 1 /\ queue[1].m = "close" => core'[queue[1].s].st = "closed",
         NEW s \in Sess, NEW i \in Nat, i <= Len(queue) + 1, i > d, ClosedBefore(i, s)
  PROVE  ClosedBefore(i - d, s)'
  <1>1. CASE core[s].st = "closed"
    BY <1>1 DEF Steady, ClosedBefore
  <1>2. ASSUME NEW j \in DOMAIN queue, j < i, queue[j].m = "close", queue[j].s = s
        PROVE  ClosedBefore(i - d, s)'
    <2>1. CASE d = 1 /\ j = 1
      BY <1>2, <2>1 DEF ClosedBefore
    <2>2. CASE j > d
      <3>1. j \in 1..Len(queue) /\ Len(queue) \in Nat /\ j - d \in 1..(Len(queue) - d)
            /\ DOMAIN queue' = 1..Len(queue') /\ Len(queue') \in Nat
        BY <2>2, QueueLen, LenProperties DEF Shifts
      <3>2. j - d \in DOMAIN queue' /\ queue'[j - d] = queue[j] /\ j - d < i - d
        BY <1>2, <3>1 DEF Shifts
      <3> QED BY <1>2, <3>2 DEF ClosedBefore
    <2> QED BY <2>1, <2>2, QueueLen
  <1> QED BY <1>1, <1>2 DEF ClosedBefore

(* New requests keep the fence if they are allowed or behind the close.      *)
LEMMA FencedStays ==
  ASSUME Types, Queued, Fenced, Steady, UNCHANGED mode, NEW d \in {0, 1}, NEW N, Shifts(d, N),
         d = 1 /\ queue[1].m = "close" => core'[queue[1].s].st = "closed",
         \A i \in DOMAIN queue : i > d /\ queue[i].m = "call" => Untouched(queue[i].c),
         \A r \in N : r.m = "call" =>
           (Permitted(r.c)' \/ (r.s \in Sess /\ ClosedBefore(Len(queue) + 1, r.s)))
  PROVE  Fenced'
  <1> DEFINE n == Len(queue) - d
  <1>1. Len(queue) \in Nat /\ DOMAIN queue = 1..Len(queue) /\ n \in Nat
        /\ DOMAIN queue' = 1..Len(queue') /\ Len(queue') \in Nat
    BY QueueLen, LenProperties DEF Shifts
  <1> SUFFICES ASSUME NEW i \in DOMAIN queue', queue'[i].m = "call", ~Permitted(queue[i].c)'
               PROVE  ClosedBefore(i, queue[i].s)'
    BY DEF Fenced
  <1>2. CASE i \in 1..n
    <2>1. i + d \in DOMAIN queue /\ i + d > d /\ queue'[i] = queue[i + d] /\ i + d <= Len(queue) + 1
      BY <1>1, <1>2 DEF Shifts
    <2>2. PICK c : c = queue[i + d].c
      OBVIOUS
    <2>3. ~Permitted(c)
      BY <2>1, <2>2 DEF Untouched, Permitted
    <2>4. ClosedBefore(i + d, queue[i + d].s) /\ queue[i + d].s \in Sess
      BY <2>1, <2>2, <2>3 DEF Fenced, Queued, Sound, Used
    <2>5. PICK s \in Sess : s = queue[i + d].s
      BY <2>4
    <2>6. ClosedBefore((i + d) - d, s)'
      BY <1>1, <2>1, <2>4, <2>5, CloseStays
    <2>7. (i + d) - d = i
      BY <1>1
    <2> QED BY <2>1, <2>5, <2>6, <2>7
  <1>3. CASE i \in (n + 1)..Len(queue')
    <2>1. queue'[i] \in N
      BY <1>3 DEF Shifts
    <2>2. queue'[i].s \in Sess /\ ClosedBefore(Len(queue) + 1, queue'[i].s)
      BY <2>1
    <2>3. PICK s \in Sess : s = queue'[i].s
      BY <2>2
    <2>4. PICK L \in Nat : L = Len(queue) + 1
      BY <1>1
    <2>5. ClosedBefore(L, s) /\ L <= Len(queue) + 1 /\ L > d
      BY <1>1, <2>2, <2>3, <2>4
    <2>6. ClosedBefore(L - d, s)'
      BY <2>5, CloseStays
    <2>7. L - d <= i /\ L - d \in Nat
      BY <1>1, <1>3, <2>4
    <2> QED BY <1>1, <2>3, <2>6, <2>7 DEF ClosedBefore
  <1> QED BY <1>1, <1>2, <1>3

----------------------------------------------------------------------------
(* The page's entry.                                                        *)

LEMMA EntryConn ==
  ASSUME Types
  PROVE  entry # NoEntry <=> entry \in Entry /\ entry.conn \in Sess
  BY DEF Types, Entry, NoEntry, Sess

(* The entry is as it was, or gone.                                          *)
LEMMA ShieldStays ==
  ASSUME Types, Steady, NEW d \in {0, 1}, NEW N, Shifts(d, N), UNCHANGED mode,
         d = 1 /\ queue[1].m = "close" => core'[queue[1].s].st = "closed",
         NEW s \in Sess, Shielded(s), guard'[s] = guard[s]
  PROVE  Shielded(s)'
  <1>1. CASE guard[s] = mode
    BY <1>1 DEF Shielded
  <1>2. CASE ClosedBefore(Len(queue) + 1, s)
    <2>1. Len(queue) \in Nat /\ Len(queue) - d \in Nat /\ Len(queue') \in Nat
          /\ Len(queue) - d <= Len(queue')
      BY QueueLen DEF Shifts
    <2>2. PICK L \in Nat : L = Len(queue) + 1
      BY <2>1
    <2>3. ClosedBefore(L - d, s)'
      BY <1>2, <2>1, <2>2, CloseStays
    <2>4. L - d <= Len(queue') + 1 /\ L - d \in Nat
      BY <2>1, <2>2
    <2>5. DOMAIN queue' = 1..Len(queue')
      BY LenProperties DEF Shifts
    <2> QED BY <2>1, <2>3, <2>4, <2>5 DEF Shielded, ClosedBefore
  <1> QED BY <1>1, <1>2 DEF Shielded

LEMMA ClosingShields ==
  ASSUME Types, NEW s \in Sess, NEW r \in Request, r.m = "close", r.s = s,
         queue' = Append(queue, r)
  PROVE  Shielded(s)'
  <1>1. Len(queue) + 1 \in DOMAIN queue' /\ queue'[Len(queue) + 1] = r
        /\ Len(queue') = Len(queue) + 1 /\ Len(queue) \in Nat
    BY AppendProperties, LenProperties, QueueLen DEF Types
  <1> QED BY <1>1 DEF Shielded, ClosedBefore

LEMMA EntryIs ==
  ASSUME NEW s, entry'.conn = s, Shielded(s)', Known(s)',
         entry'.lost /\ entry'.retry => Settled(s)'
  PROVE  EntryOk'
  BY DEF EntryOk, Shielded, Known, ClosedBefore, Used, InTx, Said, Settled

----------------------------------------------------------------------------
(* The calls.                                                               *)

LEMMA CallsFacts ==
  ASSUME Types
  PROVE  /\ Len(calls) \in Nat /\ Calls \subseteq Nat /\ DOMAIN calls = Calls
         /\ IsFiniteSet(Calls) /\ \A c \in Calls : calls[c] \in Call
  <1>1. /\ Len(calls) \in Nat /\ DOMAIN calls = 1..Len(calls)
        /\ \A c \in 1..Len(calls) : calls[c] \in Call
    BY LenProperties, ElementOfSeq DEF Types
  <1>2. IsFiniteSet(1..Len(calls))
    BY <1>1, FS_Interval
  <1> QED BY <1>1, <1>2 DEF Calls

LEMMA OneCall ==
  ASSUME Types, NEW c \in Calls, NEW R \in Call, calls' = [calls EXCEPT ![c] = R]
  PROVE  /\ calls' \in Seq(Call) /\ Calls' = Calls /\ calls'[c] = R
         /\ \A x \in Calls \ {c} : Untouched(x)
  <1>1. c \in 1..Len(calls) /\ Len(calls) \in Nat
    BY CallsFacts DEF Calls
  <1>2. /\ calls' \in Seq(Call) /\ Len(calls') = Len(calls)
        /\ \A j \in 1..Len(calls) : calls'[j] = IF j = c THEN R ELSE calls[j]
    BY <1>1, ExceptSeq DEF Types
  <1> QED BY <1>1, <1>2 DEF Calls, Untouched

LEMMA CallStays ==
  ASSUME NEW c, UNCHANGED mode, Steady, Untouched(c), CallOk(c) PROVE CallOk(c)'
  BY DEF Untouched, CallOk, Permitted, Steady, Used

LEMMA WaitsStay ==
  ASSUME Types, Waits, Steady, UNCHANGED waiters,
         \A i \in DOMAIN waiters : Untouched(waiters[i])
  PROVE  Waits'
  <1>1. ASSUME NEW i \in DOMAIN waiters PROVE Waiting(waiters[i])'
    <2>1. PICK c : c = waiters[i]
      OBVIOUS
    <2>2. Waiting(c) /\ Untouched(c)
      BY <2>1 DEF Waits
    <2>3. calls[c].home \in Sess
      BY <2>2, CallsFacts DEF Waiting, Call
    <2>4. Waiting(c)'
      BY <2>2, <2>3 DEF Waiting, Untouched, Steady
    <2> QED BY <2>1, <2>4 DEF Waiting
  <1> QED BY <1>1 DEF Waits

LEMMA ReplacedStays ==
  ASSUME Replaced, Steady, \A s \in Sess : core'[s].st = "none" => core'[s] = core[s],
         \A s \in Sess : \/ repl'[s] = repl[s]
                         \/ /\ repl'[s] # NotReplaced => Settled(s)'
                            /\ repl'[s] \in Sess => Used(repl[s])',
         \A s \in Sess : heir'[s] # 0 => heir[s] # 0 \/ Settled(s)'
  PROVE  Replaced'
  BY DEF Replaced, Steady, NotReplaced, Unused, Used

(* The confirmed actions under way in a session.                             *)
Going(c) == calls[c].st \in {"sent", "waiting"}
Scoped(s) == {c \in Calls : calls[c].home = s /\ calls[c].asked = "scope" /\ Going(c)}

LEMMA ScopedFinite == ASSUME Types, NEW s PROVE IsFiniteSet(Scoped(s))
  BY CallsFacts, FS_Subset DEF Scoped

LEMMA ConsentCounts == ConsentIsScoped <=> \A s \in Sess : consent[s] = Cardinality(Scoped(s))
  BY DEF ConsentIsScoped, Scoped, Going

SameHome(c) == c \in Calls' /\ calls'[c].home = calls[c].home /\ calls'[c].asked = calls[c].asked

LEMMA ConsentStays ==
  ASSUME ConsentIsScoped, UNCHANGED consent,
         \A c \in Calls : SameHome(c) /\ (Going(c) <=> Going(c)'),
         \A c \in Calls' \ Calls : ~(calls'[c].asked = "scope" /\ Going(c)')
  PROVE  ConsentIsScoped'
  <1>1. ASSUME NEW s \in Sess PROVE consent'[s] = Cardinality(Scoped(s)')
    <2>1. Scoped(s)' = Scoped(s)
      BY DEF Scoped, SameHome
    <2> QED BY <2>1, ConsentCounts
  <1> QED BY <1>1 DEF ConsentIsScoped, Scoped, Going

LEMMA ConsentReleased ==
  ASSUME Types, ConsentIsScoped, NEW F \in SUBSET Calls, \A c \in F : Going(c),
         Calls' = Calls, consent' = Released(F),
         \A c \in Calls : SameHome(c) /\ (Going(c)' <=> Going(c) /\ c \notin F)
  PROVE  ConsentIsScoped' /\ consent' \in [Sess -> Nat]
  <1>1. ASSUME NEW s \in Sess
        PROVE  consent'[s] = Cardinality(Scoped(s)') /\ consent'[s] \in Nat
    <2> DEFINE gone == {c \in F : calls[c].home = s /\ calls[c].asked = "scope"
                                   /\ calls[c].st # "asking"}
    <2>1. gone \subseteq Scoped(s) /\ Scoped(s)' = Scoped(s) \ gone
      BY DEF Scoped, SameHome, Going
    <2>2. IsFiniteSet(Scoped(s)) /\ Scoped(s) \cap gone = gone
      BY <2>1, ScopedFinite
    <2>3. Cardinality(Scoped(s) \ gone) = Cardinality(Scoped(s)) - Cardinality(gone)
      BY <2>2, FS_Difference
    <2>4. consent'[s] = consent[s] - Cardinality(gone)
      BY DEF Released
    <2>5. IsFiniteSet(Scoped(s) \ gone)
      BY <2>2, FS_Difference
    <2> QED BY <2>1, <2>3, <2>4, <2>5, ConsentCounts, FS_CardinalityType
  <1>2. consent' \in [Sess -> Nat]
    BY <1>1 DEF Released
  <1> QED BY <1>1, <1>2 DEF ConsentIsScoped, Scoped, Going

----------------------------------------------------------------------------
(* The steps that leave the calls and what the page keeps of them alone.     *)

Quiet == UNCHANGED <<mode, consent, uiTx, waiters, calls>>

LEMMA QuietStep ==
  ASSUME ConstantsAssumption, IInv, Quiet, NEW d \in {0, 1}, NEW N, Shifts(d, N),
         \A s \in Sess : Older(core[s], core'[s]),
         d = 1 => queue[1].m # "call" /\ (queue[1].m = "close" => core'[queue[1].s].st = "closed"),
         \A r \in N : r.m # "call" /\ (Steady => Sound(r)')
  PROVE  Steady /\ Queued' /\ Waits' /\ CallsOk' /\ Fenced' /\ ConsentIsScoped'
  <1>1. \A c \in Calls : Untouched(c)
    BY DEF Quiet, Untouched, Calls
  <1>2. Steady
    <2>1. \A c \in Calls : SaidStays(c)
      BY <1>1 DEF SaidStays, Untouched
    <2> QED BY <2>1, AreSteady
  <1>3. \A i \in DOMAIN queue : queue[i].m = "call" => Untouched(queue[i].c)
    BY <1>1 DEF IInv, Queued, Sound
  <1>4. Queued'
    <2>1. \A r \in N, i \in DOMAIN queue : ~SameCall(queue[i], r)
      BY DEF SameCall
    <2> QED BY <1>2, <1>3, <2>1, QueuedStays DEF IInv
  <1>5. Fenced'
    BY <1>2, <1>3, FencedStays DEF IInv, Quiet
  <1>6. Waits'
    <2>1. \A i \in DOMAIN waiters : Untouched(waiters[i])
      BY <1>1 DEF IInv, Waits, Waiting
    <2> QED BY <1>2, <2>1, WaitsStay DEF IInv, Quiet
  <1>7. CallsOk'
    <2>1. Calls' = Calls
      BY DEF Quiet, Calls
    <2> QED BY <1>1, <1>2, <2>1, CallStays DEF IInv, CallsOk, Quiet
  <1>8. ConsentIsScoped'
    BY DEF IInv, Quiet, ConsentIsScoped, Calls
  <1> QED BY <1>2, <1>4, <1>5, <1>6, <1>7, <1>8

LEMMA RequestTypes ==
  ASSUME ConstantsAssumption
  PROVE  /\ \A k \in {"connect", "call", "timer"}, s \in 0..MaxSess : Open(k, s) \in Request
         /\ \A k \in {"connect", "disconnect", "none"}, s \in Sess : Close(s, k) \in Request
         /\ \A c \in Nat, s \in Sess : Send(c, s) \in Request
         /\ 0 \in 0..MaxSess /\ Sess \subseteq 0..MaxSess
  BY DEF ConstantsAssumption, Open, Close, Send, Request, Sess

LEMMA SameCore == ASSUME UNCHANGED core PROVE \A s \in Sess : Older(core[s], core'[s])
  BY DEF Older

LEMMA ConnectStep == ASSUME ConstantsAssumption, IInv, Connect PROVE IInv'
  <1>1. /\ entry = NoEntry /\ queue' = Append(queue, Open("connect", 0))
        /\ connecting' = TRUE
        /\ UNCHANGED <<mode, entry, guard, consent, uiTx, repl, waiters, calls, core, heir>>
    BY DEF Connect
  <1>2. Open("connect", 0) \in Request
    BY RequestTypes
  <1>3. Shifts(0, {Open("connect", 0)})
    BY <1>1, <1>2, ShiftAppend DEF IInv
  <1>4. Steady /\ Queued' /\ Waits' /\ CallsOk' /\ Fenced' /\ ConsentIsScoped'
    <2>1. ASSUME NEW r \in {Open("connect", 0)} PROVE r.m # "call" /\ Sound(r)'
      BY DEF Open, Sound
    <2> QED BY <1>1, <1>3, <2>1, SameCore, QuietStep DEF Quiet
  <1>5. Types'
    BY <1>1, <1>3 DEF IInv, Types, Shifts
  <1>6. EntryOk'
    BY <1>1 DEF EntryOk
  <1>7. Replaced'
    BY <1>1, <1>4, ReplacedStays DEF IInv
  <1> QED BY <1>4, <1>5, <1>6, <1>7 DEF IInv

(* A session of which as much is known as before.                            *)
Kept(s) ==
  InTx(s)' => InTx(s) /\ (core[s].flag => core'[s].flag) /\ (uiTx[s] => uiTx'[s])

LEMMA KnownStays ==
  ASSUME Steady, NEW s \in Sess, Known(s), Kept(s) PROVE Known(s)'
  BY DEF Steady, Known, Kept

LEMMA EntryStays ==
  ASSUME IInv, Steady, NEW d \in {0, 1}, NEW N, Shifts(d, N), UNCHANGED mode,
         d = 1 /\ queue[1].m = "close" => core'[queue[1].s].st = "closed",
         entry # NoEntry => /\ guard'[entry.conn] = guard[entry.conn]
                            /\ \A s : s = entry.conn => Kept(s) \/ Known(s)',
         entry' # NoEntry =>
           /\ entry # NoEntry /\ entry'.conn = entry.conn
           /\ entry'.lost /\ entry'.retry =>
                (entry.lost /\ entry.retry) \/ (\A s : s = entry.conn => Settled(s)')
  PROVE  EntryOk'
  <1> SUFFICES ASSUME entry' # NoEntry PROVE EntryOk'
    BY DEF EntryOk
  <1>1. PICK s \in Sess : s = entry.conn
    BY EntryConn DEF IInv
  <1>2. Shielded(s) /\ Known(s) /\ (entry.lost /\ entry.retry => Settled(s))
    BY <1>1 DEF IInv, EntryOk
  <1>3. Shielded(s)'
    BY <1>1, <1>2, ShieldStays DEF IInv
  <1>4. Known(s)'
    BY <1>1, <1>2, KnownStays
  <1>5. entry'.lost /\ entry'.retry => Settled(s)'
    BY <1>1, <1>2 DEF Steady
  <1> QED BY <1>1, <1>3, <1>4, <1>5, EntryIs

(* «Reconectar» and disconnecting: the guard goes, and the close is sent.    *)
LEMMA CloseStep ==
  ASSUME ConstantsAssumption, IInv, entry # NoEntry, NEW k \in {"connect", "disconnect"},
         guard' = Unguarded(entry.conn), queue' = Append(queue, Close(entry.conn, k)),
         connecting' \in BOOLEAN,
         UNCHANGED <<mode, entry, consent, uiTx, repl, waiters, calls, core, heir>>
  PROVE  IInv'
  <1>1. PICK s \in Sess : s = entry.conn
    BY EntryConn DEF IInv
  <1> DEFINE r == Close(s, k)
  <1>2. r \in Request /\ r.m = "close" /\ r.s = s /\ queue' = Append(queue, r)
    BY <1>1, RequestTypes DEF Close
  <1>3. Shifts(0, {r})
    BY <1>2, ShiftAppend DEF IInv
  <1>4. Known(s) /\ (entry.lost /\ entry.retry => Settled(s))
    BY <1>1 DEF IInv, EntryOk
  <1> HIDE DEF r
  <1>5. Steady /\ Queued' /\ Waits' /\ CallsOk' /\ Fenced' /\ ConsentIsScoped'
    <2>1. Steady => Sound(r)'
      BY <1>2, <1>4 DEF Sound, Known, Steady
    <2> QED BY <1>2, <1>3, <2>1, SameCore, QuietStep DEF Quiet
  <1>6. Types'
    BY <1>3 DEF IInv, Types, Shifts, Unguarded
  <1>7. EntryOk'
    <2>1. Shielded(s)'
      BY <1>2, ClosingShields DEF IInv
    <2>2. Known(s)' /\ (entry.lost /\ entry.retry => Settled(s)')
      BY <1>4, <1>5, KnownStays DEF Kept, InTx, Steady
    <2> QED BY <1>1, <2>1, <2>2, EntryIs
  <1>8. Replaced'
    BY <1>5, ReplacedStays DEF IInv
  <1> QED BY <1>5, <1>6, <1>7, <1>8 DEF IInv

LEMMA ClosedAnsweredStep ==
  ASSUME ConstantsAssumption, IInv, ClosedAnswered PROVE IInv'
  <1> DEFINE q == Head(queue)
  <1>1. /\ queue # <<>> /\ q.m = "close" /\ core' = [core EXCEPT ![q.s].st = "closed"]
        /\ entry' = IF q.k = "none" THEN entry ELSE NoEntry
        /\ queue' = IF q.k = "connect" THEN Append(Tail(queue), Open("connect", 0)) ELSE Tail(queue)
        /\ UNCHANGED <<mode, connecting, guard, consent, uiTx, repl, waiters, calls, heir>>
    BY DEF ClosedAnswered
  <1>2. q = queue[1] /\ 1 \in DOMAIN queue
    BY <1>1, TailFacts DEF IInv
  <1>3. Used(q.s)
    BY <1>1, <1>2 DEF IInv, Queued, Sound
  <1>4. PICK s \in Sess : s = q.s /\ core[s].st # "none"
    BY <1>3 DEF Used
  <1> HIDE DEF q
  <1>5. /\ core[s] \in Slot /\ core' = [core EXCEPT ![s] = [core[s] EXCEPT !.st = "closed"]]
    BY <1>1, <1>4 DEF IInv, Types
  <1>6. /\ core' \in [Sess -> Slot] /\ core'[s].st = "closed" /\ core'[s].lostTx = core[s].lostTx
        /\ \A x \in Sess \ {s} : core'[x] = core[x]
    <2> DEFINE t == [core[s] EXCEPT !.st = "closed"]
    <2>1. t \in Slot /\ t.st = "closed" /\ t.lostTx = core[s].lostTx
      BY <1>5 DEF Slot
    <2>2. core' = [core EXCEPT ![s] = t]
      BY <1>5
    <2> HIDE DEF t
    <2> QED BY <2>1, <2>2 DEF IInv, Types
  <1>7. PICK N : Shifts(1, N) /\ N \subseteq {Open("connect", 0)}
    <2>1. CASE q.k = "connect"
      <3>1. Open("connect", 0) \in Request
        BY RequestTypes
      <3>2. Shifts(1, {Open("connect", 0)})
        BY <1>1, <2>1, <3>1, ShiftTailAppend DEF IInv
      <3> QED BY <3>2
    <2>2. CASE q.k # "connect"
      <3>1. Shifts(1, {})
        BY <1>1, <2>2, ShiftTail DEF IInv
      <3> QED BY <3>1
    <2> QED BY <2>1, <2>2
  <1>8. Steady /\ Queued' /\ Waits' /\ CallsOk' /\ Fenced' /\ ConsentIsScoped'
    <2>1. ASSUME NEW r \in N PROVE r.m # "call" /\ Sound(r)'
      BY <1>7 DEF Open, Sound
    <2>2. \A x \in Sess : Older(core[x], core'[x])
      BY <1>4, <1>6 DEF Older
    <2> QED BY <1>1, <1>2, <1>4, <1>6, <1>7, <2>1, <2>2, QuietStep DEF Quiet
  <1>9. Types'
    BY <1>1, <1>6, <1>7 DEF IInv, Types, Shifts
  <1>10. EntryOk'
    <2>1. \A x \in Sess : Kept(x)
      BY <1>1, <1>6 DEF Kept, InTx
    <2>2. entry' # NoEntry => entry' = entry
      BY <1>1
    <2>3. entry # NoEntry => entry.conn \in Sess
      BY EntryConn DEF IInv
    <2> QED BY <1>1, <1>2, <1>4, <1>6, <1>7, <1>8, <2>1, <2>2, <2>3, EntryStays
  <1>11. Replaced'
    <2>1. \A x \in Sess : core'[x].st = "none" => core'[x] = core[x]
      BY <1>6
    <2> QED BY <1>1, <1>8, <2>1, ReplacedStays DEF IInv
  <1> QED BY <1>8, <1>9, <1>10, <1>11 DEF IInv

(* A session that has just been opened.                                      *)
LEMMA StoredFacts ==
  ASSUME Types, Replaced, NEW n \in Fresh, core' = Stored(n)
  PROVE  /\ n \in Sess /\ core[n].st = "none" /\ core' \in [Sess -> Slot]
         /\ core'[n].st = "open" /\ ~core'[n].eng /\ ~core'[n].lostTx
         /\ \A x \in Sess \ {n} : core'[x] = core[x]
         /\ \A x \in Sess : Older(core[x], core'[x])
         /\ \A x \in Sess : core'[x].st = "none" => core'[x] = core[x]
         /\ Used(n)' /\ Known(n)'
  <1>1. n \in Sess /\ core[n].st = "none" /\ core[n] = Unused
    BY DEF Fresh, Replaced
  <1> DEFINE t == [Unused EXCEPT !.st = "open"]
  <1>2. core' = [core EXCEPT ![n] = t]
    BY <1>1 DEF Stored, Types
  <1>3. t \in Slot /\ t.st = "open" /\ ~t.eng /\ ~t.lostTx
    BY DEF Unused, Slot
  <1> HIDE DEF t
  <1>4. /\ core' \in [Sess -> Slot] /\ core'[n] = t
        /\ \A x \in Sess \ {n} : core'[x] = core[x]
    BY <1>1, <1>2, <1>3 DEF Types
  <1> QED BY <1>1, <1>3, <1>4 DEF Older, Used, Known, InTx

LEMMA ConnectOkStep == ASSUME ConstantsAssumption, IInv, ConnectOk PROVE IInv'
  <1>1. PICK n \in Fresh : core' = Stored(n) /\ guard' = Guarded(n) /\ entry' = Opened(n)
    BY DEF ConnectOk
  <1>2. /\ queue # <<>> /\ Head(queue).m = "open" /\ queue' = Tail(queue) /\ connecting' = FALSE
        /\ UNCHANGED <<mode, consent, uiTx, repl, waiters, calls, heir>>
    BY DEF ConnectOk, Opening
  <1>3. /\ n \in Sess /\ core' \in [Sess -> Slot] /\ Known(n)'
        /\ \A x \in Sess : Older(core[x], core'[x])
        /\ \A x \in Sess : core'[x].st = "none" => core'[x] = core[x]
    BY <1>1, StoredFacts DEF IInv
  <1>4. queue[1].m = "open" /\ Shifts(1, {})
    BY <1>2, TailFacts, ShiftTail DEF IInv
  <1>5. Steady /\ Queued' /\ Waits' /\ CallsOk' /\ Fenced' /\ ConsentIsScoped'
    BY <1>2, <1>3, <1>4, QuietStep DEF Quiet
  <1>6. entry' \in Entry /\ entry'.conn = n /\ ~entry'.lost
    BY <1>1, <1>3 DEF Opened, Entry
  <1>7. guard' \in [Sess -> {"none", mode}] /\ guard'[n] = mode
    BY <1>1, <1>3 DEF Guarded, IInv, Types
  <1>8. Types'
    BY <1>2, <1>3, <1>4, <1>6, <1>7 DEF IInv, Types, Shifts
  <1>9. EntryOk'
    <2>1. Shielded(n)'
      BY <1>2, <1>7 DEF Shielded
    <2> QED BY <1>3, <1>6, <2>1, EntryIs
  <1>10. Replaced'
    BY <1>2, <1>3, <1>5, ReplacedStays DEF IInv
  <1> QED BY <1>5, <1>8, <1>9, <1>10 DEF IInv

LEMMA ConnectFailsStep == ASSUME ConstantsAssumption, IInv, ConnectFails PROVE IInv'
  <1>1. /\ queue # <<>> /\ Head(queue).m = "open" /\ queue' = Tail(queue) /\ connecting' = FALSE
        /\ UNCHANGED <<mode, entry, guard, consent, uiTx, repl, waiters, calls, core, heir>>
    BY DEF ConnectFails, Opening
  <1>2. queue[1].m = "open" /\ Shifts(1, {})
    BY <1>1, TailFacts, ShiftTail DEF IInv
  <1>3. Steady /\ Queued' /\ Waits' /\ CallsOk' /\ Fenced' /\ ConsentIsScoped'
    BY <1>1, <1>2, SameCore, QuietStep DEF Quiet
  <1>4. Types'
    BY <1>1, <1>2 DEF IInv, Types, Shifts
  <1>5. EntryOk'
    <2>1. \A s : Kept(s)
      BY <1>1 DEF Kept, InTx
    <2> QED BY <1>1, <1>2, <1>3, <2>1, EntryStays
  <1>6. Replaced'
    BY <1>1, <1>3, ReplacedStays DEF IInv
  <1> QED BY <1>3, <1>4, <1>5, <1>6 DEF IInv

LEMMA TimerStep == ASSUME ConstantsAssumption, IInv, Timer PROVE IInv'
  <1> DEFINE e == [entry EXCEPT !.reconn = TRUE]
  <1>1. /\ entry.lost /\ entry.retry /\ entry' = e
        /\ queue' = Append(queue, Open("timer", entry.conn))
        /\ UNCHANGED <<mode, connecting, guard, consent, uiTx, repl, waiters, calls, core, heir>>
    BY DEF Timer
  <1>2. entry # NoEntry
    BY <1>1 DEF NoEntry
  <1>3. PICK s \in Sess : s = entry.conn
    BY <1>2, EntryConn DEF IInv
  <1>4. Settled(s) /\ entry \in Entry
    BY <1>1, <1>2, <1>3, EntryConn DEF IInv, EntryOk
  <1>5. e \in Entry /\ e.conn = s
    BY <1>3, <1>4 DEF Entry
  <1> HIDE DEF e
  <1> DEFINE r == Open("timer", s)
  <1>6. r \in Request /\ r.m = "open" /\ r.s = s /\ r.k = "timer"
    BY RequestTypes DEF Open
  <1>7. Shifts(0, {r})
    BY <1>1, <1>3, <1>6, ShiftAppend DEF IInv
  <1> HIDE DEF r
  <1>8. Steady /\ Queued' /\ Waits' /\ CallsOk' /\ Fenced' /\ ConsentIsScoped'
    <2>1. Steady => Sound(r)'
      BY <1>4, <1>6 DEF Sound, Steady
    <2> QED BY <1>1, <1>6, <1>7, <2>1, SameCore, QuietStep DEF Quiet
  <1>9. Types'
    BY <1>1, <1>5, <1>7 DEF IInv, Types, Shifts
  <1>10. EntryOk'
    <2>1. \A x : Kept(x)
      BY <1>1 DEF Kept, InTx
    <2> QED BY <1>1, <1>2, <1>3, <1>5, <1>7, <1>8, <2>1, EntryStays
  <1>11. Replaced'
    BY <1>1, <1>8, ReplacedStays DEF IInv
  <1> QED BY <1>8, <1>9, <1>10, <1>11 DEF IInv

LEMMA SessionDiesStep ==
  ASSUME ConstantsAssumption, IInv, NEW s \in Sess, SessionDies(s) PROVE IInv'
  <1> DEFINE t == [core[s] EXCEPT !.st = "dead", !.lostTx = core[s].eng, !.eng = FALSE]
  <1>1. /\ core[s].st = "open" /\ core' = [core EXCEPT ![s] = t]
        /\ UNCHANGED <<mode, entry, connecting, guard, consent, uiTx, repl, waiters, calls, queue, heir>>
    BY DEF SessionDies, page, IInv, Types
  <1>2. core[s] \in Slot
    BY DEF IInv, Types
  <1>3. t \in Slot /\ t.st = "dead" /\ t.lostTx = core[s].eng /\ t.flag = core[s].flag
    BY <1>2 DEF Slot
  <1> HIDE DEF t
  <1>4. /\ core' \in [Sess -> Slot] /\ core'[s] = t
        /\ \A x \in Sess \ {s} : core'[x] = core[x]
    BY <1>1, <1>3 DEF IInv, Types
  <1>5. Shifts(0, {})
    BY <1>1, ShiftSame DEF IInv
  <1>6. Steady /\ Queued' /\ Waits' /\ CallsOk' /\ Fenced' /\ ConsentIsScoped'
    <2>1. \A x \in Sess : Older(core[x], core'[x])
      BY <1>1, <1>3, <1>4 DEF Older
    <2> QED BY <1>1, <1>5, <2>1, QuietStep DEF Quiet
  <1>7. Types'
    BY <1>1, <1>4 DEF IInv, Types
  <1>8. EntryOk'
    <2>1. \A x \in Sess : Kept(x)
      <3>1. Kept(s)
        <4>1. core[s].st = "open" /\ core'[s].st = "dead" /\ (core'[s].lostTx => core[s].eng)
          BY <1>1, <1>3, <1>4
        <4>2. (core[s].flag => core'[s].flag) /\ (uiTx[s] => uiTx'[s])
          BY <1>1, <1>3, <1>4
        <4> QED BY <4>1, <4>2 DEF Kept, InTx
      <3>2. \A x \in Sess \ {s} : Kept(x)
        BY <1>1, <1>4 DEF Kept, InTx
      <3> QED BY <3>1, <3>2
    <2>2. entry # NoEntry => entry.conn \in Sess
      BY EntryConn DEF IInv
    <2> QED BY <1>1, <1>5, <1>6, <2>1, <2>2, EntryStays
  <1>9. Replaced'
    <2>1. \A x \in Sess : core'[x].st = "none" => core'[x] = core[x]
      BY <1>3, <1>4
    <2> QED BY <1>1, <1>6, <2>1, ReplacedStays DEF IInv
  <1> QED BY <1>6, <1>7, <1>8, <1>9 DEF IInv

----------------------------------------------------------------------------
(* The user's calls.                                                        *)

LEMMA NewCall ==
  ASSUME Types, NEW R \in Call, calls' = Append(calls, R), NEW n, n = Len(calls) + 1
  PROVE  /\ calls' \in Seq(Call) /\ Calls' = Calls \cup {n} /\ n \notin Calls /\ n \in Nat
         /\ calls'[n] = R /\ \A c \in Calls : Untouched(c)
  <1>1. Len(calls) \in Nat /\ Calls = 1..Len(calls)
    BY CallsFacts DEF Calls
  <1>2. /\ calls' \in Seq(Call) /\ Len(calls') = n /\ calls'[n] = R
        /\ \A c \in 1..Len(calls) : calls'[c] = calls[c]
    BY <1>1, AppendProperties DEF Types
  <1>3. Calls' = 1..n
    BY <1>2 DEF Calls
  <1> QED BY <1>1, <1>2, <1>3 DEF Untouched

LEMMA NewCallStep ==
  ASSUME ConstantsAssumption, IInv, NEW R \in Call, calls' = Append(calls, R),
         NEW n, n = Len(calls) + 1,
         UNCHANGED <<mode, entry, connecting, guard, consent, uiTx, repl, waiters, core, heir>>,
         CallOk(n)', ~(R.asked = "scope" /\ R.st \in {"sent", "waiting"}),
         \/ UNCHANGED queue
         \/ \E s \in Sess : /\ queue' = Append(queue, Send(n, s))
                           /\ R.st = "sent" /\ R.home = s /\ Used(s)
                           /\ (Permitted(n)' \/ ClosedBefore(Len(queue) + 1, s))
  PROVE  IInv'
  <1>1. /\ calls' \in Seq(Call) /\ Calls' = Calls \cup {n} /\ n \notin Calls /\ n \in Nat
        /\ calls'[n] = R /\ \A c \in Calls : Untouched(c)
    BY NewCall DEF IInv
  <1>2. Steady
    <2>1. \A c \in Calls : SaidStays(c)
      BY <1>1 DEF SaidStays, Untouched
    <2> QED BY <2>1, SameCore, AreSteady
  <1>3. \A i \in DOMAIN queue : queue[i].m = "call" => queue[i].c \in Calls /\ Untouched(queue[i].c)
    BY <1>1 DEF IInv, Queued, Sound
  <1>4. PICK N : /\ Shifts(0, N) /\ \A r \in N : r.m = "call" /\ r.c = n /\ Sound(r)'
                 /\ \A r \in N : (Permitted(r.c)' \/ (r.s \in Sess /\ ClosedBefore(Len(queue) + 1, r.s)))
    <2>1. CASE UNCHANGED queue
      <3>1. Shifts(0, {})
        BY <2>1, ShiftSame DEF IInv
      <3> QED BY <3>1
    <2>2. ASSUME NEW s \in Sess, queue' = Append(queue, Send(n, s)), R.st = "sent", R.home = s,
                 Used(s), Permitted(n)' \/ ClosedBefore(Len(queue) + 1, s)
          PROVE  \E N : /\ Shifts(0, N) /\ \A r \in N : r.m = "call" /\ r.c = n /\ Sound(r)'
                        /\ \A r \in N : (Permitted(r.c)' \/ (r.s \in Sess /\ ClosedBefore(Len(queue) + 1, r.s)))
      <3> DEFINE r == Send(n, s)
      <3>1. r \in Request /\ r.m = "call" /\ r.c = n /\ r.s = s
        BY <1>1, RequestTypes DEF Send
      <3> HIDE DEF r
      <3>2. Shifts(0, {r})
        BY <2>2, <3>1, ShiftAppend DEF IInv, r
      <3>3. Sound(r)'
        BY <1>1, <1>2, <2>2, <3>1 DEF Sound, Steady
      <3>4. Permitted(r.c)' \/ ClosedBefore(Len(queue) + 1, r.s)
        BY <2>2, <3>1 DEF Permitted
      <3> QED BY <3>1, <3>2, <3>3, <3>4
    <2> QED BY <2>1, <2>2
  <1>5. Queued'
    <2>1. \A r \in N, i \in DOMAIN queue : ~SameCall(queue[i], r)
      BY <1>1, <1>3, <1>4 DEF SameCall
    <2> QED BY <1>2, <1>3, <1>4, <2>1, QueuedStays DEF IInv
  <1>6. Fenced'
    BY <1>2, <1>3, <1>4, FencedStays DEF IInv
  <1>7. Waits'
    <2>1. \A i \in DOMAIN waiters : Untouched(waiters[i])
      BY <1>1 DEF IInv, Waits, Waiting
    <2> QED BY <1>2, <2>1, WaitsStay DEF IInv
  <1>8. CallsOk'
    BY <1>1, <1>2, CallStays DEF IInv, CallsOk
  <1>9. ConsentIsScoped'
    <2>1. \A c \in Calls : SameHome(c) /\ (Going(c) <=> Going(c)')
      BY <1>1 DEF Untouched, SameHome, Going
    <2>2. \A c \in Calls' \ Calls : ~(calls'[c].asked = "scope" /\ Going(c)')
      BY <1>1 DEF Going
    <2> QED BY <2>1, <2>2, ConsentStays DEF IInv
  <1>10. EntryOk'
    <2>1. \A s \in Sess : Kept(s)
      BY DEF Kept, InTx
    <2>2. entry # NoEntry => entry.conn \in Sess
      BY EntryConn DEF IInv
    <2> QED BY <1>2, <1>4, <2>1, <2>2, EntryStays
  <1>11. Replaced'
    BY <1>2, ReplacedStays DEF IInv
  <1>12. Types'
    BY <1>1, <1>4 DEF IInv, Types, Shifts
  <1> QED BY <1>5, <1>6, <1>7, <1>8, <1>9, <1>10, <1>11, <1>12 DEF IInv

NewIs(kind, st, asked, out) ==
  /\ New(kind, st, asked, out) \in Call
  /\ New(kind, st, asked, out).st = st /\ New(kind, st, asked, out).asked = asked
  /\ New(kind, st, asked, out).home = entry.conn /\ New(kind, st, asked, out).kind = kind
  /\ New(kind, st, asked, out).out = out /\ New(kind, st, asked, out).runs = 0
  /\ New(kind, st, asked, out).retried = FALSE

LEMMA NewType ==
  ASSUME ConstantsAssumption, Types, entry # NoEntry, NEW kind \in Kinds,
         NEW st \in {"asking", "sent", "done"}, NEW asked \in {"no", "covered", "scope", "row"},
         NEW out \in {"none", "refused"}
  PROVE  NewIs(kind, st, asked, out)
  <1>1. entry.conn \in Sess /\ kind \in AllKinds
    BY EntryConn DEF ConstantsAssumption
  <1> QED BY <1>1 DEF NewIs, New, Call

LEMMA MakeCallStep ==
  ASSUME ConstantsAssumption, IInv, NEW kind \in Kinds, MakeCall(kind) PROVE IInv'
  <1> DEFINE s == entry.conn
             free == kind \notin Writes \/ guard[s] = "none"
             covered == ~free /\ guard[s] = "confirm" /\ consent[s] > 0
             asked == IF covered THEN "covered" ELSE "no"
             R == New(kind, "sent", asked, "none")
             n == Len(calls) + 1
  <1>1. /\ entry # NoEntry /\ (free \/ covered)
        /\ calls' = Append(calls, R) /\ queue' = Append(queue, Send(n, s))
        /\ UNCHANGED <<mode, entry, connecting, guard, consent, uiTx, repl, waiters, core, heir>>
    BY DEF MakeCall, MayMake, page
  <1>2. s \in Sess /\ guard[s] \in {"none", mode} /\ mode \in ModeSet
    <2>1. s \in Sess
      BY <1>1, EntryConn DEF IInv
    <2> QED BY <2>1 DEF IInv, Types
  <1>3. Shielded(s) /\ Used(s)
    BY <1>1 DEF IInv, EntryOk, Known
  <1>4. /\ R \in Call /\ R.st = "sent" /\ R.asked = asked /\ R.home = s /\ R.kind = kind
        /\ R.out = "none" /\ R.runs = 0 /\ R.retried = FALSE
    <2>1. PICK a \in {"no", "covered"} : a = asked
      OBVIOUS
    <2>2. \A st \in {"asking", "sent", "done"}, out \in {"none", "refused"} :
            NewIs(kind, st, a, out)
      BY <1>1, NewType DEF IInv
    <2>3. NewIs(kind, "sent", a, "none")
      BY <2>2
    <2> QED BY <2>1, <2>3 DEF NewIs
  <1> HIDE DEF R
  <1>5. PICK m : m = n
    OBVIOUS
  <1>6. calls'[m] = R
    BY <1>1, <1>4, <1>5, NewCall DEF IInv
  <1>7. CallOk(m)'
    BY <1>1, <1>3, <1>4, <1>6 DEF CallOk, Used
  <1>8. Permitted(m)' \/ ClosedBefore(Len(queue) + 1, s)
    <2>1. CASE kind \notin Writes
      BY <1>4, <1>6, <2>1 DEF Permitted
    <2>2. CASE kind \in Writes /\ guard[s] = "none"
      <3>1. CASE mode = "none"
        BY <1>1, <3>1 DEF Permitted
      <3>2. CASE ClosedBefore(Len(queue) + 1, s)
        BY <3>2
      <3> QED BY <1>3, <2>2, <3>1, <3>2 DEF Shielded
    <2>3. CASE covered
      <3>1. mode = "confirm" /\ asked = "covered"
        BY <1>2, <2>3
      <3> QED BY <1>1, <1>4, <1>6, <3>1 DEF Permitted
    <2> QED BY <1>1, <2>1, <2>2, <2>3
  <1>9. ~(R.asked = "scope")
    BY <1>4
  <1>10. queue' = Append(queue, Send(m, s))
    BY <1>1, <1>5
  <1> HIDE DEF s, n
  <1> QED BY <1>1, <1>2, <1>3, <1>4, <1>5, <1>7, <1>8, <1>9, <1>10, NewCallStep DEF n

LEMMA StopCallStep ==
  ASSUME ConstantsAssumption, IInv, NEW kind \in Kinds, StopCall(kind) PROVE IInv'
  <1> DEFINE s == entry.conn
             n == Len(calls) + 1
  <1>1. /\ entry # NoEntry /\ kind \in Writes
        /\ UNCHANGED <<mode, entry, connecting, guard, consent, uiTx, repl, waiters, queue, core, heir>>
    BY DEF StopCall, MayMake, page
  <1>2. PICK m : m = n
    OBVIOUS
  <1>0. Used(s)
    BY <1>1 DEF IInv, EntryOk, Known
  <1>3. CASE calls' = Append(calls, New(kind, "done", "no", "refused"))
    <2> DEFINE R == New(kind, "done", "no", "refused")
    <2>1. /\ R \in Call /\ R.st = "done" /\ R.asked = "no" /\ R.runs = 0 /\ R.retried = FALSE
          /\ R.home = s
      <3>1. \A st \in {"asking", "sent", "done"}, asked \in {"no", "covered", "scope", "row"},
               out \in {"none", "refused"} : NewIs(kind, st, asked, out)
        BY <1>1, NewType DEF IInv
      <3>2. NewIs(kind, "done", "no", "refused")
        BY <3>1
      <3> QED BY <3>2 DEF NewIs
    <2> HIDE DEF R
    <2>2. calls' = Append(calls, R)
      BY <1>3 DEF R
    <2>3. calls'[m] = R
      BY <1>2, <2>1, <2>2, NewCall DEF IInv
    <2>4. CallOk(m)'
      BY <1>0, <1>1, <2>1, <2>3 DEF CallOk, Used
    <2> QED BY <1>1, <1>2, <2>1, <2>2, <2>4, NewCallStep
  <1>4. ASSUME guard[s] = "confirm", NEW asked \in {"scope", "row"},
               calls' = Append(calls, New(kind, "asking", asked, "none"))
        PROVE  IInv'
    <2> DEFINE R == New(kind, "asking", asked, "none")
    <2>1. /\ R \in Call /\ R.st = "asking" /\ R.asked = asked /\ R.runs = 0 /\ R.retried = FALSE
          /\ R.out = "none" /\ R.home = s
      <3>1. \A st \in {"asking", "sent", "done"}, out \in {"none", "refused"} :
              NewIs(kind, st, asked, out)
        BY <1>1, NewType DEF IInv
      <3>2. NewIs(kind, "asking", asked, "none")
        BY <3>1
      <3> QED BY <3>2 DEF NewIs
    <2> HIDE DEF R
    <2>2. calls' = Append(calls, R)
      BY <1>4 DEF R
    <2>3. calls'[m] = R
      BY <1>2, <2>1, <2>2, NewCall DEF IInv
    <2>4. mode = "confirm"
      <3>1. s \in Sess
        BY <1>1, EntryConn DEF IInv
      <3> QED BY <1>4, <3>1 DEF IInv, Types
    <2>5. CallOk(m)'
      BY <1>0, <1>1, <2>1, <2>3, <2>4 DEF CallOk, Permitted, Used
    <2> QED BY <1>1, <1>2, <2>1, <2>2, <2>5, NewCallStep
  <1> QED BY <1>3, <1>4 DEF StopCall

----------------------------------------------------------------------------
(* The steps in which one call changes.                                      *)

Renewed(c, R) ==
  /\ c \in Calls /\ R \in Call /\ calls' = [calls EXCEPT ![c] = R]
  /\ R.home = calls[c].home /\ R.asked = calls[c].asked /\ R.kind = calls[c].kind
  /\ calls[c].out = "tx" => R.out = "tx"

LEMMA OneCallStep ==
  ASSUME ConstantsAssumption, IInv, NEW c, NEW R, Renewed(c, R), UNCHANGED mode,
         NEW d \in {0, 1}, NEW N, Shifts(d, N), d = 1 => queue[1].m = "call",
         \A i \in DOMAIN queue : i > d /\ queue[i].m = "call" => queue[i].c # c,
         \A s \in Sess : Older(core[s], core'[s]),
         \A r \in N : r.m = "call" =>
           r.c = c /\ (Permitted(c)' \/ (r.s \in Sess /\ ClosedBefore(Len(queue) + 1, r.s))),
         \A r \in N : Steady => Sound(r)',
         CallOk(c)'
  PROVE  /\ Steady /\ Queued' /\ Fenced' /\ CallsOk' /\ calls' \in Seq(Call) /\ Calls' = Calls
         /\ calls'[c] = R /\ \A x \in Calls \ {c} : Untouched(x)
  <1>1. /\ calls' \in Seq(Call) /\ Calls' = Calls /\ calls'[c] = R
        /\ \A x \in Calls \ {c} : Untouched(x)
    BY OneCall DEF IInv, Renewed
  <1>2. Steady
    <2>1. \A x \in Calls : SaidStays(x)
      BY <1>1 DEF SaidStays, Untouched, Renewed
    <2> QED BY <2>1, AreSteady
  <1>3. \A i \in DOMAIN queue : i > d /\ queue[i].m = "call" => Untouched(queue[i].c)
    BY <1>1 DEF IInv, Queued, Sound
  <1>4. Queued'
    <2>1. \A r \in N, i \in DOMAIN queue : i > d => ~SameCall(queue[i], r)
      BY DEF SameCall
    <2> QED BY <1>2, <1>3, <2>1, QueuedStays DEF IInv
  <1>5. Fenced'
    <2>1. ASSUME NEW r \in N, r.m = "call"
          PROVE  Permitted(r.c)' \/ (r.s \in Sess /\ ClosedBefore(Len(queue) + 1, r.s))
      <3>1. r.c = c
        BY <2>1
      <3> QED BY <2>1, <3>1 DEF Permitted
    <2> QED BY <1>2, <1>3, <2>1, FencedStays DEF IInv
  <1>6. CallsOk'
    BY <1>1, <1>2, CallStays DEF IInv, CallsOk
  <1> QED BY <1>1, <1>2, <1>4, <1>5, <1>6

(* A call that was not waiting is in nobody's way.                           *)
LEMMA WaitersAlone ==
  ASSUME Types, Waits, Steady, UNCHANGED waiters, NEW c, calls[c].st # "waiting",
         \A x \in Calls \ {c} : Untouched(x)
  PROVE  Waits'
  BY WaitsStay DEF Waits, Waiting

(* The user confirms.                                                        *)
LEMMA ConsentBegun ==
  ASSUME Types, ConsentIsScoped, NEW c \in Calls, calls[c].st = "asking", Calls' = Calls,
         \A x \in Calls : SameHome(x), \A x \in Calls \ {c} : Untouched(x), Going(c)',
         consent' = IF calls[c].asked = "scope"
                    THEN [consent EXCEPT ![calls[c].home] = @ + 1] ELSE consent
  PROVE  ConsentIsScoped' /\ consent' \in [Sess -> Nat]
  <1>1. ~Going(c) /\ calls[c].home \in Sess /\ consent \in [Sess -> Nat]
    BY CallsFacts DEF Going, Call, Types
  <1>2. ASSUME NEW s \in Sess
        PROVE  consent'[s] = Cardinality(Scoped(s)')
    <2>1. CASE calls[c].asked = "scope" /\ calls[c].home = s
      <3>1. Scoped(s)' = Scoped(s) \cup {c} /\ c \notin Scoped(s)
        BY <1>1, <2>1 DEF Scoped, SameHome, Untouched, Going
      <3>2. Cardinality(Scoped(s) \cup {c}) = Cardinality(Scoped(s)) + 1
        BY <3>1, ScopedFinite, FS_AddElement
      <3> QED BY <1>1, <2>1, <3>1, <3>2, ConsentCounts
    <2>2. CASE ~(calls[c].asked = "scope" /\ calls[c].home = s)
      <3>1. Scoped(s)' = Scoped(s)
        BY <1>1, <2>2 DEF Scoped, SameHome, Untouched, Going
      <3> QED BY <1>1, <2>2, <3>1, ConsentCounts
    <2> QED BY <2>1, <2>2
  <1>3. consent' \in [Sess -> Nat]
    BY <1>1
  <1> QED BY <1>2, <1>3 DEF ConsentIsScoped, Scoped, Going

LEMMA ConfirmedStep ==
  ASSUME ConstantsAssumption, IInv, NEW c \in Calls, Confirmed(c) PROVE IInv'
  <1> DEFINE R == [calls[c] EXCEPT !.st = "sent"]
  <1>0. PICK s : s = calls[c].home
    OBVIOUS
  <1> DEFINE r == Send(c, s)
  <1>1. /\ calls[c].st = "asking" /\ queue' = Append(queue, r)
        /\ consent' = IF calls[c].asked = "scope" THEN [consent EXCEPT ![s] = @ + 1] ELSE consent
        /\ UNCHANGED <<mode, entry, connecting, guard, uiTx, repl, waiters, core, heir>>
    BY <1>0 DEF Confirmed
  <1>2. calls[c] \in Call /\ s \in Sess /\ c \in Nat
    <2>1. calls[c] \in Call /\ c \in Nat
      BY CallsFacts DEF IInv
    <2> QED BY <1>0, <2>1 DEF Call
  <1>3. Renewed(c, R) /\ R.st = "sent" /\ R.runs = calls[c].runs /\ R.retried = calls[c].retried
        /\ R.out = calls[c].out
    <2>1. calls' = [calls EXCEPT ![c] = R]
      BY DEF Confirmed
    <2>2. R \in Call
      BY <1>2 DEF Call
    <2> QED BY <1>2, <2>1, <2>2 DEF Renewed, Call
  <1> HIDE DEF R
  <1>4. CallOk(c) /\ Used(s)
    BY <1>0 DEF IInv, CallsOk, CallOk
  <1>5. r \in Request /\ r.m = "call" /\ r.s = s /\ r.c = c
    BY <1>2, RequestTypes DEF Send
  <1>6. Shifts(0, {r})
    BY <1>1, <1>5, ShiftAppend DEF IInv
  <1>7. calls' \in Seq(Call) /\ Calls' = Calls /\ calls'[c] = R /\ \A x \in Calls \ {c} : Untouched(x)
    BY <1>3, OneCall DEF IInv, Renewed
  <1>8. CallOk(c)' /\ Permitted(c)'
    BY <1>0, <1>1, <1>2, <1>3, <1>4, <1>7 DEF CallOk, Permitted, Renewed, Used
  <1> HIDE DEF r
  <1>10. Steady => Sound(r)'
    BY <1>0, <1>2, <1>3, <1>4, <1>5, <1>7 DEF Sound, Renewed, Steady
  <1>11. Steady /\ Queued' /\ Fenced' /\ CallsOk'
    <2>1. \A i \in DOMAIN queue : queue[i].m = "call" => queue[i].c # c
      BY <1>1 DEF IInv, Queued, Sound
    <2> QED BY <1>1, <1>3, <1>5, <1>6, <1>8, <1>10, <2>1, SameCore, OneCallStep
  <1>12. Waits'
    BY <1>1, <1>7, <1>11, WaitersAlone DEF IInv
  <1>13. ConsentIsScoped' /\ consent' \in [Sess -> Nat]
    <2>1. \A x \in Calls : SameHome(x)
      BY <1>3, <1>7 DEF SameHome, Untouched, Renewed
    <2>2. Going(c)'
      BY <1>3, <1>7 DEF Going
    <2> QED BY <1>0, <1>1, <1>7, <2>1, <2>2, ConsentBegun DEF IInv
  <1>14. EntryOk'
    <2>1. \A x \in Sess : Kept(x)
      BY <1>1 DEF Kept, InTx
    <2>2. entry # NoEntry => entry.conn \in Sess
      BY EntryConn DEF IInv
    <2> QED BY <1>1, <1>6, <1>11, <2>1, <2>2, EntryStays
  <1>15. Replaced'
    BY <1>1, <1>11, ReplacedStays DEF IInv
  <1>16. Types'
    BY <1>1, <1>6, <1>7, <1>13 DEF IInv, Types, Shifts
  <1> QED BY <1>11, <1>12, <1>13, <1>14, <1>15, <1>16 DEF IInv

LEMMA DeclinedStep ==
  ASSUME ConstantsAssumption, IInv, NEW c \in Calls, Declined(c) PROVE IInv'
  <1> DEFINE R == [calls[c] EXCEPT !.st = "done", !.out = "refused"]
  <1>1. /\ calls[c].st = "asking"
        /\ UNCHANGED <<mode, entry, connecting, guard, consent, uiTx, repl, waiters, queue, core, heir>>
    BY DEF Declined, page
  <1>2. calls[c] \in Call /\ DOMAIN calls = Calls
    BY CallsFacts DEF IInv
  <1>3. CallOk(c) /\ calls[c].out = "none"
    BY <1>1 DEF IInv, CallsOk, CallOk
  <1>4. Renewed(c, R) /\ R.st = "done" /\ R.runs = calls[c].runs /\ R.retried = calls[c].retried
    <2>1. calls' = [calls EXCEPT ![c] = R]
      BY <1>2 DEF Declined
    <2>2. R \in Call
      BY <1>2 DEF Call
    <2> QED BY <1>2, <1>3, <2>1, <2>2 DEF Renewed, Call
  <1> HIDE DEF R
  <1>5. calls' \in Seq(Call) /\ Calls' = Calls /\ calls'[c] = R /\ \A x \in Calls \ {c} : Untouched(x)
    BY <1>4, OneCall DEF IInv, Renewed
  <1>6. CallOk(c)'
    BY <1>1, <1>2, <1>3, <1>4, <1>5 DEF CallOk, Permitted, Renewed, Used, Call
  <1>7. Shifts(0, {})
    BY <1>1, ShiftSame DEF IInv
  <1>8. Steady /\ Queued' /\ Fenced' /\ CallsOk'
    <2>1. \A i \in DOMAIN queue : queue[i].m = "call" => queue[i].c # c
      BY <1>1 DEF IInv, Queued, Sound
    <2> QED BY <1>1, <1>4, <1>6, <1>7, <2>1, SameCore, OneCallStep
  <1>9. Waits'
    BY <1>1, <1>5, <1>8, WaitersAlone DEF IInv
  <1>10. ConsentIsScoped'
    <2>1. \A x \in Calls : SameHome(x) /\ (Going(x) <=> Going(x)')
      BY <1>1, <1>4, <1>5 DEF SameHome, Untouched, Renewed, Going
    <2> QED BY <1>1, <1>5, <2>1, ConsentStays DEF IInv
  <1>11. EntryOk'
    <2>1. \A x \in Sess : Kept(x)
      BY <1>1 DEF Kept, InTx
    <2>2. entry # NoEntry => entry.conn \in Sess
      BY EntryConn DEF IInv
    <2> QED BY <1>1, <1>7, <1>8, <2>1, <2>2, EntryStays
  <1>12. Replaced'
    BY <1>1, <1>8, ReplacedStays DEF IInv
  <1>13. Types'
    BY <1>1, <1>5 DEF IInv, Types
  <1> QED BY <1>8, <1>9, <1>10, <1>11, <1>12, <1>13 DEF IInv

----------------------------------------------------------------------------
(* The answer to a call.                                                    *)

Answered(c, s) ==
  /\ c \in Calls /\ s \in Sess /\ calls[c].st = "sent" /\ calls[c] \in Call /\ CallOk(c)
  /\ core[s].st # "none" /\ core[s] \in Slot
  /\ ~calls[c].retried => calls[c].home = s
  /\ core[s].st # "closed" => Permitted(c)
  /\ queue # <<>> /\ queue[1].m = "call"
  /\ \A i \in DOMAIN queue : i > 1 /\ queue[i].m = "call" => queue[i].c # c

LEMMA CallerFacts ==
  ASSUME IInv, Calling PROVE Answered(Caller, Target)
  <1>1. /\ queue # <<>> /\ Head(queue) = queue[1] /\ 1 \in DOMAIN queue /\ queue[1].m = "call"
    BY TailFacts DEF IInv, Calling
  <1>2. Sound(queue[1]) /\ Caller = queue[1].c /\ Target = queue[1].s
    BY <1>1 DEF IInv, Queued, Caller, Target
  <1>3. Caller \in Calls /\ calls[Caller].st = "sent" /\ calls[Caller] \in Call /\ CallOk(Caller)
    BY <1>1, <1>2, CallsFacts DEF IInv, Sound, CallsOk
  <1>4. Target \in Sess /\ core[Target].st # "none" /\ core[Target] \in Slot
        /\ (~calls[Caller].retried => calls[Caller].home = Target)
    BY <1>1, <1>2 DEF IInv, Types, Sound, Used
  <1>5. core[Target].st # "closed" => Permitted(Caller)
    <2>1. ~ \E j \in DOMAIN queue : j < 1
      BY QueueLen DEF IInv
    <2> QED BY <1>1, <1>2, <2>1 DEF IInv, Fenced, ClosedBefore
  <1>6. ASSUME NEW i \in DOMAIN queue, i > 1, queue[i].m = "call" PROVE queue[i].c # Caller
    <2>1. i \in Nat /\ i # 1
      BY <1>6, QueueLen DEF IInv
    <2> QED BY <1>1, <1>2, <1>6, <2>1 DEF IInv, Queued, SameCall
  <1> QED BY <1>1, <1>3, <1>4, <1>5, <1>6 DEF Answered

LEMMA IndicatedOne ==
  ASSUME NEW c, NEW s \in Sess
  PROVE  Indicated(<<c>>)[s] = IF calls[c].home = s /\ calls[c].kind \in {"begin", "rollback"}
                               THEN calls[c].kind = "begin" ELSE uiTx[s]
  <1> DEFINE W == <<c>>
             mine == {i \in DOMAIN W : calls[W[i]].home = s
                                       /\ calls[W[i]].kind \in {"begin", "rollback"}}
  <1>1. DOMAIN W = {1} /\ W[1] = c
    BY SMTT(30)
  <1>0. Indicated(W)[s] = (IF mine = {} THEN uiTx[s]
          ELSE calls[W[CHOOSE i \in mine : \A j \in mine : j <= i]].kind = "begin")
    BY DEF Indicated
  <1> HIDE DEF W
  <1>2. CASE calls[c].home = s /\ calls[c].kind \in {"begin", "rollback"}
    <2>1. mine = {1}
      BY <1>1, <1>2
    <2>2. (CHOOSE i \in mine : \A j \in mine : j <= i) = 1
      BY <2>1
    <2> HIDE DEF mine
    <2>3. Indicated(W)[s] = (calls[W[1]].kind = "begin")
      BY SMTT(30), <1>0, <2>1, <2>2
    <2> QED BY <1>1, <1>2, <2>3 DEF W
  <1>3. CASE ~(calls[c].home = s /\ calls[c].kind \in {"begin", "rollback"})
    <2>1. mine = {}
      BY <1>1, <1>3
    <2> QED BY <1>3, <2>1 DEF Indicated, W
  <1> QED BY <1>2, <1>3

LEMMA IndicatedType ==
  ASSUME Types, NEW W PROVE Indicated(W) \in [Sess -> BOOLEAN]
  <1>1. ASSUME NEW s \in Sess PROVE Indicated(W)[s] \in BOOLEAN
    BY DEF Indicated, Types
  <1> QED BY <1>1 DEF Indicated

(* The call returns.                                                         *)
LEMMA CallEnds ==
  ASSUME ConstantsAssumption, IInv, NEW c, NEW s, Answered(c, s),
         NEW R, Renewed(c, R), R.st = "done", CallOk(c)',
         UNCHANGED <<mode, waiters>>, queue' = Tail(queue), consent' = Released({c}),
         \A x \in Sess : Older(core[x], core'[x])
  PROVE  /\ Steady /\ Queued' /\ Fenced' /\ CallsOk' /\ Waits' /\ ConsentIsScoped'
         /\ consent' \in [Sess -> Nat] /\ calls' \in Seq(Call) /\ queue' \in Seq(Request)
         /\ Shifts(1, {}) /\ Calls' = Calls /\ calls'[c] = R
  <1>1. Shifts(1, {})
    BY ShiftTail DEF IInv, Answered
  <1>2. /\ Steady /\ Queued' /\ Fenced' /\ CallsOk' /\ calls' \in Seq(Call) /\ Calls' = Calls
        /\ calls'[c] = R /\ \A x \in Calls \ {c} : Untouched(x)
    BY <1>1, OneCallStep DEF Answered
  <1>3. Waits'
    BY <1>2, WaitersAlone DEF IInv, Answered
  <1>4. ConsentIsScoped' /\ consent' \in [Sess -> Nat]
    <2>1. \A x \in Calls : SameHome(x) /\ (Going(x)' <=> Going(x) /\ x \notin {c})
      BY <1>2 DEF SameHome, Untouched, Renewed, Going
    <2>2. {c} \in SUBSET Calls /\ \A x \in {c} : Going(x)
      BY DEF Answered, Going
    <2> HIDE DEF Going
    <2>3. PICK F \in SUBSET Calls : F = {c}
      BY <2>2
    <2> QED BY <1>2, <2>1, <2>2, <2>3, ConsentReleased DEF IInv
  <1> QED BY <1>1, <1>2, <1>3, <1>4 DEF Shifts

(* What the page and the core keep of every session but the one that answers *)
(* is as it was.                                                            *)
LEMMA OthersKept ==
  ASSUME NEW c, NEW s, Answered(c, s), NEW x \in Sess, x # s, core'[x] = core[x],
         uiTx' = uiTx \/ uiTx' = Indicated(<<c>>)
         \/ (calls[c].kind = "typedBegin" /\ uiTx' = [uiTx EXCEPT ![calls[c].home] = TRUE])
  PROVE  Kept(x)
  <1>1. calls[c].home = x => calls[c].kind \notin {"begin", "rollback", "typedBegin"}
    BY DEF Answered, CallOk, RetrySafe
  <1>2. CASE uiTx' = uiTx
    BY <1>2 DEF Kept, InTx
  <1>3. CASE uiTx' = Indicated(<<c>>)
    <2>1. uiTx'[x] = uiTx[x]
      BY <1>1, <1>3, IndicatedOne
    <2> QED BY <2>1 DEF Kept, InTx
  <1>4. CASE calls[c].kind = "typedBegin" /\ uiTx' = [uiTx EXCEPT ![calls[c].home] = TRUE]
    <2>1. calls[c].home # x
      BY <1>1, <1>4
    <2>2. uiTx[x] => uiTx'[x]
      BY <1>4, <2>1
    <2> QED BY <2>2 DEF Kept, InTx
  <1> QED BY <1>2, <1>3, <1>4

LEMMA CallServedStep == ASSUME ConstantsAssumption, IInv, CallServed PROVE IInv'
  <1>1. PICK c, s : c = Caller /\ s = Target
    OBVIOUS
  <1>2. Answered(c, s)
    BY <1>1, CallerFacts DEF CallServed
  <1> DEFINE k == calls[c].kind
             t == Effect(k, core[s])
             R == [calls[c] EXCEPT !.st = "done", !.out = "ok", !.runs = @ + 1]
  <1>3. /\ core[s].st = "open" /\ core' = [core EXCEPT ![s] = t]
        /\ consent' = Released({c}) /\ queue' = Tail(queue)
        /\ uiTx' = IF k = "typedBegin" THEN [uiTx EXCEPT ![calls[c].home] = TRUE]
                   ELSE Indicated(<<c>>)
        /\ UNCHANGED <<mode, entry, connecting, guard, repl, waiters, heir>>
    BY <1>1 DEF CallServed
  <1>4. t \in Slot /\ t.st = "open"
        /\ (k \in {"begin", "editBegin"} => t.flag) /\ (k = "rollback" => ~t.eng)
        /\ (k \notin {"begin", "editBegin", "typedBegin", "rollback"} => t = core[s])
    BY <1>2, <1>3 DEF Effect, Slot, Answered
  <1>5. Renewed(c, R) /\ R.st = "done" /\ R.runs = calls[c].runs + 1
        /\ R.retried = calls[c].retried /\ R.out = "ok"
    <2>1. calls' = [calls EXCEPT ![c] = R]
      BY <1>1, <1>2, CallsFacts DEF CallServed, IInv, Answered
    <2>2. R \in Call
      <3>1. calls[c] \in Call
        BY <1>2 DEF Answered
      <3>2. calls[c].runs + 1 \in Nat
        BY <3>1 DEF Call
      <3> QED BY <3>1, <3>2 DEF Call
    <2>3. calls[c].out # "tx"
      BY <1>2 DEF Answered, CallOk
    <2> QED BY <1>2, <2>1, <2>2, <2>3 DEF Renewed, Call, Answered
  <1> HIDE DEF R, t
  <1>6. core' \in [Sess -> Slot] /\ core'[s] = t /\ \A x \in Sess \ {s} : core'[x] = core[x]
    BY <1>2, <1>3, <1>4 DEF IInv, Types, Answered
  <1>7. /\ \A x \in Sess : Older(core[x], core'[x])
        /\ \A x \in Sess : core'[x].st = "none" => core'[x] = core[x]
    BY <1>3, <1>4, <1>6 DEF Older
  <1>8. CallOk(c)'
    <2>1. calls'[c] = R
      BY <1>5, OneCall DEF IInv, Renewed
    <2>2. Permitted(c)'
      BY <1>2, <1>3, <1>5, <2>1 DEF Answered, Permitted, Renewed
    <2>3. calls[c].runs + 1 <= (IF calls[c].retried THEN 1 ELSE 0) + 1
      BY <1>2 DEF Answered, CallOk, Call
    <2>4. PICK h : h = calls[c].home /\ h \in Sess /\ core'[h].st # "none"
      BY <1>2, <1>7 DEF Answered, CallOk, Used, Older
    <2> QED BY <1>2, <1>5, <2>1, <2>2, <2>3, <2>4 DEF Answered, CallOk, Renewed, Used
  <1>9. /\ Steady /\ Queued' /\ Fenced' /\ CallsOk' /\ Waits' /\ ConsentIsScoped'
        /\ consent' \in [Sess -> Nat] /\ calls' \in Seq(Call) /\ queue' \in Seq(Request)
        /\ Shifts(1, {})
    BY <1>2, <1>3, <1>5, <1>7, <1>8, CallEnds
  <1>10. \A x \in Sess \ {s} : Kept(x)
    <2>1. \/ uiTx' = Indicated(<<c>>)
          \/ calls[c].kind = "typedBegin" /\ uiTx' = [uiTx EXCEPT ![calls[c].home] = TRUE]
      BY <1>3
    <2> QED BY <1>2, <1>6, <2>1, OthersKept
  <1>11. Known(s) => Kept(s) \/ Known(s)'
    <2>1. s \in Sess /\ Used(s)'
      BY <1>2, <1>4, <1>6 DEF Answered, Used
    <2>2. CASE k \in {"begin", "editBegin"}
      BY <1>4, <1>6, <2>1, <2>2 DEF Known
    <2>3. CASE k = "rollback"
      BY <1>4, <1>6, <2>1, <2>3 DEF Known, InTx
    <2>4. CASE k = "typedBegin"
      <3>1. calls[c].home = s
        BY <1>2, <2>4 DEF Answered, CallOk, RetrySafe
      <3>2. uiTx'[s]
        BY <1>3, <2>1, <2>4, <3>1 DEF IInv, Types
      <3> QED BY <2>1, <3>2 DEF Known
    <2>5. CASE k \notin {"begin", "editBegin", "typedBegin", "rollback"}
      <3>1. uiTx'[s] = uiTx[s]
        BY <1>3, <2>1, <2>5, IndicatedOne
      <3>2. core'[s] = core[s]
        BY <1>4, <1>6, <2>5
      <3> QED BY <3>1, <3>2 DEF Kept, InTx
    <2> QED BY <2>2, <2>3, <2>4, <2>5
  <1>12. EntryOk'
    <2>1. entry # NoEntry => entry.conn \in Sess /\ Known(entry.conn)
      BY EntryConn DEF IInv, EntryOk
    <2> QED BY <1>2, <1>3, <1>9, <1>10, <1>11, <2>1, EntryStays DEF Answered
  <1>13. Replaced'
    BY <1>3, <1>7, <1>9, ReplacedStays DEF IInv
  <1>14. Types'
    <2>1. uiTx' \in [Sess -> BOOLEAN]
      BY <1>3, IndicatedType DEF IInv, Types
    <2> QED BY <1>3, <1>6, <1>9, <2>1 DEF IInv, Types
  <1> QED BY <1>9, <1>12, <1>13, <1>14 DEF IInv

(* Ended for one call.                                                       *)
LEMMA EndedOne ==
  ASSUME Types, NEW c \in Calls, NEW out,
         NEW R, R = [calls[c] EXCEPT !.st = "done", !.out = out]
  PROVE  Ended({c}, out) = [calls EXCEPT ![c] = R]
  BY CallsFacts DEF Ended, Types

LEMMA CallRefusedStep == ASSUME ConstantsAssumption, IInv, CallRefused PROVE IInv'
  <1>1. PICK c, s : c = Caller /\ s = Target
    OBVIOUS
  <1>2. Answered(c, s)
    BY <1>1, CallerFacts DEF CallRefused
  <1> DEFINE R == [calls[c] EXCEPT !.st = "done", !.out = "error"]
  <1>3. /\ core[s].st = "closed" /\ calls' = Ended({c}, "error")
        /\ consent' = Released({c}) /\ queue' = Tail(queue) /\ uiTx' = Indicated(<<c>>)
        /\ UNCHANGED <<mode, entry, connecting, guard, repl, waiters, core, heir>>
    BY <1>1 DEF CallRefused
  <1>4. Renewed(c, R) /\ R.st = "done" /\ R.runs = calls[c].runs
        /\ R.retried = calls[c].retried /\ R.out = "error"
    <2>1. calls' = [calls EXCEPT ![c] = R]
      BY ZenonT(30), <1>2, <1>3, EndedOne DEF IInv, Answered
    <2>2. R \in Call
      BY <1>2 DEF Call, Answered
    <2>3. calls[c].out # "tx"
      BY <1>2 DEF Answered, CallOk
    <2> QED BY <1>2, <2>1, <2>2, <2>3 DEF Renewed, Call, Answered
  <1> HIDE DEF R
  <1>5. CallOk(c)'
    <2>1. calls'[c] = R
      BY <1>4, OneCall DEF IInv, Renewed
    <2>2. calls[c].runs > 0 => Permitted(c)'
      BY <1>2, <1>3, <1>4, <2>1 DEF Answered, CallOk, Permitted, Renewed
    <2>3. calls[c].runs <= (IF calls[c].retried THEN 1 ELSE 0) + 1
      BY <1>2 DEF Answered, CallOk, Call
    <2>4. PICK h : h = calls[c].home /\ h \in Sess /\ core'[h].st # "none"
      BY <1>2, <1>3 DEF Answered, CallOk, Used
    <2> QED BY <1>2, <1>4, <2>1, <2>2, <2>3, <2>4 DEF Answered, CallOk, Renewed, Used
  <1>6. /\ Steady /\ Queued' /\ Fenced' /\ CallsOk' /\ Waits' /\ ConsentIsScoped'
        /\ consent' \in [Sess -> Nat] /\ calls' \in Seq(Call) /\ queue' \in Seq(Request)
        /\ Shifts(1, {})
    BY <1>2, <1>3, <1>4, <1>5, SameCore, CallEnds
  <1>7. EntryOk'
    <2>1. entry # NoEntry => entry.conn \in Sess
      BY EntryConn DEF IInv
    <2>2. \A x \in Sess \ {s} : Kept(x)
      BY <1>2, <1>3, OthersKept
    <2>3. Kept(s)
      BY <1>3 DEF Kept, InTx
    <2> QED BY <1>2, <1>3, <1>6, <2>1, <2>2, <2>3, EntryStays DEF Answered
  <1>8. Replaced'
    BY <1>3, <1>6, ReplacedStays DEF IInv
  <1>9. Types'
    <2>1. uiTx' \in [Sess -> BOOLEAN]
      BY <1>3, IndicatedType DEF IInv
    <2> QED BY <1>3, <1>6, <2>1 DEF IInv, Types
  <1> QED BY <1>6, <1>7, <1>8, <1>9 DEF IInv

----------------------------------------------------------------------------
(* A call that finds its session dead, or under which it dies.               *)

LostSession(c, s) ==
  /\ Answered(c, s) /\ core[s].st \in {"open", "dead"}
  /\ core' \in [Sess -> Slot] /\ core'[s].st = "dead"
  /\ \A x \in Sess \ {s} : core'[x] = core[x]
  /\ core'[s].lostTx => InTx(s)
  /\ core[s].st = "dead" => core'[s].lostTx = core[s].lostTx
  /\ calls[c].kind # "rollback" => (core[s].flag => core'[s].flag)
  /\ UNCHANGED <<mode, connecting, guard, heir>>

LEMMA LostCore ==
  ASSUME IInv, NEW c, NEW s, LostSession(c, s), NEW R, Renewed(c, R)
  PROVE  /\ Steady /\ s \in Sess
         /\ \A x \in Sess : Older(core[x], core'[x])
         /\ \A x \in Sess : core'[x].st = "none" => core'[x] = core[x]
         /\ Settled(s) \/ (Known(s) /\ ~core[s].flag /\ ~uiTx[s]) => Settled(s)' /\ Known(s)'
  <1>1. /\ \A x \in Sess : Older(core[x], core'[x])
        /\ \A x \in Sess : core'[x].st = "none" => core'[x] = core[x]
    BY DEF LostSession, Older
  <1>2. Steady
    <2>1. \A x \in Calls : SaidStays(x)
      BY OneCall DEF IInv, Renewed, SaidStays, Untouched
    <2> QED BY <1>1, <2>1, AreSteady
  <1>3. s \in Sess
    BY DEF LostSession, Answered
  <1>4. ASSUME Settled(s) \/ (Known(s) /\ ~core[s].flag /\ ~uiTx[s])
        PROVE  Settled(s)' /\ Known(s)'
    <2>1. core'[s].lostTx => Said(s)
      BY <1>4 DEF LostSession, Settled, Known, InTx
    <2>2. core'[s].lostTx => Said(s)'
      BY <1>2, <1>3, <2>1 DEF Steady
    <2>3. core'[s].st = "dead"
      BY DEF LostSession
    <2> QED BY <1>3, <2>2, <2>3 DEF Settled, Known, Used, InTx
  <1> QED BY <1>1, <1>2, <1>3, <1>4

(* What the call may have run.                                               *)
LEMMA LostCallOk ==
  ASSUME IInv, NEW c, NEW s, LostSession(c, s), NEW R, Renewed(c, R), NEW done \in {0, 1},
         R.runs = calls[c].runs + done,
         \/ R.st \in {"waiting", "done"} /\ R.retried = calls[c].retried
         \/ R.st = "sent" /\ MayRetry(c) /\ R.retried = TRUE,
         R.st # "done" => R.out = "none"
  PROVE  CallOk(c)'
  <1>1. calls'[c] = R
    BY OneCall DEF IInv, Renewed
  <1>2. Permitted(c) /\ CallOk(c) /\ calls[c].st = "sent" /\ calls[c] \in Call
    BY DEF LostSession, Answered
  <1>3. Permitted(c)'
    BY <1>1, <1>2 DEF Permitted, Renewed, LostSession
  <1>4. PICK h : h = calls[c].home /\ h \in Sess /\ core'[h].st # "none"
    BY <1>2 DEF CallOk, Used, LostSession
  <1>5. R.home = h /\ R.kind = calls[c].kind
    BY <1>4 DEF Renewed
  <1>6. CASE R.st \in {"waiting", "done"} /\ R.retried = calls[c].retried
    <2>1. calls[c].runs + done <= (IF calls[c].retried THEN 1 ELSE 0) + 1
      BY <1>2 DEF CallOk, Call
    <2> QED BY <1>1, <1>2, <1>3, <1>4, <1>5, <1>6, <2>1 DEF CallOk, Used
  <1>7. CASE R.st = "sent" /\ MayRetry(c) /\ R.retried = TRUE
    <2>1. calls[c].runs + done <= 1
      BY <1>2, <1>7 DEF CallOk, Call, MayRetry
    <2> QED BY <1>1, <1>2, <1>3, <1>4, <1>5, <1>7, <2>1 DEF CallOk, Used, MayRetry
  <1> QED BY <1>6, <1>7

Ran(c, done) == [calls EXCEPT ![c].runs = @ + done]

LEMMA RanOnce ==
  ASSUME Types, NEW c \in Calls, calls[c] \in Call, NEW done \in {0, 1}
  PROVE  /\ DOMAIN Ran(c, done) = DOMAIN calls /\ c \in DOMAIN calls
         /\ Ran(c, done)[c] \in Call
         /\ Ran(c, done)[c].runs = calls[c].runs + done
         /\ Ran(c, done)[c].st = calls[c].st /\ Ran(c, done)[c].home = calls[c].home
         /\ Ran(c, done)[c].asked = calls[c].asked /\ Ran(c, done)[c].kind = calls[c].kind
         /\ Ran(c, done)[c].out = calls[c].out /\ Ran(c, done)[c].retried = calls[c].retried
         /\ \A R : [Ran(c, done) EXCEPT ![c] = R] = [calls EXCEPT ![c] = R]
  <1>1. c \in DOMAIN calls
    BY CallsFacts
  <1>2. calls[c].runs + done \in Nat
    BY DEF Call
  <1>3. Ran(c, done)[c] = [calls[c] EXCEPT !.runs = @ + done]
    BY <1>1 DEF Ran
  <1>4. Ran(c, done)[c] \in Call
    BY <1>2, <1>3 DEF Call
  <1>5. \A R : [Ran(c, done) EXCEPT ![c] = R] = [calls EXCEPT ![c] = R]
    BY <1>1 DEF Ran
  <1>6. DOMAIN Ran(c, done) = DOMAIN calls
    BY DEF Ran
  <1>7. /\ Ran(c, done)[c].runs = calls[c].runs + done
        /\ Ran(c, done)[c].st = calls[c].st /\ Ran(c, done)[c].home = calls[c].home
        /\ Ran(c, done)[c].asked = calls[c].asked /\ Ran(c, done)[c].kind = calls[c].kind
        /\ Ran(c, done)[c].out = calls[c].out /\ Ran(c, done)[c].retried = calls[c].retried
    BY <1>3 DEF Call
  <1> QED BY <1>1, <1>4, <1>5, <1>6, <1>7

(* It is told so, and returns.                                               *)
LEMMA LostEnds ==
  ASSUME ConstantsAssumption, IInv, NEW c, NEW s, LostSession(c, s), NEW done \in {0, 1},
         NEW out \in {"down", "tx", "unsafe"},
         calls' = [Ran(c, done) EXCEPT ![c].st = "done", ![c].out = out],
         consent' = Released({c}), uiTx' = Indicated(<<c>>), queue' = Tail(queue),
         UNCHANGED <<repl, waiters>>,
         \/ entry' = entry
         \/ entry # NoEntry /\ entry.conn = s /\ entry' \in Entry /\ entry'.conn = s /\ ~entry'.retry,
         \/ entry = NoEntry \/ entry.conn # s \/ Settled(s)
         \/ out = "tx" /\ (core[s].flag \/ uiTx[s])
  PROVE  IInv'
  <1> DEFINE R == [Ran(c, done)[c] EXCEPT !.st = "done", !.out = out]
  <1>1. Answered(c, s) /\ c \in Calls /\ s \in Sess /\ calls[c] \in Call /\ CallOk(c)
        /\ calls[c].out = "none"
    BY DEF LostSession, Answered, CallOk
  <1>2. Renewed(c, R) /\ R.st = "done" /\ R.runs = calls[c].runs + done
        /\ R.retried = calls[c].retried /\ R.out = out /\ R.home = calls[c].home
    <2>1. /\ Ran(c, done)[c] \in Call /\ Ran(c, done)[c].runs = calls[c].runs + done
          /\ Ran(c, done)[c].home = calls[c].home /\ Ran(c, done)[c].asked = calls[c].asked
          /\ Ran(c, done)[c].kind = calls[c].kind /\ Ran(c, done)[c].retried = calls[c].retried
      BY <1>1, RanOnce DEF IInv
    <2>2. R \in Call /\ R.st = "done" /\ R.out = out /\ R.runs = Ran(c, done)[c].runs
          /\ R.home = Ran(c, done)[c].home /\ R.asked = Ran(c, done)[c].asked
          /\ R.kind = Ran(c, done)[c].kind /\ R.retried = Ran(c, done)[c].retried
      BY <2>1 DEF Call
    <2>3. calls' = [Ran(c, done) EXCEPT ![c] = R]
      BY <1>1, RanOnce DEF IInv
    <2> HIDE DEF R
    <2>4. calls' = [calls EXCEPT ![c] = R]
      BY <2>3 DEF Ran
    <2> QED BY <1>1, <2>1, <2>2, <2>4 DEF Renewed
  <1> HIDE DEF R
  <1>3. /\ Steady /\ \A x \in Sess : Older(core[x], core'[x])
        /\ \A x \in Sess : core'[x].st = "none" => core'[x] = core[x]
        /\ Settled(s) => Known(s)'
    BY <1>2, LostCore
  <1>4. CallOk(c)'
    BY <1>2, LostCallOk
  <1>5. /\ Steady /\ Queued' /\ Fenced' /\ CallsOk' /\ Waits' /\ ConsentIsScoped'
        /\ consent' \in [Sess -> Nat] /\ calls' \in Seq(Call) /\ queue' \in Seq(Request)
        /\ Shifts(1, {}) /\ Calls' = Calls /\ calls'[c] = R
    BY ZenonT(30), <1>1, <1>2, <1>3, <1>4, CallEnds DEF LostSession
  <1>6. \A x \in Sess \ {s} : Kept(x)
    BY <1>1, OthersKept DEF LostSession
  <1>7. ASSUME entry # NoEntry, entry.conn = s PROVE Known(s)'
    <2>1. Used(s)'
      BY <1>1 DEF LostSession, Used
    <2>2. CASE Settled(s)
      BY <1>3, <2>2
    <2>3. CASE out = "tx" /\ ~calls[c].retried
      <3>1. R.home = s
        BY <1>1, <1>2, <2>3 DEF Answered
      <3>2. Said(s)'
        BY <1>1, <1>2, <1>5, <2>3, <3>1 DEF Said
      <3> QED BY <2>1, <3>2 DEF Known
    <2>4. CASE calls[c].retried /\ (core[s].flag \/ uiTx[s])
      <3>1. calls[c].kind \in RetrySafe
        BY <1>1, <2>4 DEF CallOk
      <3>2. core[s].flag => core'[s].flag
        BY <3>1 DEF LostSession, RetrySafe
      <3>3. uiTx'[s] = uiTx[s]
        BY <1>1, <3>1, IndicatedOne DEF RetrySafe
      <3> QED BY <2>1, <2>4, <3>2, <3>3 DEF Known
    <2> QED BY <1>7, <2>2, <2>3, <2>4
  <1>8. EntryOk'
    <2>1. entry # NoEntry => entry.conn \in Sess
      BY EntryConn DEF IInv
    <2> QED BY <1>1, <1>5, <1>6, <1>7, <2>1, EntryStays DEF Answered, LostSession
  <1>9. Replaced'
    BY <1>3, ReplacedStays DEF IInv, LostSession
  <1>10. Types'
    <2>1. uiTx' \in [Sess -> BOOLEAN]
      BY IndicatedType DEF IInv
    <2> QED BY <1>5, <2>1 DEF IInv, Types, LostSession
  <1> QED BY <1>5, <1>8, <1>9, <1>10 DEF IInv

(* One more call waits for the session to be replaced.                       *)
LEMMA WaitersGrow ==
  ASSUME Types, Waits, Steady, NEW c \in Calls, calls[c].st # "waiting", Waiting(c)',
         waiters' = Append(waiters, c), \A x \in Calls \ {c} : Untouched(x)
  PROVE  Waits' /\ waiters' \in Seq(Nat)
  <1>1. waiters \in Seq(Nat) /\ c \in Nat
    BY CallsFacts DEF Types
  <1>0. PICK n : n = Len(waiters) + 1
    OBVIOUS
  <1>2. /\ waiters' \in Seq(Nat) /\ DOMAIN waiters = 1..Len(waiters) /\ DOMAIN waiters' = 1..n
        /\ Len(waiters) \in Nat /\ waiters'[n] = c
        /\ \A i \in 1..Len(waiters) : waiters'[i] = waiters[i]
    BY <1>0, <1>1, AppendProperties, LenProperties
  <1>3. ASSUME NEW i \in 1..Len(waiters) PROVE waiters[i] # c /\ Waiting(waiters[i])'
    <2>1. PICK x : x = waiters[i]
      OBVIOUS
    <2>2. Waiting(x) /\ x # c
      BY <1>2, <2>1 DEF Waits, Waiting
    <2>3. Untouched(x) /\ calls[x].home \in Sess
      BY <2>2, CallsFacts DEF Waiting, Call
    <2>4. Waiting(x)'
      BY <2>2, <2>3 DEF Waiting, Untouched, Steady
    <2>5. waiters'[i] = x
      BY <1>2, <2>1
    <2> QED BY <2>1, <2>2, <2>4, <2>5 DEF Waiting
  <1>4. Waiting(waiters[n])'
    BY <1>2 DEF Waiting
  <1>5. \A i \in DOMAIN waiters' : Waiting(waiters[i])'
    BY <1>0, <1>2, <1>3, <1>4
  <1>6. \A i, j \in DOMAIN waiters' : waiters'[i] = waiters'[j] => i = j
    BY <1>0, <1>2, <1>3 DEF Waits
  <1> QED BY <1>2, <1>5, <1>6 DEF Waits

LEMMA LostWaits ==
  ASSUME ConstantsAssumption, IInv, NEW c, NEW s, LostSession(c, s), NEW done \in {0, 1},
         calls' = [Ran(c, done) EXCEPT ![c].st = "waiting"], waiters' = Append(waiters, c),
         UNCHANGED <<consent, uiTx>>,
         NEW N, Shifts(1, N), \A r \in N : r.m # "call" /\ (Settled(s)' => Sound(r)'),
         repl' \in [Sess -> 0..(MaxSess + 1)],
         \A x \in Sess \ {s} : repl'[x] = repl[x], repl'[s] \in {repl[s], Pending},
         Settled(s) \/ (Known(s) /\ ~core[s].flag /\ ~uiTx[s]),
         entry' \in Entry \cup {NoEntry},
         entry' # NoEntry => /\ entry # NoEntry /\ entry'.conn = entry.conn
                             /\ entry'.lost = entry.lost /\ entry'.retry = entry.retry
  PROVE  IInv'
  <1> DEFINE R == [Ran(c, done)[c] EXCEPT !.st = "waiting"]
  <1>1. Answered(c, s) /\ c \in Calls /\ s \in Sess /\ calls[c] \in Call /\ CallOk(c)
        /\ calls[c].out = "none" /\ calls[c].st = "sent"
    BY DEF LostSession, Answered, CallOk
  <1>2. Renewed(c, R) /\ R.st = "waiting" /\ R.runs = calls[c].runs + done
        /\ R.retried = calls[c].retried /\ R.out = "none" /\ R.home = calls[c].home
    <2>1. /\ Ran(c, done)[c] \in Call /\ Ran(c, done)[c].runs = calls[c].runs + done
          /\ Ran(c, done)[c].home = calls[c].home /\ Ran(c, done)[c].asked = calls[c].asked
          /\ Ran(c, done)[c].kind = calls[c].kind /\ Ran(c, done)[c].retried = calls[c].retried
          /\ Ran(c, done)[c].out = "none"
      BY <1>1, RanOnce DEF IInv
    <2>2. R \in Call /\ R.st = "waiting" /\ R.out = "none" /\ R.runs = Ran(c, done)[c].runs
          /\ R.home = Ran(c, done)[c].home /\ R.asked = Ran(c, done)[c].asked
          /\ R.kind = Ran(c, done)[c].kind /\ R.retried = Ran(c, done)[c].retried
      BY <2>1 DEF Call
    <2>3. calls' = [Ran(c, done) EXCEPT ![c] = R]
      BY <1>1, RanOnce DEF IInv
    <2> HIDE DEF R
    <2>4. calls' = [calls EXCEPT ![c] = R]
      BY <2>3 DEF Ran
    <2> QED BY <1>1, <2>1, <2>2, <2>4 DEF Renewed
  <1> HIDE DEF R
  <1>3. /\ Steady /\ \A x \in Sess : Older(core[x], core'[x])
        /\ \A x \in Sess : core'[x].st = "none" => core'[x] = core[x]
        /\ Settled(s)' /\ Known(s)'
    BY <1>2, LostCore
  <1>4. CallOk(c)'
    BY <1>2, LostCallOk
  <1>5. /\ Queued' /\ Fenced' /\ CallsOk' /\ calls' \in Seq(Call) /\ Calls' = Calls
        /\ calls'[c] = R /\ \A x \in Calls \ {c} : Untouched(x)
    <2>1. \A x \in N : x.m # "call" /\ Sound(x)'
      BY <1>3
    <2>2. UNCHANGED mode
      BY DEF LostSession
    <2>3. queue[1].m = "call" /\ \A i \in DOMAIN queue : i > 1 /\ queue[i].m = "call" => queue[i].c # c
      BY <1>1 DEF Answered
    <2> QED BY <1>2, <1>3, <1>4, <2>1, <2>2, <2>3, OneCallStep
  <1>6. Waits' /\ waiters' \in Seq(Nat)
    <2>1. calls[c].kind \notin RetrySafe => calls[c].home = s
      BY <1>1 DEF Answered, CallOk
    <2>2. R.kind = calls[c].kind /\ R.home = calls[c].home
      BY <1>2 DEF Renewed
    <2>3. Waiting(c)'
      BY <1>1, <1>2, <1>3, <1>5, <2>1, <2>2 DEF Waiting
    <2> QED BY <1>1, <1>3, <1>5, <2>3, WaitersGrow DEF IInv
  <1>7. ConsentIsScoped'
    <2>1. \A x \in Calls : SameHome(x) /\ (Going(x) <=> Going(x)')
      BY <1>1, <1>2, <1>5 DEF SameHome, Untouched, Renewed, Going
    <2> QED BY <1>5, <2>1, ConsentStays DEF IInv
  <1>8. EntryOk'
    <2>1. entry # NoEntry => entry.conn \in Sess
      BY EntryConn DEF IInv
    <2>2. \A x \in Sess \ {s} : Kept(x)
      BY <1>1, OthersKept DEF LostSession
    <2> QED BY <1>1, <1>3, <2>1, <2>2, EntryStays DEF Answered, LostSession
  <1>9. Replaced'
    <2>1. Pending \notin Sess
      BY DEF Pending, Sess, ConstantsAssumption
    <2>2. \A x \in Sess : \/ repl'[x] = repl[x]
                          \/ /\ repl'[x] # NotReplaced => Settled(x)'
                             /\ repl'[x] \in Sess => Used(repl[x])'
      BY <1>3, <2>1
    <2> QED BY <1>3, <2>2, ReplacedStays DEF IInv, LostSession
  <1>10. Types'
    BY <1>5, <1>6 DEF IInv, Types, LostSession, Shifts
  <1> QED BY <1>3, <1>5, <1>6, <1>7, <1>8, <1>9, <1>10 DEF IInv

(* It is sent again, to the session that took over.                          *)
LEMMA LostAgain ==
  ASSUME ConstantsAssumption, IInv, NEW c, NEW s, LostSession(c, s), NEW done \in {0, 1},
         calls' = [Ran(c, done) EXCEPT ![c].retried = TRUE], MayRetry(c),
         NEW n \in Sess, repl[s] = n, queue' = Append(Tail(queue), Send(c, n)),
         UNCHANGED <<entry, consent, uiTx, repl, waiters>>
  PROVE  IInv'
  <1> DEFINE R == [Ran(c, done)[c] EXCEPT !.retried = TRUE]
             r == Send(c, n)
  <1>1. Answered(c, s) /\ c \in Calls /\ s \in Sess /\ calls[c] \in Call /\ CallOk(c)
        /\ calls[c].out = "none" /\ calls[c].st = "sent" /\ c \in Nat
    BY CallsFacts DEF LostSession, Answered, CallOk, IInv
  <1>2. Renewed(c, R) /\ R.st = "sent" /\ R.runs = calls[c].runs + done
        /\ R.retried = TRUE /\ R.out = "none"
    <2>1. /\ Ran(c, done)[c] \in Call /\ Ran(c, done)[c].runs = calls[c].runs + done
          /\ Ran(c, done)[c].home = calls[c].home /\ Ran(c, done)[c].asked = calls[c].asked
          /\ Ran(c, done)[c].kind = calls[c].kind /\ Ran(c, done)[c].st = "sent"
          /\ Ran(c, done)[c].out = "none"
      BY <1>1, RanOnce DEF IInv
    <2>2. R \in Call /\ R.st = "sent" /\ R.out = "none" /\ R.runs = Ran(c, done)[c].runs
          /\ R.home = Ran(c, done)[c].home /\ R.asked = Ran(c, done)[c].asked
          /\ R.kind = Ran(c, done)[c].kind /\ R.retried = TRUE
      BY <2>1 DEF Call
    <2>3. calls' = [Ran(c, done) EXCEPT ![c] = R]
      BY <1>1, RanOnce DEF IInv
    <2> HIDE DEF R
    <2>4. calls' = [calls EXCEPT ![c] = R]
      BY <2>3 DEF Ran
    <2> QED BY <1>1, <2>1, <2>2, <2>4 DEF Renewed
  <1> HIDE DEF R
  <1>3. Used(n) /\ Settled(s)
    BY <1>1 DEF IInv, Replaced, NotReplaced, Sess
  <1>4. /\ Steady /\ \A x \in Sess : Older(core[x], core'[x])
        /\ \A x \in Sess : core'[x].st = "none" => core'[x] = core[x]
        /\ Known(s)'
    BY <1>2, <1>3, LostCore
  <1>5. CallOk(c)'
    BY <1>2, LostCallOk
  <1>6. calls'[c] = R /\ Calls' = Calls /\ \A x \in Calls \ {c} : Untouched(x)
    BY <1>2, OneCall DEF IInv, Renewed
  <1>7. r \in Request /\ r.m = "call" /\ r.c = c /\ r.s = n
    BY <1>1, RequestTypes DEF Send
  <1>8. Shifts(1, {r})
    BY <1>1, <1>7, ShiftTailAppend DEF Answered, IInv
  <1> HIDE DEF r
  <1>9. Sound(r)' /\ Permitted(c)'
    <2>1. Used(n)'
      BY <1>3, <1>4 DEF Steady
    <2>2. R.kind = calls[c].kind /\ R.kind \notin Writes
      BY <1>2 DEF Renewed, MayRetry, RetrySafe, Writes
    <2> QED BY <1>1, <1>2, <1>6, <1>7, <2>1, <2>2 DEF Sound, Permitted
  <1>10. Queued' /\ Fenced' /\ CallsOk' /\ calls' \in Seq(Call)
    <2>1. UNCHANGED mode
      BY DEF LostSession
    <2>2. queue[1].m = "call" /\ \A i \in DOMAIN queue : i > 1 /\ queue[i].m = "call" => queue[i].c # c
      BY <1>1 DEF Answered
    <2>3. PICK N : N = {r}
      OBVIOUS
    <2>4. \A x \in N : /\ x.m = "call" => x.c = c /\ Permitted(c)'
                       /\ Sound(x)'
      BY <1>7, <1>9, <2>3
    <2>5. Shifts(1, N)
      BY <1>8, <2>3
    <2> QED BY <1>2, <1>4, <1>5, <1>9, <2>1, <2>2, <2>4, <2>5, OneCallStep
  <1>11. Waits'
    BY <1>1, <1>4, <1>6, WaitersAlone DEF IInv
  <1>12. ConsentIsScoped'
    <2>1. \A x \in Calls : SameHome(x) /\ (Going(x) <=> Going(x)')
      BY <1>1, <1>2, <1>6 DEF SameHome, Untouched, Renewed, Going
    <2> QED BY <1>6, <2>1, ConsentStays DEF IInv
  <1>13. EntryOk'
    <2>1. entry # NoEntry => entry.conn \in Sess
      BY EntryConn DEF IInv
    <2>2. \A x \in Sess \ {s} : Kept(x)
      BY <1>1, OthersKept DEF LostSession
    <2> QED BY <1>1, <1>4, <1>8, <2>1, <2>2, EntryStays DEF Answered, LostSession
  <1>14. Replaced'
    BY <1>4, ReplacedStays DEF IInv, LostSession
  <1>15. Types'
    BY <1>8, <1>10 DEF IInv, Types, LostSession, Shifts
  <1> QED BY <1>10, <1>11, <1>12, <1>13, <1>14, <1>15 DEF IInv

LEMMA CallLostStep == ASSUME ConstantsAssumption, IInv, CallLost PROVE IInv'
  <1>1. PICK c, s : c = Caller /\ s = Target
    OBVIOUS
  <1>2. Answered(c, s) /\ s \in Sess /\ core[s] \in Slot /\ c \in Calls
    BY <1>1, CallerFacts DEF CallLost, Answered
  <1> DEFINE t == core[s]
             dies == t.st = "open"
             D == [t EXCEPT !.st = "dead", !.eng = FALSE,
                            !.flag = @ /\ calls[c].kind # "rollback",
                            !.lostTx = IF dies THEN t.eng ELSE @]
  <1>3. /\ t.st \in {"open", "dead"} /\ core' = [core EXCEPT ![s] = D]
        /\ UNCHANGED <<mode, connecting, guard, heir>>
    BY <1>1 DEF CallLost
  <1>4. PICK done \in {0, 1} : Lost(t.flag, Ran(c, done))
    BY <1>1 DEF CallLost, Ran
  <1>5. LostSession(c, s)
    <2>1. /\ D \in Slot /\ D.st = "dead" /\ (D.lostTx => InTx(s))
          /\ (t.st = "dead" => D.lostTx = t.lostTx)
          /\ (calls[c].kind # "rollback" => (t.flag => D.flag))
      BY <1>2, <1>3 DEF Slot, InTx
    <2> HIDE DEF D
    <2>2. core' \in [Sess -> Slot] /\ core'[s] = D /\ \A x \in Sess \ {s} : core'[x] = core[x]
      BY <1>2, <1>3, <2>1 DEF IInv, Types
    <2> QED BY <1>2, <1>3, <2>1, <2>2 DEF LostSession
  <1> HIDE DEF D
  <1>6. entry \in Entry \cup {NoEntry} /\ (entry.conn = s => entry # NoEntry /\ entry \in Entry /\ Known(s))
    <2>1. NoEntry.conn \notin Sess
      BY DEF NoEntry, Sess
    <2> QED BY <1>2, <2>1 DEF IInv, Types, EntryOk
  <1>7. CASE LostIgnored /\ calls' = [Ran(c, done) EXCEPT ![c].st = "done", ![c].out = "down"]
             /\ consent' = Released({c}) /\ uiTx' = Indicated(<<c>>) /\ queue' = Tail(queue)
             /\ UNCHANGED <<entry, repl, waiters>>
    <2>1. entry.conn # s
      BY <1>1, <1>7 DEF LostIgnored
    <2> QED BY <1>5, <1>7, <2>1, LostEnds
  <1>8. CASE LostWithTx(t.flag) /\ entry' = MarkedLost(s, FALSE)
             /\ calls' = [Ran(c, done) EXCEPT ![c].st = "done", ![c].out = "tx"]
             /\ consent' = Released({c}) /\ uiTx' = Indicated(<<c>>) /\ queue' = Tail(queue)
             /\ UNCHANGED <<repl, waiters>>
    <2>1. entry.conn = s /\ (core[s].flag \/ uiTx[s])
      BY <1>1, <1>8 DEF LostWithTx, MayReconnect
    <2>2. entry' \in Entry /\ entry'.conn = s /\ ~entry'.retry
      BY <1>2, <1>8, <2>1 DEF MarkedLost, Entry
    <2> QED BY <1>5, <1>6, <1>8, <2>1, <2>2, LostEnds
  <1>9. CASE LostReplaced(t.flag) /\ entry' = [entry EXCEPT !.reconn = TRUE]
             /\ repl' = [repl EXCEPT ![s] = Pending]
             /\ waiters' = Append(waiters, c) /\ calls' = [Ran(c, done) EXCEPT ![c].st = "waiting"]
             /\ queue' = Append(Tail(queue), Open("call", s)) /\ UNCHANGED <<consent, uiTx>>
    <2>1. entry.conn = s /\ ~core[s].flag /\ ~uiTx[s]
      BY <1>1, <1>9 DEF LostReplaced, MayReconnect
    <2> DEFINE r == Open("call", s)
    <2>2. r \in Request /\ r.m = "open" /\ r.s = s /\ r.k = "call"
      BY <1>2, RequestTypes DEF Open
    <2>3. Shifts(1, {r})
      BY <1>2, <1>9, <2>2, ShiftTailAppend DEF Answered, IInv
    <2> HIDE DEF r
    <2>4. r.m # "call" /\ (Settled(s)' => Sound(r)')
      BY <2>2 DEF Sound
    <2>5. entry' \in Entry /\ entry'.conn = entry.conn /\ entry'.lost = entry.lost
          /\ entry'.retry = entry.retry
      BY <1>6, <1>9, <2>1 DEF Entry
    <2>6. Pending \in 0..(MaxSess + 1)
      BY DEF Pending, ConstantsAssumption
    <2>7. /\ repl' \in [Sess -> 0..(MaxSess + 1)] /\ repl'[s] = Pending
          /\ \A x \in Sess \ {s} : repl'[x] = repl[x]
      BY <1>2, <1>9, <2>6 DEF IInv, Types
    <2>8. PICK N : N = {r}
      OBVIOUS
    <2>9. Shifts(1, N) /\ \A x \in N : x.m # "call" /\ (Settled(s)' => Sound(x)')
      BY <2>3, <2>4, <2>8
    <2>10. entry # NoEntry /\ Known(s)
      BY <1>6, <2>1
    <2>11. /\ waiters' = Append(waiters, c) /\ calls' = [Ran(c, done) EXCEPT ![c].st = "waiting"]
           /\ UNCHANGED <<consent, uiTx>>
      BY <1>9
    <2>12. entry' \in Entry \cup {NoEntry} /\ repl'[s] \in {repl[s], Pending}
      BY <2>5, <2>7
    <2>13. Settled(s) \/ (Known(s) /\ ~core[s].flag /\ ~uiTx[s])
      BY <2>1, <2>10
    <2> HIDE DEF t
    <2> QED BY <1>5, <2>5, <2>7, <2>9, <2>10, <2>11, <2>12, <2>13, LostWaits
  <1>10. CASE repl[s] = Pending
              /\ waiters' = Append(waiters, c) /\ calls' = [Ran(c, done) EXCEPT ![c].st = "waiting"]
              /\ queue' = Tail(queue) /\ UNCHANGED <<entry, repl, consent, uiTx>>
    <2>1. Settled(s)
      BY <1>2, <1>10 DEF IInv, Replaced, NotReplaced, Pending, ConstantsAssumption
    <2>2. Shifts(1, {})
      BY <1>2, <1>10, ShiftTail DEF Answered, IInv
    <2>3. repl' \in [Sess -> 0..(MaxSess + 1)]
      BY <1>10 DEF IInv, Types
    <2>4. entry' \in Entry \cup {NoEntry} /\ entry' = entry
      BY <1>6, <1>10
    <2>5. PICK N : N = {}
      OBVIOUS
    <2>6. Shifts(1, N) /\ \A x \in N : x.m # "call" /\ (Settled(s)' => Sound(x)')
      BY <2>2, <2>5
    <2>7. repl'[s] \in {repl[s], Pending} /\ \A x \in Sess \ {s} : repl'[x] = repl[x]
      BY <1>10
    <2> QED BY <1>5, <1>10, <2>1, <2>3, <2>4, <2>6, <2>7, LostWaits
  <1>11. CASE repl[s] \in Sess /\ MayRetry(c) /\ calls' = [Ran(c, done) EXCEPT ![c].retried = TRUE]
              /\ queue' = Append(Tail(queue), Send(c, repl[s]))
              /\ UNCHANGED <<entry, repl, waiters, consent, uiTx>>
    BY <1>5, <1>11, LostAgain
  <1>12. CASE repl[s] \in Sess
              /\ calls' = [Ran(c, done) EXCEPT ![c].st = "done", ![c].out = "unsafe"]
              /\ consent' = Released({c}) /\ uiTx' = Indicated(<<c>>) /\ queue' = Tail(queue)
              /\ UNCHANGED <<entry, repl, waiters>>
    <2>1. Settled(s)
      BY <1>2, <1>12 DEF IInv, Replaced, NotReplaced, Sess
    <2> QED BY <1>5, <1>12, <2>1, LostEnds
  <1> QED BY <1>1, <1>4, <1>7, <1>8, <1>9, <1>10, <1>11, <1>12 DEF Lost

----------------------------------------------------------------------------
(* A session is opened in place of a dead one, or is not.                    *)

Retried(out) == IF out = "unsafe" THEN {c \in ToSet(Woken) : MayRetry(c)} ELSE {}

(* The calls that waited go on.                                              *)
LEMMA ResolvedCalls ==
  ASSUME ConstantsAssumption, IInv, UNCHANGED mode, NEW out \in {"down", "unsafe"},
         Resolved(Woken, out), \A x \in Sess : Older(core[x], core'[x])
  PROVE  /\ Steady /\ Waits' /\ waiters' \in Seq(Nat) /\ CallsOk' /\ ConsentIsScoped'
         /\ consent' \in [Sess -> Nat] /\ calls' \in Seq(Call) /\ Calls' = Calls
         /\ uiTx' \in [Sess -> BOOLEAN]
         /\ \A x \in Sess : uiTx'[x] = uiTx[x] \/ Settled(x)
         /\ \A x \in Calls \ ToSet(Woken) : Untouched(x)
         /\ \A x \in ToSet(Woken) : x \in Calls /\ calls[x].st = "waiting"
         /\ \A x \in Retried(out) : /\ calls'[x].st = "sent" /\ calls'[x].retried
                                    /\ calls'[x].kind \notin Writes
  <1> DEFINE W == Woken
             F == ToSet(W)
             R == Retried(out)
  <1>1. /\ waiters' = IF Head(queue).k = "call" THEN <<>> ELSE waiters
        /\ calls' = [c \in Calls |-> IF c \in R THEN [calls[c] EXCEPT !.st = "sent", !.retried = TRUE]
                                     ELSE Ended(F, out)[c]]
        /\ consent' = Released(F \ R) /\ uiTx' = Indicated(W)
    BY DEF Resolved, Retried
  <1>2. W = IF Head(queue).k = "call" THEN waiters ELSE <<>>
    BY DEF Woken
  <1>3. \A i \in DOMAIN W : Waiting(W[i])
    BY <1>2 DEF IInv, Waits
  <1> HIDE DEF W
  <1>4. R \subseteq F /\ \A x \in F : Waiting(x)
    BY <1>3 DEF ToSet, Retried, W
  <1>5. F \subseteq Calls /\ \A x \in F : calls[x].st = "waiting" /\ calls[x] \in Call /\ CallOk(x)
    BY <1>4, CallsFacts DEF Waiting, IInv, CallsOk
  <1>6. \A x \in R : MayRetry(x)
    BY DEF Retried
  <1> HIDE DEF F, R
  <1>7. ASSUME NEW x \in R
        PROVE  /\ calls'[x] \in Call /\ calls'[x].home = calls[x].home
               /\ calls'[x].asked = calls[x].asked /\ calls'[x].kind = calls[x].kind
               /\ calls'[x].out = calls[x].out /\ calls'[x].runs = calls[x].runs
               /\ calls'[x].st = "sent" /\ calls'[x].retried
    <2>1. calls'[x] = [calls[x] EXCEPT !.st = "sent", !.retried = TRUE] /\ calls[x] \in Call
      BY <1>1, <1>4, <1>5
    <2> QED BY <2>1 DEF Call
  <1>8. ASSUME NEW x \in F \ R
        PROVE  /\ calls'[x] \in Call /\ calls'[x].home = calls[x].home
               /\ calls'[x].asked = calls[x].asked /\ calls'[x].kind = calls[x].kind
               /\ calls'[x].out = out /\ calls'[x].runs = calls[x].runs
               /\ calls'[x].st = "done" /\ calls'[x].retried = calls[x].retried
    <2>1. calls'[x] = [calls[x] EXCEPT !.st = "done", !.out = out] /\ calls[x] \in Call
      BY <1>1, <1>5 DEF Ended
    <2> QED BY <2>1 DEF Call
  <1>9. \A x \in Calls \ F : calls'[x] = calls[x]
    BY <1>1, <1>4 DEF Ended
  <1>10. calls' \in Seq(Call) /\ Calls' = Calls
    <2>1. Len(calls) \in Nat /\ Calls = 1..Len(calls) /\ \A x \in Calls : calls[x] \in Call
      BY CallsFacts DEF IInv, Calls
    <2>2. \A x \in Calls : calls'[x] \in Call
      BY <1>7, <1>8, <1>9, <2>1
    <2>3. calls' = [x \in 1..Len(calls) |-> calls'[x]]
      BY <1>1, <2>1
    <2>4. \A x \in 1..Len(calls) : calls'[x] \in Call
      BY <2>1, <2>2
    <2>5. calls' \in Seq(Call)
      BY <2>1, <2>3, <2>4, IsASeq
    <2>6. DOMAIN calls' = 1..Len(calls)
      BY <2>3
    <2>7. Len(calls') \in Nat /\ DOMAIN calls' = 1..Len(calls')
      BY <2>5, LenProperties
    <2>8. Len(calls') = Len(calls)
      BY <2>1, <2>5, <2>6, LenProperties
    <2> QED BY <2>1, <2>5, <2>8 DEF Calls
  <1>11. \A x \in Calls \ F : Untouched(x)
    BY <1>9, <1>10 DEF Untouched
  <1>12. Steady
    <2>1. \A x \in F : calls[x].out = "none"
      BY <1>5 DEF CallOk
    <2>2. \A x \in Calls : SaidStays(x)
      BY <1>7, <1>8, <1>9, <1>10, <2>1 DEF SaidStays
    <2> QED BY <2>2, AreSteady
  <1>13. Waits' /\ waiters' \in Seq(Nat)
    <2>0. DOMAIN <<>> = {} /\ <<>> \in Seq(Nat)
      OBVIOUS
    <2>1. CASE Head(queue).k = "call"
      <3>1. waiters' = <<>>
        BY <1>1, <2>1
      <3>2. DOMAIN waiters' = {}
        BY <2>0, <3>1
      <3> QED BY <2>0, <3>1, <3>2 DEF Waits
    <2>2. CASE Head(queue).k # "call"
      <3>1. F = {} /\ UNCHANGED waiters
        <4>1. W = <<>> /\ UNCHANGED waiters
          BY <1>1, <1>2, <2>2
        <4>2. DOMAIN W = {}
          BY <2>0, <4>1
        <4> QED BY <4>1, <4>2 DEF F, ToSet
      <3>2. \A i \in DOMAIN waiters : Untouched(waiters[i])
        BY <1>11, <3>1 DEF IInv, Waits, Waiting
      <3> QED BY <1>12, <3>1, <3>2, WaitsStay DEF IInv, Types
    <2> QED BY <2>1, <2>2
  <1>14. CallsOk'
    <2>1. \A x \in Calls \ F : CallOk(x)'
      BY <1>11, <1>12, CallStays DEF IInv, CallsOk
    <2>2. ASSUME NEW x \in F PROVE CallOk(x)'
      <3>1. Permitted(x)' <=> Permitted(x)
        BY <1>7, <1>8 DEF Permitted
      <3>2. PICK h \in Sess : h = calls[x].home /\ core'[h].st # "none"
        BY <1>5, <1>12 DEF CallOk, Steady, Used
      <3>3. calls[x].runs <= (IF calls[x].retried THEN 1 ELSE 0) + 1 /\ calls[x].runs \in Nat
        BY <1>5 DEF CallOk, Call
      <3>4. CASE x \in R
        <4>1. calls[x].runs <= 1 /\ calls[x].kind \in RetrySafe
          BY <1>6, <3>3, <3>4 DEF MayRetry
        <4> QED BY <1>5, <1>7, <3>1, <3>2, <3>4, <4>1 DEF CallOk, Used
      <3>5. CASE x \notin R
        BY <1>5, <1>8, <3>1, <3>2, <3>3, <3>5 DEF CallOk, Used
      <3> QED BY <3>4, <3>5
    <2> QED BY <1>10, <2>1, <2>2 DEF CallsOk
  <1>15. ConsentIsScoped' /\ consent' \in [Sess -> Nat]
    <2>1. PICK G \in SUBSET Calls : G = F \ R
      BY <1>5
    <2>2. \A x \in G : Going(x)
      BY <1>5, <2>1 DEF Going
    <2>3. \A x \in Calls : SameHome(x) /\ (Going(x)' <=> Going(x) /\ x \notin G)
      BY <1>5, <1>7, <1>8, <1>9, <1>10, <2>1 DEF SameHome, Going
    <2> QED BY <1>1, <1>10, <2>1, <2>2, <2>3, ConsentReleased DEF IInv
  <1>16. ASSUME NEW x \in Sess PROVE uiTx'[x] = uiTx[x] \/ Settled(x)
    <2>1. CASE \E i \in DOMAIN W : calls[W[i]].home = x /\ calls[W[i]].kind \in {"begin", "rollback"}
      BY SMTT(30), <1>3, <2>1 DEF Waiting, RetrySafe
    <2>2. CASE ~ \E i \in DOMAIN W : calls[W[i]].home = x /\ calls[W[i]].kind \in {"begin", "rollback"}
      BY <1>1, <2>2 DEF Indicated
    <2> QED BY <2>1, <2>2
  <1>17. uiTx' \in [Sess -> BOOLEAN]
    BY <1>1, IndicatedType DEF IInv
  <1>18. \A x \in R : calls'[x].kind \notin Writes
    BY <1>6, <1>7 DEF MayRetry, RetrySafe, Writes
  <1> QED BY <1>5, <1>7, <1>10, <1>11, <1>12, <1>13, <1>14, <1>15, <1>16, <1>17, <1>18 DEF F, R, W

Replacing == /\ queue # <<>> /\ Head(queue).m = "open" /\ Head(queue).k \in {"call", "timer"}

LEMMA DeadFacts ==
  ASSUME IInv, Replacing, NEW dead, dead = Head(queue).s
  PROVE  queue[1].m = "open" /\ dead \in Sess /\ Settled(dead) /\ Used(dead)
  <1>1. Head(queue) = queue[1] /\ Sound(queue[1])
    BY TailFacts DEF IInv, Replacing, Queued
  <1> QED BY <1>1 DEF Replacing, Sound, Settled, Used

(* What is sent now: nothing, or calls that waited, and requests to close.    *)
LEMMA ResolvedQueue ==
  ASSUME ConstantsAssumption, IInv, Replacing, UNCHANGED mode, NEW out \in {"down", "unsafe"},
         Resolved(Woken, out), \A x \in Sess : Older(core[x], core'[x]),
         NEW N, Shifts(1, N),
         \A r \in N : /\ r.m = "call" => r.c \in Retried(out) /\ Used(r.s)'
                      /\ r.m # "open"
                      /\ r.m = "close" => Used(r.s)'
  PROVE  Queued' /\ Fenced'
  <1>1. /\ Steady /\ Calls' = Calls
        /\ \A x \in Calls \ ToSet(Woken) : Untouched(x)
        /\ \A x \in ToSet(Woken) : x \in Calls /\ calls[x].st = "waiting"
        /\ \A x \in Retried(out) : /\ calls'[x].st = "sent" /\ calls'[x].retried
                                   /\ calls'[x].kind \notin Writes
    BY ResolvedCalls
  <1>2. \A x \in Retried(out) : x \in ToSet(Woken)
    BY DEF Retried
  <1>3. \A i \in DOMAIN queue : queue[i].m = "call" =>
          calls[queue[i].c].st = "sent" /\ Untouched(queue[i].c)
    BY <1>1 DEF IInv, Queued, Sound
  <1>4. queue[1].m = "open"
    BY DeadFacts
  <1>5. Queued'
    <2>1. ASSUME NEW r \in N PROVE Sound(r)'
      BY <1>1, <1>2 DEF Sound
    <2>2. ASSUME NEW r \in N, NEW i \in DOMAIN queue PROVE ~SameCall(queue[i], r)
      BY <1>1, <1>2, <1>3 DEF SameCall
    <2> QED BY <1>1, <1>3, <2>1, <2>2, QueuedStays DEF IInv
  <1>6. Fenced'
    <2>1. ASSUME NEW r \in N, r.m = "call" PROVE Permitted(r.c)'
      BY <1>1, <2>1 DEF Permitted
    <2> QED BY <1>1, <1>3, <1>4, <2>1, FencedStays DEF IInv
  <1> QED BY <1>5, <1>6

LEMMA SettledKnown == \A x \in Sess : Settled(x) => Known(x)
  BY DEF Settled, Known, Used, InTx

LEMMA ReplaceTooLateStep == ASSUME ConstantsAssumption, IInv, ReplaceTooLate PROVE IInv'
  <1>1. PICK dead : dead = Head(queue).s
    OBVIOUS
  <1>2. Replacing /\ entry.conn # dead /\ repl' = Forgotten(dead) /\ Resolved(Woken, "down")
        /\ UNCHANGED <<mode, entry, connecting, heir>>
    BY <1>1 DEF ReplaceTooLate, Opening, Replacing
  <1>3. PICK n \in Fresh : /\ core' = Stored(n) /\ guard' = [Guarded(n) EXCEPT ![n] = "none"]
                           /\ queue' = GivenUp(n)
    BY DEF ReplaceTooLate
  <1>4. dead \in Sess /\ Settled(dead) /\ queue[1].m = "open"
    BY <1>1, <1>2, DeadFacts
  <1>5. /\ n \in Sess /\ core[n].st = "none" /\ core' \in [Sess -> Slot] /\ Used(n)'
        /\ \A x \in Sess \ {n} : core'[x] = core[x]
        /\ \A x \in Sess : Older(core[x], core'[x])
        /\ \A x \in Sess : core'[x].st = "none" => core'[x] = core[x]
    BY <1>3, StoredFacts DEF IInv
  <1>6. /\ Steady /\ Waits' /\ waiters' \in Seq(Nat) /\ CallsOk' /\ ConsentIsScoped'
        /\ consent' \in [Sess -> Nat] /\ calls' \in Seq(Call)
        /\ uiTx' \in [Sess -> BOOLEAN] /\ \A x \in Sess : uiTx'[x] = uiTx[x] \/ Settled(x)
    BY <1>2, <1>5, ResolvedCalls
  <1> DEFINE r == Close(n, "none")
  <1>7. r \in Request /\ r.m = "close" /\ r.s = n /\ queue' = Append(Tail(queue), r)
    BY <1>3, <1>5, RequestTypes DEF Close, GivenUp
  <1>8. PICK N : N = {r} /\ Shifts(1, N)
    BY <1>2, <1>7, ShiftTailAppend DEF IInv, Replacing
  <1> HIDE DEF r
  <1>9. Queued' /\ Fenced'
    <2>1. \A q \in N : q.m = "close" /\ Used(q.s)'
      BY <1>5, <1>7, <1>8 DEF Used
    <2> QED BY <1>2, <1>5, <1>8, <2>1, ResolvedQueue
  <1>10. /\ guard' \in [Sess -> {"none", mode}]
         /\ \A x \in Sess \ {n} : guard'[x] = guard[x]
    BY <1>3, <1>5 DEF Guarded, IInv, Types
  <1>11. EntryOk'
    <2>1. entry # NoEntry => entry.conn \in Sess /\ entry.conn # n
      BY <1>5, EntryConn DEF IInv, EntryOk, Known, Used
    <2>2. ASSUME NEW x \in Sess, x # n PROVE Kept(x) \/ Known(x)'
      <3>1. CASE uiTx'[x] = uiTx[x]
        BY <1>5, <2>2, <3>1 DEF Kept, InTx
      <3>2. CASE Settled(x)
        <4>1. Known(x)
          BY <3>2, SettledKnown
        <4>2. Settled(x)'
          BY <1>6, <3>2 DEF Steady
        <4> QED BY <4>2 DEF Settled, Known, Used, InTx
      <3> QED BY <1>6, <3>1, <3>2
    <2> QED BY <1>2, <1>4, <1>6, <1>8, <1>10, <2>1, <2>2, EntryStays
  <1>12. Replaced'
    <2>1. \A x \in Sess : repl'[x] = repl[x] \/ repl'[x] = NotReplaced
      BY <1>2, <1>4 DEF Forgotten, IInv, Types
    <2>2. NotReplaced \notin Sess
      BY DEF NotReplaced, Sess
    <2>3. \A x \in Sess : \/ repl'[x] = repl[x]
                          \/ /\ repl'[x] # NotReplaced => Settled(x)'
                             /\ repl'[x] \in Sess => Used(repl[x])'
      BY <2>1, <2>2
    <2> QED BY <1>2, <1>5, <1>6, <2>3, ReplacedStays DEF IInv
  <1>13. Types'
    <2>1. repl' \in [Sess -> 0..(MaxSess + 1)]
      BY <1>2, <1>4 DEF Forgotten, NotReplaced, IInv, Types, ConstantsAssumption
    <2> QED BY <1>2, <1>5, <1>6, <1>8, <1>10, <2>1 DEF IInv, Types, Shifts
  <1> QED BY <1>6, <1>9, <1>11, <1>12, <1>13 DEF IInv

LEMMA ReplaceFailsStep == ASSUME ConstantsAssumption, IInv, ReplaceFails PROVE IInv'
  <1>1. PICK dead : dead = Head(queue).s
    OBVIOUS
  <1>2. Replacing /\ entry' = MarkedLost(dead, TRUE) /\ repl' = Forgotten(dead)
        /\ Resolved(Woken, "down") /\ queue' = Tail(queue)
        /\ UNCHANGED <<mode, connecting, guard, core, heir>>
    BY <1>1 DEF ReplaceFails, Opening, Replacing
  <1>3. dead \in Sess /\ Settled(dead) /\ queue[1].m = "open"
    BY <1>1, <1>2, DeadFacts
  <1>4. /\ Steady /\ Waits' /\ waiters' \in Seq(Nat) /\ CallsOk' /\ ConsentIsScoped'
        /\ consent' \in [Sess -> Nat] /\ calls' \in Seq(Call)
        /\ uiTx' \in [Sess -> BOOLEAN] /\ \A x \in Sess : uiTx'[x] = uiTx[x] \/ Settled(x)
    BY <1>2, SameCore, ResolvedCalls
  <1>5. PICK N : N = {} /\ Shifts(1, N)
    BY <1>2, ShiftTail DEF IInv, Replacing
  <1>6. Queued' /\ Fenced'
    BY <1>2, <1>5, SameCore, ResolvedQueue
  <1>7. EntryOk'
    <2>1. entry # NoEntry => entry.conn \in Sess
      BY EntryConn DEF IInv
    <2>2. ASSUME NEW x \in Sess PROVE Kept(x) \/ Known(x)'
      <3>1. CASE uiTx'[x] = uiTx[x]
        BY <1>2, <3>1 DEF Kept, InTx
      <3>2. CASE Settled(x)
        <4>1. Settled(x)'
          BY <1>4, <3>2 DEF Steady
        <4> QED BY <4>1 DEF Settled, Known, Used, InTx
      <3> QED BY <1>4, <3>1, <3>2
    <2>3. Settled(dead)'
      BY <1>3, <1>4 DEF Steady
    <2>4. CASE entry.conn # dead
      BY <1>2, <1>3, <1>4, <1>5, <2>1, <2>2, <2>4, EntryStays DEF MarkedLost
    <2>5. CASE entry.conn = dead
      <3>1. entry # NoEntry /\ entry'.conn = dead
        BY <1>2, <1>3, <2>5 DEF NoEntry, Sess, MarkedLost
      <3> QED BY <1>2, <1>3, <1>4, <1>5, <2>1, <2>2, <2>3, <2>5, <3>1, EntryStays
    <2> QED BY <2>4, <2>5
  <1>8. Replaced'
    <2>1. \A x \in Sess : repl'[x] = repl[x] \/ repl'[x] = NotReplaced
      BY <1>2, <1>3 DEF Forgotten, IInv, Types
    <2>2. NotReplaced \notin Sess
      BY DEF NotReplaced, Sess
    <2>3. \A x \in Sess : \/ repl'[x] = repl[x]
                          \/ /\ repl'[x] # NotReplaced => Settled(x)'
                             /\ repl'[x] \in Sess => Used(repl[x])'
      BY <2>1, <2>2
    <2> QED BY <1>2, <1>4, <2>3, ReplacedStays DEF IInv
  <1>9. Types'
    <2>1. repl' \in [Sess -> 0..(MaxSess + 1)]
      BY <1>2, <1>3 DEF Forgotten, NotReplaced, IInv, Types, ConstantsAssumption
    <2>2. entry' \in Entry \cup {NoEntry}
      BY <1>2, <1>3 DEF MarkedLost, Entry, IInv, Types
    <2> QED BY <1>2, <1>4, <1>5, <2>1, <2>2 DEF IInv, Types, Shifts
  <1> QED BY <1>4, <1>6, <1>7, <1>8, <1>9 DEF IInv

LEMMA ShiftTailAppendMany ==
  ASSUME Types, queue # <<>>, NEW r \in Request, r.m # "call", NEW Z \in Seq(Request),
         queue' = Append(Tail(queue), r) \o Z,
         \A i, j \in 1..Len(Z) : SameCall(Z[i], Z[j]) => i = j,
         NEW N, r \in N, \A i \in 1..Len(Z) : Z[i] \in N
  PROVE  Shifts(1, N)
  <1>1. PICK n \in Nat : Len(queue) = n + 1 /\ Len(queue) - 1 = n
    <2>1. Len(queue) \in Nat \ {0}
      BY TailFacts
    <2>2. Len(queue) - 1 \in Nat /\ Len(queue) = (Len(queue) - 1) + 1
      BY <2>1
    <2> QED BY <2>2
  <1> DEFINE T == Append(Tail(queue), r)
  <1>2. /\ T \in Seq(Request) /\ Len(T) = n + 1 /\ T[n + 1] = r
        /\ \A i \in 1..n : T[i] = queue[i + 1]
    BY <1>1, TailFacts, AppendProperties
  <1> HIDE DEF T
  <1>3. PICK z \in Nat : z = Len(Z)
    BY LenProperties
  <1>4. /\ queue' \in Seq(Request) /\ Len(queue') = (n + 1) + z
        /\ \A i \in 1..((n + 1) + z) : queue'[i] = IF i <= n + 1 THEN T[i] ELSE Z[i - (n + 1)]
    BY <1>2, <1>3, ConcatProperties DEF T
  <1>5. \A i \in 1..n : queue'[i] = queue[i + 1]
    BY <1>2, <1>3, <1>4
  <1>6. ASSUME NEW i \in (n + 1)..Len(queue')
        PROVE  \/ queue'[i] = r
               \/ i - (n + 1) \in 1..z /\ queue'[i] = Z[i - (n + 1)]
    BY <1>2, <1>3, <1>4
  <1>7. \A i \in (n + 1)..Len(queue') : queue'[i] \in N
    BY <1>3, <1>6
  <1>8. ASSUME NEW i \in (n + 1)..Len(queue'), NEW j \in (n + 1)..Len(queue'),
               SameCall(queue'[i], queue'[j])
        PROVE  i = j
    <2>1. queue'[i] # r /\ queue'[j] # r
      BY <1>8 DEF SameCall
    <2>2. i - (n + 1) = j - (n + 1)
      BY <1>3, <1>6, <1>8, <2>1
    <2> QED BY <1>4, <2>2
  <1>9. Len(queue') \in Nat /\ n <= Len(queue')
    BY <1>4
  <1> QED BY <1>1, <1>4, <1>5, <1>7, <1>8, <1>9 DEF Shifts

(* Each call that waited and may be is sent once.                            *)
LEMMA AgainFacts ==
  ASSUME ConstantsAssumption, IInv, NEW n \in Sess, NEW Z,
         Z = Again(Only(Woken, {c \in Calls : MayRetry(c)}), n)
  PROVE  /\ Z \in Seq(Request)
         /\ \A i \in 1..Len(Z) : Z[i].m = "call" /\ Z[i].s = n /\ Z[i].c \in Retried("unsafe")
         /\ \A i, j \in 1..Len(Z) : SameCall(Z[i], Z[j]) => i = j
  <1> DEFINE W == Woken
             T == {c \in Calls : MayRetry(c)}
             q == Only(W, T)
  <1>1. W \in Seq(Nat) /\ \A i, j \in DOMAIN W : W[i] = W[j] => i = j
    <2>1. <<>> \in Seq(Nat) /\ DOMAIN <<>> = {}
      OBVIOUS
    <2>2. CASE W = <<>>
      BY <2>1, <2>2
    <2>3. CASE W = waiters
      BY <2>3 DEF IInv, Types, Waits
    <2> QED BY <2>2, <2>3 DEF Woken
  <1>2. Len(W) \in Nat /\ DOMAIN W = 1..Len(W)
    BY <1>1, LenProperties
  <1>3. q \in Seq(Nat) /\ Picks(q, W, T, Len(W))
    BY <1>1, OnlyPicks
  <1>4. Len(q) \in Nat /\ DOMAIN q = 1..Len(q) /\ \A i \in 1..Len(q) : q[i] \in Nat
    BY <1>3, LenProperties, ElementOfSeq
  <1>5. Z = [i \in 1..Len(q) |-> Send(q[i], n)]
    BY <1>4 DEF Again
  <1>6. PICK p \in [1..Len(q) -> 1..Len(W)] :
           /\ \A i \in 1..Len(q) : q[i] = W[p[i]] /\ W[p[i]] \in T
           /\ \A i, j \in 1..Len(q) : i < j => p[i] < p[j]
    BY <1>3 DEF Picks
  <1> HIDE DEF W, T, q
  <1>7. Z \in Seq(Request) /\ Len(Z) = Len(q)
    <2>1. \A i \in 1..Len(q) : Send(q[i], n) \in Request
      BY <1>4, RequestTypes
    <2>2. Z \in Seq(Request)
      BY <1>4, <1>5, <2>1, IsASeq
    <2>3. DOMAIN Z = 1..Len(q) /\ DOMAIN Z = 1..Len(Z) /\ Len(Z) \in Nat
      BY <1>5, <2>2, LenProperties
    <2> QED BY <1>4, <2>2, <2>3
  <1>8. ASSUME NEW i \in 1..Len(q)
        PROVE  Z[i].m = "call" /\ Z[i].s = n /\ Z[i].c = q[i] /\ q[i] \in Retried("unsafe")
    <2>1. Z[i].m = "call" /\ Z[i].s = n /\ Z[i].c = q[i]
      BY <1>5 DEF Send
    <2>2. q[i] \in T /\ \E k \in DOMAIN W : q[i] = W[k]
      BY <1>2, <1>6
    <2>3. q[i] \in ToSet(W)
      BY <2>2 DEF ToSet
    <2> QED BY <2>1, <2>2, <2>3 DEF Retried, T, W
  <1>9. ASSUME NEW i \in 1..Len(q), NEW j \in 1..Len(q), SameCall(Z[i], Z[j]) PROVE i = j
    <2>1. W[p[i]] = W[p[j]] /\ p[i] \in DOMAIN W /\ p[j] \in DOMAIN W
      BY <1>2, <1>6, <1>8, <1>9 DEF SameCall
    <2>2. p[i] = p[j] /\ p[i] \in Nat
      BY <1>1, <1>2, <2>1
    <2>3. ~(p[i] < p[j]) /\ ~(p[j] < p[i])
      BY <2>2
    <2>4. i \in Nat /\ j \in Nat /\ ~(i < j) /\ ~(j < i)
      BY <1>4, <1>6, <2>3
    <2> QED BY <2>4
  <1> QED BY <1>7, <1>8, <1>9

LEMMA ReplaceAdoptsStep == ASSUME ConstantsAssumption, IInv, ReplaceAdopts PROVE IInv'
  <1>1. PICK dead : dead = Head(queue).s
    OBVIOUS
  <1>2. Replacing /\ entry.conn = dead /\ UNCHANGED <<mode, connecting>>
    BY <1>1 DEF ReplaceAdopts, Opening, Replacing
  <1>3. PICK n \in Fresh :
          /\ core' = Stored(n) /\ guard' = [Guarded(n) EXCEPT ![dead] = "none"]
          /\ entry' = Opened(n) /\ heir' = [heir EXCEPT ![dead] = n]
          /\ repl' = IF Head(queue).k = "call" THEN [repl EXCEPT ![dead] = n] ELSE repl
          /\ Resolved(Woken, "unsafe")
          /\ queue' = Append(Tail(queue), Close(dead, "none")) \o
                        Again(Only(Woken, {c \in Calls : MayRetry(c)}), n)
    BY <1>1 DEF ReplaceAdopts
  <1>4. dead \in Sess /\ Settled(dead) /\ Used(dead) /\ queue[1].m = "open"
    BY <1>1, <1>2, DeadFacts
  <1>5. /\ n \in Sess /\ core[n].st = "none" /\ core' \in [Sess -> Slot] /\ Used(n)' /\ Known(n)'
        /\ \A x \in Sess \ {n} : core'[x] = core[x]
        /\ \A x \in Sess : Older(core[x], core'[x])
        /\ \A x \in Sess : core'[x].st = "none" => core'[x] = core[x]
    BY <1>3, StoredFacts DEF IInv
  <1>6. /\ Steady /\ Waits' /\ waiters' \in Seq(Nat) /\ CallsOk' /\ ConsentIsScoped'
        /\ consent' \in [Sess -> Nat] /\ calls' \in Seq(Call)
        /\ uiTx' \in [Sess -> BOOLEAN]
    BY <1>2, <1>3, <1>5, ResolvedCalls
  <1>7. Used(dead)' /\ Settled(dead)' /\ n # dead
    BY <1>4, <1>5, <1>6 DEF Steady, Used
  <1> DEFINE r == Close(dead, "none")
  <1>8. r \in Request /\ r.m = "close" /\ r.s = dead
    BY <1>4, RequestTypes DEF Close
  <1>9. PICK Z : /\ Z = Again(Only(Woken, {c \in Calls : MayRetry(c)}), n) /\ Z \in Seq(Request)
                 /\ \A i \in 1..Len(Z) : Z[i].m = "call" /\ Z[i].s = n /\ Z[i].c \in Retried("unsafe")
                 /\ \A i, j \in 1..Len(Z) : SameCall(Z[i], Z[j]) => i = j
    BY <1>5, AgainFacts
  <1>10. queue' = Append(Tail(queue), r) \o Z
    BY <1>3, <1>9
  <1> HIDE DEF r
  <1>11. PICK N : N = {r} \cup {Z[i] : i \in 1..Len(Z)}
    OBVIOUS
  <1>12. Shifts(1, N)
    <2>1. r \in N /\ r.m # "call" /\ \A i \in 1..Len(Z) : Z[i] \in N
      BY <1>8, <1>11
    <2> QED BY <1>2, <1>8, <1>9, <1>10, <2>1, ShiftTailAppendMany DEF IInv, Replacing
  <1>13. Queued' /\ Fenced'
    <2>1. \A q \in N : /\ q.m = "call" => q.c \in Retried("unsafe") /\ q.s = n
                       /\ q.m # "open" /\ (q.m = "close" => q.s = dead)
      BY <1>8, <1>9, <1>11
    <2>2. ASSUME NEW q \in N
          PROVE  /\ q.m = "call" => q.c \in Retried("unsafe") /\ Used(q.s)'
                 /\ q.m # "open" /\ (q.m = "close" => Used(q.s)')
      BY <1>5, <1>7, <2>1
    <2> QED BY <1>2, <1>3, <1>5, <1>12, <2>2, ResolvedQueue
  <1>14. /\ guard' \in [Sess -> {"none", mode}] /\ guard'[n] = mode
    BY <1>3, <1>4, <1>5, <1>7 DEF Guarded, IInv, Types
  <1>15. entry' \in Entry /\ entry'.conn = n /\ ~entry'.lost
    BY <1>3, <1>5 DEF Opened, Entry
  <1>16. EntryOk'
    <2>1. Shielded(n)'
      BY <1>2, <1>14 DEF Shielded
    <2> QED BY <1>5, <1>15, <2>1, EntryIs
  <1>17. repl' \in [Sess -> 0..(MaxSess + 1)] /\ heir' \in [Sess -> 0..MaxSess]
    <2>1. n \in 0..(MaxSess + 1) /\ n \in 0..MaxSess
      BY <1>5 DEF Sess, ConstantsAssumption
    <2>2. repl \in [Sess -> 0..(MaxSess + 1)] /\ heir \in [Sess -> 0..MaxSess]
      BY DEF IInv, Types
    <2> QED BY <1>3, <1>4, <2>1, <2>2
  <1>18. Replaced'
    <2>1. /\ \A x \in Sess : repl'[x] = repl[x] \/ (x = dead /\ repl'[x] = n)
          /\ \A x \in Sess : heir'[x] = heir[x] \/ x = dead
      BY <1>3, <1>4 DEF IInv, Types
    <2>2. ASSUME NEW x \in Sess
          PROVE  \/ repl'[x] = repl[x]
                 \/ /\ repl'[x] # NotReplaced => Settled(x)'
                    /\ repl'[x] \in Sess => Used(repl[x])'
      <3>1. CASE x = dead /\ repl'[x] = n
        BY <1>5, <1>7, <3>1 DEF Used
      <3> QED BY <2>1, <3>1
    <2>3. \A x \in Sess : heir'[x] # 0 => heir[x] # 0 \/ Settled(x)'
      BY <1>7, <2>1
    <2> QED BY <1>5, <1>6, <2>2, <2>3, ReplacedStays DEF IInv
  <1>19. Types'
    BY <1>2, <1>5, <1>6, <1>12, <1>14, <1>15, <1>17 DEF IInv, Types, Shifts
  <1> QED BY <1>6, <1>13, <1>16, <1>18, <1>19 DEF IInv

----------------------------------------------------------------------------
LEMMA InitHolds == ASSUME ConstantsAssumption, Init PROVE IInv
  <1>1. /\ mode \in ModeSet /\ entry = NoEntry /\ connecting = FALSE
        /\ guard = [s \in Sess |-> "none"] /\ consent = [s \in Sess |-> 0]
        /\ uiTx = [s \in Sess |-> FALSE] /\ repl = [s \in Sess |-> 0]
        /\ waiters = <<>> /\ calls = <<>> /\ queue = <<>>
        /\ core = [s \in Sess |-> Unused] /\ heir = [s \in Sess |-> 0]
    BY DEF Init, ConstantsAssumption, ModeSet, NotReplaced
  <1>2. DOMAIN <<>> = {} /\ Len(<<>>) = 0 /\ \A S : <<>> \in Seq(S)
    OBVIOUS
  <1>3. Unused \in Slot /\ Unused.st = "none" /\ 0 \in 0..MaxSess /\ 0 \in 0..(MaxSess + 1)
    BY DEF Unused, Slot, ConstantsAssumption
  <1>4. Types
    BY <1>1, <1>2, <1>3 DEF Types
  <1>5. Calls = {} /\ DOMAIN queue = {} /\ DOMAIN waiters = {}
    BY <1>1, <1>2 DEF Calls
  <1>6. Queued /\ Waits /\ CallsOk /\ Fenced
    BY <1>5 DEF Queued, Waits, CallsOk, Fenced
  <1>7. ConsentIsScoped
    <2>1. \A s \in Sess : {c \in Calls : calls[c].home = s /\ calls[c].asked = "scope"
                                         /\ calls[c].st \in {"sent", "waiting"}} = {}
      BY <1>5
    <2>2. Cardinality({}) = 0
      BY FS_EmptySet
    <2> QED BY <1>1, <2>1, <2>2 DEF ConsentIsScoped
  <1>8. EntryOk
    BY <1>1 DEF EntryOk
  <1>9. Replaced
    <2>1. 0 \notin Sess
      BY DEF Sess
    <2> QED BY <1>1, <1>3, <2>1 DEF Replaced, NotReplaced
  <1> QED BY <1>4, <1>6, <1>7, <1>8, <1>9 DEF IInv

LEMMA IdleStep == ASSUME ConstantsAssumption, IInv, UNCHANGED vars PROVE IInv'
  <1>1. UNCHANGED <<mode, entry, connecting, guard, consent, uiTx, repl, waiters, calls, queue,
                    core, heir>>
    BY DEF vars, page
  <1>2. Calls' = Calls
    BY <1>1 DEF Calls
  <1>3. Types'
    BY <1>1 DEF IInv, Types
  <1>4. Queued' /\ Waits' /\ CallsOk' /\ Fenced' /\ ConsentIsScoped' /\ Steady
    <2>1. Shifts(0, {})
      BY <1>1, ShiftSame DEF IInv
    <2> QED BY <1>1, <2>1, SameCore, QuietStep DEF Quiet
  <1>5. EntryOk'
    BY <1>1, <1>2 DEF IInv, EntryOk, Shielded, ClosedBefore, Known, Used, InTx, Said, Settled
  <1>6. Replaced'
    BY <1>1, <1>4, ReplacedStays DEF IInv
  <1> QED BY <1>3, <1>4, <1>5, <1>6 DEF IInv

LEMMA Invariance == Spec => []IInv
  <1>1. Init => IInv
    BY InitHolds, ConstantsAssumption
  <1>2. ASSUME IInv, [Next]_vars PROVE IInv'
    <2>1. CASE Connect
      BY <1>2, <2>1, ConstantsAssumption, ConnectStep
    <2>2. CASE Reconnect
      <3>1. /\ entry # NoEntry /\ guard' = Unguarded(entry.conn)
            /\ queue' = Append(queue, Close(entry.conn, "connect")) /\ connecting' \in BOOLEAN
            /\ UNCHANGED <<mode, entry, consent, uiTx, repl, waiters, calls, core, heir>>
        BY <2>2 DEF Reconnect
      <3> QED BY <1>2, <3>1, ConstantsAssumption, CloseStep
    <2>3. CASE Disconnect
      <3>1. /\ entry # NoEntry /\ guard' = Unguarded(entry.conn)
            /\ queue' = Append(queue, Close(entry.conn, "disconnect")) /\ connecting' \in BOOLEAN
            /\ UNCHANGED <<mode, entry, consent, uiTx, repl, waiters, calls, core, heir>>
        BY <1>2, <2>3 DEF Disconnect, IInv, Types
      <3> QED BY <1>2, <3>1, ConstantsAssumption, CloseStep
    <2>4. ASSUME NEW kind \in Kinds, MakeCall(kind) PROVE IInv'
      BY <1>2, <2>4, ConstantsAssumption, MakeCallStep
    <2>5. ASSUME NEW kind \in Kinds, StopCall(kind) PROVE IInv'
      BY <1>2, <2>5, ConstantsAssumption, StopCallStep
    <2>6. ASSUME NEW c \in Calls, Confirmed(c) PROVE IInv'
      BY <1>2, <2>6, ConstantsAssumption, ConfirmedStep
    <2>7. ASSUME NEW c \in Calls, Declined(c) PROVE IInv'
      BY <1>2, <2>7, ConstantsAssumption, DeclinedStep
    <2>8. CASE Timer
      BY <1>2, <2>8, ConstantsAssumption, TimerStep
    <2>9. CASE ClosedAnswered
      BY <1>2, <2>9, ConstantsAssumption, ClosedAnsweredStep
    <2>10. CASE ConnectOk
      BY <1>2, <2>10, ConstantsAssumption, ConnectOkStep
    <2>11. CASE ConnectFails
      BY <1>2, <2>11, ConstantsAssumption, ConnectFailsStep
    <2>12. CASE ReplaceAdopts
      BY <1>2, <2>12, ConstantsAssumption, ReplaceAdoptsStep
    <2>13. CASE ReplaceTooLate
      BY <1>2, <2>13, ConstantsAssumption, ReplaceTooLateStep
    <2>14. CASE ReplaceFails
      BY <1>2, <2>14, ConstantsAssumption, ReplaceFailsStep
    <2>15. CASE CallServed
      BY <1>2, <2>15, ConstantsAssumption, CallServedStep
    <2>16. CASE CallRefused
      BY <1>2, <2>16, ConstantsAssumption, CallRefusedStep
    <2>17. CASE CallLost
      BY <1>2, <2>17, ConstantsAssumption, CallLostStep
    <2>18. ASSUME NEW s \in Sess, SessionDies(s) PROVE IInv'
      BY <1>2, <2>18, ConstantsAssumption, SessionDiesStep
    <2>19. CASE UNCHANGED vars
      BY <1>2, <2>19, ConstantsAssumption, IdleStep
    <2> QED BY <1>2, <2>1, <2>2, <2>3, <2>4, <2>5, <2>6, <2>7, <2>8, <2>9, <2>10, <2>11, <2>12,
               <2>13, <2>14, <2>15, <2>16, <2>17, <2>18, <2>19 DEF Next, Answer
  <1> QED BY <1>1, <1>2, PTL DEF Spec

----------------------------------------------------------------------------
(* Whatever sessions die under it and however often they are replaced, what  *)
(* may change something runs at most once; a read is re-sent once.           *)
THEOREM RunsOnce == Spec => []NothingRunsTwice
  <1>1. IInv => NothingRunsTwice
    <2> SUFFICES ASSUME IInv, NEW c \in Calls
                 PROVE  calls[c].runs <= IF calls[c].kind \in RetrySafe THEN 2 ELSE 1
      BY DEF NothingRunsTwice
    <2>1. CallOk(c) /\ calls[c].runs \in Nat
      BY CallsFacts DEF IInv, CallsOk, Call
    <2>2. CASE calls[c].retried
      BY <2>1, <2>2 DEF CallOk
    <2>3. CASE ~calls[c].retried
      BY <2>1, <2>3 DEF CallOk
    <2> QED BY <2>2, <2>3
  <1> QED BY <1>1, Invariance, PTL

(* A write reaches the server of a protected connection only if the user     *)
(* confirmed it or an action it runs in, and never on a read-only one,       *)
(* although the guard is taken off a session before its close is answered.   *)
THEOREM OnlyAllowedWrites == Spec => []WritesWereAllowed
  <1>1. IInv => WritesWereAllowed
    BY DEF IInv, CallsOk, CallOk, Permitted, WritesWereAllowed
  <1> QED BY <1>1, Invariance, PTL

(* The consent the transport counts is that of the confirmed actions under   *)
(* way, one for one, through declines, replacements and re-sends.            *)
THEOREM ConsentEnds == Spec => []ConsentIsScoped
  <1>1. IInv => ConsentIsScoped
    BY DEF IInv
  <1> QED BY <1>1, Invariance, PTL

(* A session takes the place of a dead one by itself only if no transaction  *)
(* died with it, or after a call has said that one did.                      *)
THEOREM TxDeathIsTold == Spec => []NoTxDiesSilently
  <1>1. IInv => NoTxDiesSilently
    BY DEF IInv, Replaced, Settled, Said, NoTxDiesSilently
  <1> QED BY <1>1, Invariance, PTL

----------------------------------------------------------------------------
(* A user who leaves a connection that is being reopened alone: one attempt  *)
(* to connect at a time, made when there is no session, and the session the  *)
(* user leaves is the one the page has.                                     *)

ConnectReq(q) == q.m # "call" /\ q.k = "connect"
OneConnect ==
  \A i, j \in DOMAIN queue : ConnectReq(queue[i]) /\ ConnectReq(queue[j]) => i = j
Connecting ==
  \A i \in DOMAIN queue : ConnectReq(queue[i]) =>
    connecting /\ (queue[i].m = "open" => entry = NoEntry)
Leaving ==
  \A i \in DOMAIN queue : queue[i].m = "close" /\ queue[i].k # "none" =>
    /\ entry.conn \in {queue[i].s, 0}
    /\ \A j \in DOMAIN queue : j < i => queue[j].m # "open"
Living(s) == core[s].st \in {"open", "dead"}
Closing(s) == \E i \in DOMAIN queue : queue[i].m = "close" /\ queue[i].s = s
Orderly == OneConnect /\ Connecting /\ Leaving /\ NoOrphanSession

LEMMA QueuePlaces ==
  ASSUME Types, NEW d \in {0, 1}, NEW N, Shifts(d, N)
  PROVE  /\ DOMAIN queue \subseteq Nat \ {0} /\ DOMAIN queue' \subseteq Nat \ {0}
         /\ \A i \in DOMAIN queue' :
              \/ i + d \in DOMAIN queue /\ queue'[i] = queue[i + d]
              \/ i \in (Len(queue) - d + 1)..Len(queue') /\ queue'[i] \in N
         /\ \A i \in DOMAIN queue : i > d =>
              i - d \in DOMAIN queue' /\ queue'[i - d] = queue[i]
         /\ \A i \in (Len(queue) - d + 1)..Len(queue') : ~(i + d \in DOMAIN queue)
  <1>1. /\ Len(queue) \in Nat /\ DOMAIN queue = 1..Len(queue) /\ Len(queue') \in Nat
        /\ DOMAIN queue' = 1..Len(queue') /\ Len(queue) - d \in Nat
        /\ Len(queue) - d <= Len(queue')
    BY QueueLen, LenProperties DEF Shifts
  <1>2. ASSUME NEW i \in DOMAIN queue'
        PROVE  \/ i + d \in DOMAIN queue /\ queue'[i] = queue[i + d]
               \/ i \in (Len(queue) - d + 1)..Len(queue') /\ queue'[i] \in N
    <2>1. PICK n \in Nat : n = Len(queue) - d
      BY <1>1
    <2>2. i \in 1..n \/ i \in (n + 1)..Len(queue')
      BY <1>1, <2>1
    <2>3. i \in 1..n => i + d \in DOMAIN queue /\ queue'[i] = queue[i + d]
      <3>1. \A k \in 1..n : queue'[k] = queue[k + d]
        BY <2>1 DEF Shifts
      <3>2. \A k \in 1..n : k + d \in 1..Len(queue)
        BY <1>1, <2>1
      <3> QED BY <1>1, <3>1, <3>2
    <2>4. i \in (n + 1)..Len(queue') => queue'[i] \in N
      BY <2>1 DEF Shifts
    <2> QED BY SMTT(30), <2>1, <2>2, <2>3, <2>4
  <1>3. ASSUME NEW i \in DOMAIN queue, i > d
        PROVE  i - d \in DOMAIN queue' /\ queue'[i - d] = queue[i]
    <2>1. i - d \in 1..(Len(queue) - d) /\ i - d \in DOMAIN queue' /\ (i - d) + d = i
      BY <1>1, <1>3
    <2> QED BY <2>1 DEF Shifts
  <1>4. \A i \in (Len(queue) - d + 1)..Len(queue') : ~(i + d \in DOMAIN queue)
    BY <1>1
  <1> QED BY <1>1, <1>2, <1>3, <1>4

(* A step that neither begins nor ends connecting, and no close of the user. *)
LEMMA OrderlyStays ==
  ASSUME Types, Orderly, NEW d \in {0, 1}, NEW N, Shifts(d, N), UNCHANGED connecting,
         entry'.conn = entry.conn, entry = NoEntry => entry' = NoEntry,
         \A r \in N : ~ConnectReq(r) /\ (r.m = "close" => r.k = "none"),
         d = 1 /\ queue[1].m = "close" =>
           queue[1].k = "none" /\ \A s : s = queue[1].s => ~Living(s)',
         \A s \in Sess : Living(s)' => Living(s) \/ Closing(s)'
  PROVE  Orderly'
  <1>1. /\ DOMAIN queue \subseteq Nat \ {0} /\ DOMAIN queue' \subseteq Nat \ {0}
        /\ \A i \in DOMAIN queue' :
              \/ i + d \in DOMAIN queue /\ queue'[i] = queue[i + d]
              \/ queue'[i] \in N
        /\ \A i \in DOMAIN queue : i > d =>
              i - d \in DOMAIN queue' /\ queue'[i - d] = queue[i]
        /\ \A i \in (Len(queue) - d + 1)..Len(queue') : ~(i + d \in DOMAIN queue)
    BY QueuePlaces
  <1>2. OneConnect'
    <2> SUFFICES ASSUME NEW i \in DOMAIN queue', NEW j \in DOMAIN queue',
                        ConnectReq(queue[i])', ConnectReq(queue[j])'
                 PROVE  i = j
      BY DEF OneConnect
    <2>1. /\ i + d \in DOMAIN queue /\ queue'[i] = queue[i + d]
          /\ j + d \in DOMAIN queue /\ queue'[j] = queue[j + d]
      BY <1>1 DEF ConnectReq
    <2>2. i + d = j + d
      BY <2>1 DEF Orderly, OneConnect, ConnectReq
    <2> QED BY <1>1, <2>2
  <1>3. Connecting'
    <2> SUFFICES ASSUME NEW i \in DOMAIN queue', ConnectReq(queue[i])'
                 PROVE  connecting' /\ (queue'[i].m = "open" => entry' = NoEntry)
      BY DEF Connecting
    <2>1. i + d \in DOMAIN queue /\ queue'[i] = queue[i + d]
      BY <1>1 DEF ConnectReq
    <2> QED BY <2>1 DEF Orderly, Connecting, ConnectReq
  <1>4. Leaving'
    <2> SUFFICES ASSUME NEW i \in DOMAIN queue', queue'[i].m = "close", queue'[i].k # "none"
                 PROVE  /\ entry'.conn \in {queue'[i].s, 0}
                        /\ \A j \in DOMAIN queue' : j < i => queue'[j].m # "open"
      BY DEF Leaving
    <2>1. i + d \in DOMAIN queue /\ queue'[i] = queue[i + d]
      BY <1>1
    <2>2. /\ entry.conn \in {queue[i + d].s, 0}
          /\ \A j \in DOMAIN queue : j < i + d => queue[j].m # "open"
      BY <2>1 DEF Orderly, Leaving
    <2>3. ASSUME NEW j \in DOMAIN queue', j < i PROVE queue'[j].m # "open"
      <3>1. i \in Nat /\ j \in Nat /\ j + d < i + d /\ j + d \in Nat \ {0}
        BY <1>1, <2>3
      <3>2. j + d \in DOMAIN queue /\ queue'[j] = queue[j + d]
        <4>1. Len(queue) \in Nat /\ DOMAIN queue = 1..Len(queue)
          BY QueueLen
        <4>2. j \in 1..(Len(queue) - d)
          BY <1>1, <2>1, <3>1, <4>1
        <4> QED BY <3>1, <4>1, <4>2 DEF Shifts
      <3> QED BY <2>2, <3>1, <3>2
    <2> QED BY <2>1, <2>2, <2>3
  <1>5. NoOrphanSession'
    <2> SUFFICES ASSUME NEW s \in Sess, Living(s)'
                 PROVE  entry'.conn = s \/ Closing(s)'
      BY DEF NoOrphanSession, Living, Closing
    <2>1. CASE Living(s)
      <3>1. entry.conn = s \/ Closing(s)
        BY <2>1 DEF Orderly, NoOrphanSession, Living, Closing
      <3>2. ASSUME NEW i \in DOMAIN queue, queue[i].m = "close", queue[i].s = s
            PROVE  Closing(s)'
        <4>1. i > d
          <5>1. ~(d = 1 /\ i = 1)
            BY <3>2
          <5> QED BY <1>1, <5>1
        <4> QED BY <1>1, <3>2, <4>1 DEF Closing
      <3> QED BY <3>1, <3>2 DEF Closing
    <2> QED BY <2>1
  <1> QED BY <1>2, <1>3, <1>4, <1>5 DEF Orderly

LEMMA AppendPlaces ==
  ASSUME Types, NEW r \in Request, queue' = Append(queue, r)
  PROVE  \E L \in Nat : /\ DOMAIN queue' = DOMAIN queue \cup {L} /\ queue'[L] = r
                        /\ \A i \in DOMAIN queue : i < L /\ i # L /\ queue'[i] = queue[i]
  <1>1. Len(queue) \in Nat /\ DOMAIN queue = 1..Len(queue)
    BY QueueLen
  <1>2. PICK L \in Nat : L = Len(queue) + 1
    BY <1>1
  <1>3. /\ queue' \in Seq(Request) /\ Len(queue') = L /\ queue'[L] = r
        /\ \A i \in 1..Len(queue) : queue'[i] = queue[i]
    BY <1>2, AppendProperties DEF Types
  <1>4. DOMAIN queue' = 1..L
    BY <1>3, LenProperties
  <1>5. 1..L = 1..Len(queue) \cup {L} /\ \A i \in 1..Len(queue) : i < L /\ i # L
    BY <1>1, <1>2
  <1> QED BY <1>1, <1>3, <1>4, <1>5

LEMMA ConnectOrders == ASSUME ConstantsAssumption, IInv, Orderly, Connect PROVE Orderly'
  <1>1. ~connecting /\ entry = NoEntry /\ connecting' = TRUE
        /\ queue' = Append(queue, Open("connect", 0)) /\ UNCHANGED <<entry, core>>
    BY DEF Connect
  <1>2. PICK r \in Request : r = Open("connect", 0)
    BY RequestTypes
  <1>3. PICK L \in Nat : /\ DOMAIN queue' = DOMAIN queue \cup {L} /\ queue'[L] = r
                         /\ \A i \in DOMAIN queue : i < L /\ i # L /\ queue'[i] = queue[i]
    BY <1>1, <1>2, AppendPlaces DEF IInv
  <1>4. r.m = "open"
    BY <1>2 DEF Open
  <1>5. \A i \in DOMAIN queue : ~ConnectReq(queue[i])
    BY <1>1 DEF Orderly, Connecting
  <1>6. OneConnect' /\ Connecting'
    BY <1>1, <1>3, <1>5 DEF OneConnect, Connecting, ConnectReq
  <1>7. Leaving'
    <2> SUFFICES ASSUME NEW i \in DOMAIN queue', queue'[i].m = "close", queue'[i].k # "none"
                 PROVE  /\ entry'.conn \in {queue'[i].s, 0}
                        /\ \A j \in DOMAIN queue' : j < i => queue'[j].m # "open"
      BY DEF Leaving
    <2>1. i \in DOMAIN queue /\ queue'[i] = queue[i] /\ i < L
      BY <1>3, <1>4
    <2>2. \A j \in DOMAIN queue' : j < i => j \in DOMAIN queue
      <3>1. i \in Nat
        BY <2>1, QueueLen DEF IInv
      <3> QED BY <1>3, <2>1, <3>1
    <2> QED BY <1>1, <1>3, <2>1, <2>2 DEF Orderly, Leaving
  <1>8. NoOrphanSession'
    BY <1>1, <1>3 DEF Orderly, NoOrphanSession
  <1> QED BY <1>6, <1>7, <1>8 DEF Orderly

LEMMA LeaveOrders ==
  ASSUME ConstantsAssumption, IInv, Orderly, entry # NoEntry, ~Reopening,
         NEW k \in {"connect", "disconnect"}, queue' = Append(queue, Close(entry.conn, k)),
         \/ k = "connect" /\ ~connecting /\ connecting' = TRUE
         \/ k = "disconnect" /\ UNCHANGED connecting,
         UNCHANGED <<entry, core>>
  PROVE  Orderly'
  <1>1. PICK s \in Sess : s = entry.conn
    BY EntryConn DEF IInv
  <1>2. PICK r \in Request : r = Close(s, k)
    BY RequestTypes
  <1>3. PICK L \in Nat : /\ DOMAIN queue' = DOMAIN queue \cup {L} /\ queue'[L] = r
                         /\ \A i \in DOMAIN queue : i < L /\ i # L /\ queue'[i] = queue[i]
    BY <1>1, <1>2, AppendPlaces DEF IInv
  <1>4. r.m = "close" /\ r.s = s /\ r.k = k
    BY <1>2 DEF Close
  <1>5. \A i \in DOMAIN queue : queue[i].m # "open"
    BY DEF Reopening, Orderly, Connecting, ConnectReq
  <1>6. OneConnect' /\ Connecting'
    <2>1. CASE k = "connect"
      <3>1. ~connecting /\ connecting' = TRUE
        BY <2>1
      <3>2. \A i \in DOMAIN queue : ~ConnectReq(queue[i])
        BY <3>1 DEF Orderly, Connecting
      <3> QED BY <1>3, <1>4, <3>1, <3>2 DEF OneConnect, Connecting, ConnectReq
    <2>2. CASE k = "disconnect"
      <3>1. ~ConnectReq(r)
        BY <1>4, <2>2 DEF ConnectReq
      <3> QED BY <1>3, <2>2, <3>1 DEF Orderly, OneConnect, Connecting, ConnectReq
    <2> QED BY <2>1, <2>2
  <1>7. Leaving'
    <2> SUFFICES ASSUME NEW i \in DOMAIN queue', queue'[i].m = "close", queue'[i].k # "none"
                 PROVE  /\ entry'.conn \in {queue'[i].s, 0}
                        /\ \A j \in DOMAIN queue' : j < i => queue'[j].m # "open"
      BY DEF Leaving
    <2>1. entry'.conn \in {queue'[i].s, 0}
      BY <1>1, <1>3, <1>4 DEF Orderly, Leaving
    <2>2. \A j \in DOMAIN queue' : queue'[j].m # "open"
      BY <1>3, <1>4, <1>5
    <2> QED BY <2>1, <2>2
  <1>8. NoOrphanSession'
    BY <1>3 DEF Orderly, NoOrphanSession
  <1> QED BY <1>6, <1>7, <1>8 DEF Orderly

LEMMA TailPlaces ==
  ASSUME Types, queue # <<>>, queue' = Tail(queue)
  PROVE  /\ \A i \in DOMAIN queue' : i \in Nat /\ i + 1 \in DOMAIN queue /\ i + 1 # 1
                                     /\ queue'[i] = queue[i + 1]
         /\ \A i \in DOMAIN queue : i # 1 => i - 1 \in DOMAIN queue' /\ queue'[i - 1] = queue[i]
  <1>1. /\ queue' \in Seq(Request) /\ Len(queue') = Len(queue) - 1
        /\ Len(queue) \in Nat \ {0} /\ DOMAIN queue = 1..Len(queue)
        /\ \A i \in 1..(Len(queue) - 1) : queue'[i] = queue[i + 1]
    BY TailFacts, QueueLen
  <1>2. DOMAIN queue' = 1..(Len(queue) - 1)
    BY <1>1, LenProperties
  <1>3. \A i \in 1..Len(queue) : i # 1 => i - 1 \in 1..(Len(queue) - 1) /\ (i - 1) + 1 = i
    BY <1>1
  <1> QED BY <1>1, <1>2, <1>3

LEMMA TailAppendPlaces ==
  ASSUME Types, queue # <<>>, NEW r \in Request, queue' = Append(Tail(queue), r)
  PROVE  \E L \in Nat :
           /\ L \in DOMAIN queue' /\ queue'[L] = r
           /\ \A i \in DOMAIN queue' : i # L =>
                /\ i < L /\ i \in Nat /\ i + 1 \in DOMAIN queue /\ i + 1 # 1
                /\ queue'[i] = queue[i + 1]
           /\ \A i \in DOMAIN queue : i # 1 => i - 1 \in DOMAIN queue' /\ queue'[i - 1] = queue[i]
  <1>1. /\ Tail(queue) \in Seq(Request) /\ Len(Tail(queue)) = Len(queue) - 1
        /\ Len(queue) \in Nat \ {0} /\ DOMAIN queue = 1..Len(queue)
        /\ \A i \in 1..(Len(queue) - 1) : Tail(queue)[i] = queue[i + 1]
    BY TailFacts, QueueLen
  <1>2. PICK L \in Nat : L = Len(queue) /\ L # 0
    BY <1>1
  <1>3. /\ queue' \in Seq(Request) /\ Len(queue') = L /\ queue'[L] = r
        /\ \A i \in 1..(L - 1) : queue'[i] = queue[i + 1]
    BY <1>1, <1>2, AppendProperties
  <1>4. DOMAIN queue' = 1..L
    BY <1>3, LenProperties
  <1>5. /\ \A i \in 1..L : i # L => i \in 1..(L - 1) /\ i < L /\ i \in Nat /\ i + 1 \in 1..L /\ i + 1 # 1
        /\ \A i \in 1..L : i # 1 => i - 1 \in 1..(L - 1) /\ i - 1 \in 1..L /\ (i - 1) + 1 = i
        /\ L \in 1..L
    BY <1>2
  <1>6. \A i \in 1..L : i # 1 => queue'[i - 1] = queue[i]
    <2> SUFFICES ASSUME NEW i \in 1..L, i # 1 PROVE queue'[i - 1] = queue[i]
      OBVIOUS
    <2>1. PICK h \in 1..(L - 1) : h = i - 1 /\ h + 1 = i
      BY <1>5
    <2> QED BY <1>3, <2>1
  <1> QED BY <1>1, <1>2, <1>3, <1>4, <1>5, <1>6

LEMMA ClosedAnsweredOrders ==
  ASSUME ConstantsAssumption, IInv, Orderly, ClosedAnswered PROVE Orderly'
  <1>1. PICK q : q = Head(queue)
    OBVIOUS
  <1>2. /\ queue # <<>> /\ q.m = "close" /\ core' = [core EXCEPT ![q.s].st = "closed"]
        /\ entry' = IF q.k = "none" THEN entry ELSE NoEntry
        /\ queue' = IF q.k = "connect" THEN Append(Tail(queue), Open("connect", 0)) ELSE Tail(queue)
        /\ UNCHANGED connecting
    BY <1>1 DEF ClosedAnswered
  <1>3. q = queue[1] /\ 1 \in DOMAIN queue
    BY <1>1, <1>2, TailFacts DEF IInv
  <1>4. q.s \in Sess
    BY <1>2, <1>3 DEF IInv, Queued, Sound, Used
  <1>5. \A s \in Sess : Living(s)' => Living(s) /\ s # q.s
    <2>1. core'[q.s].st = "closed" /\ \A x \in Sess \ {q.s} : core'[x] = core[x]
      <3>1. core[q.s] \in Slot
        BY <1>4 DEF IInv, Types
      <3> QED BY <1>2, <1>4, <3>1 DEF IInv, Types, Slot
    <2> QED BY <2>1 DEF Living
  <1>6. CASE q.k = "none"
    <2>1. Shifts(1, {})
      BY <1>2, <1>6, ShiftTail DEF IInv
    <2>2. \A s : s = queue[1].s => ~Living(s)'
      BY <1>3, <1>4, <1>5
    <2> QED BY <1>2, <1>3, <1>5, <1>6, <2>1, <2>2, OrderlyStays DEF IInv
  <1>7. ASSUME q.k # "none", NEW s \in Sess, Living(s)'
        PROVE  \E i \in DOMAIN queue : i # 1 /\ queue[i].m = "close" /\ queue[i].s = s
    <2>1. entry.conn \in {q.s, 0} /\ Living(s) /\ s # q.s /\ 0 \notin Sess
      BY <1>2, <1>3, <1>5, <1>7 DEF Orderly, Leaving, Sess
    <2> QED BY <1>3, <2>1 DEF Orderly, NoOrphanSession, Living
  <1>8. CASE q.k \notin {"none", "connect"}
    <2>1. queue' = Tail(queue) /\ entry' = NoEntry
      BY <1>2, <1>8
    <2>2. /\ \A i \in DOMAIN queue' : i \in Nat /\ i + 1 \in DOMAIN queue /\ i + 1 # 1
                                     /\ queue'[i] = queue[i + 1]
          /\ \A i \in DOMAIN queue : i # 1 => i - 1 \in DOMAIN queue' /\ queue'[i - 1] = queue[i]
      BY <1>2, <2>1, TailPlaces DEF IInv
    <2>3. OneConnect'
      <3>1. \A i, j \in DOMAIN queue' : i + 1 = j + 1 => i = j
        BY <2>2
      <3> QED BY <2>2, <3>1 DEF Orderly, OneConnect, ConnectReq
    <2>4. Connecting'
      BY <1>2, <2>1, <2>2 DEF Orderly, Connecting, ConnectReq
    <2>5. Leaving'
      <3>1. \A i, j \in DOMAIN queue' : j < i => j + 1 < i + 1
        BY <2>2
      <3>2. entry'.conn = 0
        BY <2>1 DEF NoEntry
      <3> QED BY <2>2, <3>1, <3>2 DEF Orderly, Leaving
    <2>6. NoOrphanSession'
      BY <1>7, <1>8, <2>2 DEF NoOrphanSession, Living
    <2> QED BY <2>3, <2>4, <2>5, <2>6 DEF Orderly
  <1>9. CASE q.k = "connect"
    <2>1. PICK r \in Request : r = Open("connect", 0)
      BY RequestTypes
    <2>2. queue' = Append(Tail(queue), r) /\ entry' = NoEntry
      BY <1>2, <1>9, <2>1
    <2>3. PICK L \in Nat :
            /\ L \in DOMAIN queue' /\ queue'[L] = r
            /\ \A i \in DOMAIN queue' : i # L =>
                 /\ i < L /\ i \in Nat /\ i + 1 \in DOMAIN queue /\ i + 1 # 1
                 /\ queue'[i] = queue[i + 1]
            /\ \A i \in DOMAIN queue : i # 1 => i - 1 \in DOMAIN queue' /\ queue'[i - 1] = queue[i]
      BY <1>2, <2>2, TailAppendPlaces DEF IInv
    <2>4. ConnectReq(queue[1]) /\ r.m = "open"
      BY <1>2, <1>3, <1>9, <2>1 DEF ConnectReq, Open
    <2>5. \A i \in DOMAIN queue : i # 1 => ~ConnectReq(queue[i])
      BY <1>3, <2>4 DEF Orderly, OneConnect
    <2>6. \A i \in DOMAIN queue' : i # L => ~ConnectReq(queue[i])'
      BY <2>3, <2>5 DEF ConnectReq
    <2>7. OneConnect'
      BY <2>6 DEF OneConnect
    <2>8. Connecting'
      <3>1. connecting'
        BY <1>2, <1>3, <2>4 DEF Orderly, Connecting
      <3> QED BY <2>2, <3>1 DEF Connecting
    <2>9. Leaving'
      <3> SUFFICES ASSUME NEW i \in DOMAIN queue', queue'[i].m = "close", queue'[i].k # "none"
                   PROVE  /\ entry'.conn \in {queue'[i].s, 0}
                          /\ \A j \in DOMAIN queue' : j < i => queue'[j].m # "open"
        BY DEF Leaving
      <3>1. i # L /\ i < L /\ i \in Nat /\ i + 1 \in DOMAIN queue /\ queue'[i] = queue[i + 1]
        BY <2>3, <2>4
      <3>2. \A j \in DOMAIN queue' : j < i =>
              j # L /\ j + 1 \in DOMAIN queue /\ j + 1 < i + 1 /\ queue'[j] = queue[j + 1]
        BY <2>3, <3>1
      <3>3. entry'.conn = 0
        BY <2>2 DEF NoEntry
      <3> QED BY <3>1, <3>2, <3>3 DEF Orderly, Leaving
    <2>10. NoOrphanSession'
      BY <1>7, <1>9, <2>3 DEF NoOrphanSession, Living
    <2> QED BY <2>7, <2>8, <2>9, <2>10 DEF Orderly
  <1> QED BY <1>6, <1>8, <1>9

(* An attempt to connect was answered: no other is on its way, and the user  *)
(* leaves nothing.                                                          *)
LEMMA ConnectEndsOrders ==
  ASSUME ConstantsAssumption, IInv, Orderly, Opening({"connect"}), queue' = Tail(queue),
         \A s \in Sess : Living(s)' => entry'.conn = s \/ Living(s),
         entry' # entry => entry = NoEntry
  PROVE  Orderly'
  <1>1. queue # <<>> /\ queue[1].m = "open" /\ queue[1].k = "connect" /\ 1 \in DOMAIN queue
    BY TailFacts DEF Opening, IInv
  <1>2. /\ \A i \in DOMAIN queue' : i \in Nat /\ i + 1 \in DOMAIN queue /\ i + 1 # 1
                                   /\ queue'[i] = queue[i + 1]
        /\ \A i \in DOMAIN queue : i # 1 => i - 1 \in DOMAIN queue' /\ queue'[i - 1] = queue[i]
    BY <1>1, TailPlaces DEF IInv
  <1>3. \A i \in DOMAIN queue : i # 1 => ~ConnectReq(queue[i])
    BY <1>1 DEF Orderly, OneConnect, ConnectReq
  <1>4. \A i \in DOMAIN queue' : ~ConnectReq(queue[i])'
    BY <1>2, <1>3 DEF ConnectReq
  <1>5. OneConnect' /\ Connecting'
    BY <1>4 DEF OneConnect, Connecting
  <1>6. \A i \in DOMAIN queue : i # 1 => ~(queue[i].m = "close" /\ queue[i].k # "none")
    <2>1. \A i \in DOMAIN queue : i # 1 => 1 < i
      BY QueueLen DEF IInv
    <2> QED BY <1>1, <2>1 DEF Orderly, Leaving
  <1>7. Leaving'
    BY <1>2, <1>6 DEF Leaving
  <1>8. NoOrphanSession'
    <2> SUFFICES ASSUME NEW s \in Sess, Living(s)', entry'.conn # s PROVE Closing(s)'
      BY DEF NoOrphanSession, Living, Closing
    <2>1. entry.conn # s
      BY DEF NoEntry, Sess
    <2>2. PICK i \in DOMAIN queue : queue[i].m = "close" /\ queue[i].s = s
      BY <2>1 DEF Orderly, NoOrphanSession, Living
    <2> QED BY <1>1, <1>2, <2>2 DEF Closing
  <1> QED BY <1>5, <1>7, <1>8 DEF Orderly

LEMMA Between ==
  ASSUME NEW s \in Seq(Request), NEW r \in Request, NEW Z \in Seq(Request)
  PROVE  \E L \in Nat : L \in DOMAIN (Append(s, r) \o Z) /\ (Append(s, r) \o Z)[L] = r
  <1> DEFINE T == Append(s, r)
  <1>1. Len(s) \in Nat /\ Len(Z) \in Nat
    BY LenProperties
  <1>2. PICK L \in Nat \ {0} : L = Len(s) + 1
    BY <1>1
  <1>3. T \in Seq(Request) /\ Len(T) = L /\ T[L] = r
    BY <1>2, AppendProperties
  <1> HIDE DEF T
  <1>4. /\ T \o Z \in Seq(Request) /\ Len(T \o Z) = L + Len(Z)
        /\ \A i \in 1..(L + Len(Z)) : i <= L => (T \o Z)[i] = T[i]
    BY <1>3, ConcatProperties
  <1>5. L \in 1..(L + Len(Z)) /\ L <= L
    BY <1>1
  <1>6. DOMAIN (T \o Z) = 1..(L + Len(Z))
    BY <1>4, LenProperties
  <1> QED BY <1>3, <1>4, <1>5, <1>6 DEF T

LEMMA ReplaceAdoptsOrders ==
  ASSUME ConstantsAssumption, IInv, Orderly, ReplaceAdopts PROVE Orderly'
  <1>1. PICK dead : dead = Head(queue).s
    OBVIOUS
  <1>2. Replacing /\ entry.conn = dead /\ UNCHANGED connecting
    BY <1>1 DEF ReplaceAdopts, Opening, Replacing
  <1>3. PICK n \in Fresh :
          /\ core' = Stored(n) /\ entry' = Opened(n)
          /\ queue' = Append(Tail(queue), Close(dead, "none")) \o
                        Again(Only(Woken, {c \in Calls : MayRetry(c)}), n)
    BY <1>1 DEF ReplaceAdopts
  <1>4. dead \in Sess /\ queue[1].m = "open"
    BY <1>1, <1>2, DeadFacts
  <1>5. /\ n \in Sess /\ \A x \in Sess \ {n} : core'[x] = core[x]
    BY <1>3, StoredFacts DEF IInv
  <1>6. PICK r \in Request : r = Close(dead, "none")
    BY <1>4, RequestTypes
  <1>0. PICK Z : /\ Z = Again(Only(Woken, {c \in Calls : MayRetry(c)}), n) /\ Z \in Seq(Request)
                 /\ \A i \in 1..Len(Z) : Z[i].m = "call" /\ Z[i].s = n /\ Z[i].c \in Retried("unsafe")
                 /\ \A i, j \in 1..Len(Z) : SameCall(Z[i], Z[j]) => i = j
    BY <1>5, AgainFacts
  <1>7. /\ Z \in Seq(Request) /\ \A i \in 1..Len(Z) : Z[i].m = "call"
        /\ \A i, j \in 1..Len(Z) : SameCall(Z[i], Z[j]) => i = j
    BY <1>0
  <1>8. queue' = Append(Tail(queue), r) \o Z /\ r.m = "close" /\ r.k = "none" /\ r.s = dead
    BY <1>0, <1>3, <1>6 DEF Close
  <1>9. PICK N : N = {r} \cup {Z[i] : i \in 1..Len(Z)}
    OBVIOUS
  <1>10. Shifts(1, N)
    <2>1. r \in N /\ r.m # "call" /\ \A i \in 1..Len(Z) : Z[i] \in N
      BY <1>8, <1>9
    <2> QED BY <1>2, <1>7, <1>8, <2>1, ShiftTailAppendMany DEF IInv, Replacing
  <1>11. /\ \A i \in DOMAIN queue' :
              \/ i + 1 \in DOMAIN queue /\ queue'[i] = queue[i + 1]
              \/ queue'[i] \in N
         /\ \A i \in DOMAIN queue : i > 1 => i - 1 \in DOMAIN queue' /\ queue'[i - 1] = queue[i]
         /\ DOMAIN queue \subseteq Nat \ {0} /\ DOMAIN queue' \subseteq Nat \ {0}
    <2>1. PICK d \in {0, 1} : d = 1
      OBVIOUS
    <2> QED BY <1>10, <2>1, QueuePlaces DEF IInv
  <1>12. \A x \in N : ~ConnectReq(x) /\ (x.m = "close" => x.k = "none")
    BY <1>7, <1>8, <1>9 DEF ConnectReq
  <1>13. OneConnect'
    <2> SUFFICES ASSUME NEW i \in DOMAIN queue', NEW j \in DOMAIN queue',
                        ConnectReq(queue[i])', ConnectReq(queue[j])'
                 PROVE  i = j
      BY DEF OneConnect
    <2>1. /\ i + 1 \in DOMAIN queue /\ queue'[i] = queue[i + 1]
          /\ j + 1 \in DOMAIN queue /\ queue'[j] = queue[j + 1]
      BY <1>11, <1>12 DEF ConnectReq
    <2>2. i + 1 = j + 1
      BY <2>1 DEF Orderly, OneConnect, ConnectReq
    <2> QED BY <1>11, <2>2
  <1>14. Connecting'
    <2>1. entry # NoEntry
      BY <1>2, <1>4 DEF NoEntry, Sess
    <2> QED BY <1>2, <1>11, <1>12, <2>1 DEF Orderly, Connecting, ConnectReq
  <1>15. Leaving'
    <2>1. \A i \in DOMAIN queue : i + 0 > 1 => ~(queue[i].m = "close" /\ queue[i].k # "none")
      <3>1. 1 \in DOMAIN queue
        BY <1>2, TailFacts DEF IInv, Replacing
      <3> QED BY <1>4, <1>11, <3>1 DEF Orderly, Leaving
    <2>2. \A i \in DOMAIN queue' : i + 1 > 1
      BY <1>11
    <2>3. \A i \in DOMAIN queue : ~(queue[i].m = "close" /\ queue[i].k # "none")
      <3>1. \A i \in DOMAIN queue : i = 1 \/ i + 0 > 1
        BY <1>11
      <3> QED BY <1>4, <2>1, <3>1
    <2> QED BY <1>11, <1>12, <2>3 DEF Leaving
  <1>16. NoOrphanSession'
    <2> SUFFICES ASSUME NEW s \in Sess, Living(s)', s # n PROVE Closing(s)'
      BY <1>3 DEF NoOrphanSession, Living, Closing, Opened
    <2>1. Living(s)
      BY <1>5 DEF Living
    <2>2. CASE s = dead
      <3>1. PICK L \in Nat : L \in DOMAIN queue' /\ queue'[L] = r
        <4>1. Tail(queue) \in Seq(Request)
          BY <1>2, TailFacts DEF IInv, Replacing
        <4>2. PICK q \in Seq(Request) : q = Tail(queue)
          BY <4>1
        <4>3. \E L \in Nat : L \in DOMAIN (Append(q, r) \o Z) /\ (Append(q, r) \o Z)[L] = r
          BY <1>7, Between
        <4>4. queue' = Append(q, r) \o Z
          BY <1>8, <4>2
        <4> QED BY <4>3, <4>4
      <3> QED BY <1>8, <2>2, <3>1 DEF Closing
    <2>3. CASE s # dead
      <3>1. PICK i \in DOMAIN queue : queue[i].m = "close" /\ queue[i].s = s
        BY <1>2, <2>1, <2>3 DEF Orderly, NoOrphanSession, Living
      <3>2. i > 1
        <4>1. i # 1
          BY <1>4, <3>1
        <4> QED BY <1>11, <4>1
      <3> QED BY <1>11, <3>1, <3>2 DEF Closing
    <2> QED BY <2>2, <2>3
  <1> QED BY <1>13, <1>14, <1>15, <1>16 DEF Orderly

(* The steps of a session that the page has, or of none.                     *)
Keeps == /\ UNCHANGED connecting /\ entry'.conn = entry.conn /\ (entry = NoEntry => entry' = NoEntry)
         /\ \A s \in Sess : Living(s)' => Living(s)
Plain(r) == ~ConnectReq(r) /\ r.m # "close"

LEMMA SameOrders == ASSUME Types, Orderly, Keeps, UNCHANGED queue PROVE Orderly'
  <1>1. PICK d \in {0, 1} : d = 0
    OBVIOUS
  <1>2. PICK N : N = {}
    OBVIOUS
  <1>3. Shifts(d, N)
    BY <1>1, <1>2, ShiftSame
  <1>4. /\ UNCHANGED connecting /\ entry'.conn = entry.conn /\ (entry = NoEntry => entry' = NoEntry)
        /\ \A s \in Sess : Living(s)' => Living(s) \/ Closing(s)'
    BY DEF Keeps
  <1>5. \A r \in N : ~ConnectReq(r) /\ (r.m = "close" => r.k = "none")
    BY <1>2
  <1>6. d = 1 /\ queue[1].m = "close" =>
          queue[1].k = "none" /\ \A s : s = queue[1].s => ~Living(s)'
    BY <1>1
  <1> QED BY <1>3, <1>4, <1>5, <1>6, OrderlyStays

LEMMA AppendOrders ==
  ASSUME Types, Orderly, Keeps, NEW r \in Request, Plain(r), queue' = Append(queue, r)
  PROVE  Orderly'
  <1>1. PICK d \in {0, 1} : d = 0
    OBVIOUS
  <1>2. PICK N : N = {r}
    OBVIOUS
  <1>3. Shifts(d, N)
    BY <1>1, <1>2, ShiftAppend
  <1>4. /\ UNCHANGED connecting /\ entry'.conn = entry.conn /\ (entry = NoEntry => entry' = NoEntry)
        /\ \A s \in Sess : Living(s)' => Living(s) \/ Closing(s)'
    BY DEF Keeps
  <1>5. \A q \in N : ~ConnectReq(q) /\ (q.m = "close" => q.k = "none")
    BY <1>2 DEF Plain
  <1>6. d = 1 /\ queue[1].m = "close" =>
          queue[1].k = "none" /\ \A s : s = queue[1].s => ~Living(s)'
    BY <1>1
  <1> QED BY <1>3, <1>4, <1>5, <1>6, OrderlyStays

LEMMA TailOrders ==
  ASSUME Types, Orderly, Keeps, queue # <<>>, queue[1].m # "close", queue' = Tail(queue)
  PROVE  Orderly'
  <1>1. PICK d \in {0, 1} : d = 1
    OBVIOUS
  <1>2. PICK N : N = {}
    OBVIOUS
  <1>3. Shifts(d, N)
    BY <1>1, <1>2, ShiftTail
  <1>4. /\ UNCHANGED connecting /\ entry'.conn = entry.conn /\ (entry = NoEntry => entry' = NoEntry)
        /\ \A s \in Sess : Living(s)' => Living(s) \/ Closing(s)'
    BY DEF Keeps
  <1>5. \A r \in N : ~ConnectReq(r) /\ (r.m = "close" => r.k = "none")
    BY <1>2
  <1>6. d = 1 /\ queue[1].m = "close" =>
          queue[1].k = "none" /\ \A s : s = queue[1].s => ~Living(s)'
    OBVIOUS
  <1> QED BY <1>3, <1>4, <1>5, <1>6, OrderlyStays

LEMMA TailAppendOrders ==
  ASSUME Types, Orderly, UNCHANGED connecting, entry'.conn = entry.conn,
         entry = NoEntry => entry' = NoEntry, queue # <<>>, queue[1].m # "close",
         NEW r \in Request, ~ConnectReq(r), r.m = "close" => r.k = "none",
         queue' = Append(Tail(queue), r),
         \A s \in Sess : Living(s)' => (Living(s) \/ (r.m = "close" /\ r.s = s))
  PROVE  Orderly'
  <1>1. PICK d \in {0, 1} : d = 1
    OBVIOUS
  <1>2. PICK N : N = {r}
    OBVIOUS
  <1>3. Shifts(d, N)
    BY <1>1, <1>2, ShiftTailAppend
  <1>4. \A s \in Sess : Living(s)' => Living(s) \/ Closing(s)'
    <2>1. PICK L \in Nat : L \in DOMAIN queue' /\ queue'[L] = r
      BY TailAppendPlaces
    <2> QED BY <2>1 DEF Closing
  <1>5. \A q \in N : ~ConnectReq(q) /\ (q.m = "close" => q.k = "none")
    BY <1>2
  <1>6. d = 1 /\ queue[1].m = "close" =>
          queue[1].k = "none" /\ \A s : s = queue[1].s => ~Living(s)'
    OBVIOUS
  <1> QED BY <1>3, <1>4, <1>5, <1>6, OrderlyStays

LEMMA UserOrders ==
  ASSUME ConstantsAssumption, IInv, Orderly,
         \/ \E kind \in Kinds : MakeCall(kind) \/ StopCall(kind)
         \/ \E c \in Calls : Confirmed(c) \/ Declined(c)
         \/ Timer \/ (\E s \in Sess : SessionDies(s)) \/ UNCHANGED vars
  PROVE  Orderly'
  <1>1. ASSUME NEW kind \in Kinds, MakeCall(kind) PROVE Orderly'
    <2>1. Keeps /\ entry # NoEntry
      BY <1>1 DEF MakeCall, MayMake, page, Keeps, Living
    <2>2. PICK s \in Sess : s = entry.conn
      BY <2>1, EntryConn DEF IInv
    <2>3. PICK n \in Nat : n = Len(calls) + 1
      BY CallsFacts, LenProperties DEF IInv, Types
    <2>4. PICK r \in Request : r = Send(n, s)
      BY RequestTypes
    <2>5. queue' = Append(queue, r)
      BY <1>1, <2>2, <2>3, <2>4 DEF MakeCall
    <2>6. Plain(r)
      BY <2>4 DEF Send, Plain, ConnectReq
    <2> QED BY <2>1, <2>5, <2>6, AppendOrders DEF IInv
  <1>2. ASSUME NEW kind \in Kinds, StopCall(kind) PROVE Orderly'
    <2>1. Keeps /\ UNCHANGED queue
      BY <1>2 DEF StopCall, page, Keeps, Living
    <2> QED BY <2>1, SameOrders DEF IInv
  <1>3. ASSUME NEW c \in Calls, Confirmed(c) PROVE Orderly'
    <2>1. Keeps
      BY <1>3 DEF Confirmed, Keeps, Living
    <2>2. PICK s \in Sess : s = calls[c].home
      BY CallsFacts DEF IInv, Call
    <2>3. c \in Nat
      BY CallsFacts DEF IInv
    <2>4. PICK r \in Request : r = Send(c, s)
      BY <2>3, RequestTypes
    <2>5. queue' = Append(queue, r)
      BY <1>3, <2>2, <2>4 DEF Confirmed
    <2>6. Plain(r)
      BY <2>4 DEF Send, Plain, ConnectReq
    <2> QED BY <2>1, <2>5, <2>6, AppendOrders DEF IInv
  <1>4. ASSUME NEW c \in Calls, Declined(c) PROVE Orderly'
    <2>1. Keeps /\ UNCHANGED queue
      BY <1>4 DEF Declined, page, Keeps, Living
    <2> QED BY <2>1, SameOrders DEF IInv
  <1>5. CASE Timer
    <2>1. entry.lost /\ entry' = [entry EXCEPT !.reconn = TRUE]
      BY <1>5 DEF Timer
    <2>2. entry # NoEntry
      BY <2>1 DEF NoEntry
    <2>3. PICK s \in Sess : s = entry.conn
      BY <2>2, EntryConn DEF IInv
    <2>4. entry'.conn = entry.conn
      <3>1. entry \in Entry
        BY <2>2, EntryConn DEF IInv
      <3> QED BY <2>1, <3>1 DEF Entry
    <2>5. Keeps
      BY <1>5, <2>2, <2>4 DEF Timer, Keeps, Living
    <2>6. PICK r \in Request : r = Open("timer", s)
      BY <2>3, RequestTypes
    <2>7. queue' = Append(queue, r)
      BY <1>5, <2>3, <2>6 DEF Timer
    <2>8. Plain(r)
      BY <2>6 DEF Open, Plain, ConnectReq
    <2> QED BY <2>5, <2>7, <2>8, AppendOrders DEF IInv
  <1>6. ASSUME NEW s \in Sess, SessionDies(s) PROVE Orderly'
    <2>1. core[s].st = "open" /\ \A x \in Sess \ {s} : core'[x] = core[x]
      BY <1>6 DEF SessionDies, IInv, Types
    <2>2. Keeps /\ UNCHANGED queue
      BY <1>6, <2>1 DEF SessionDies, page, Keeps, Living
    <2> QED BY <2>2, SameOrders DEF IInv
  <1>7. CASE UNCHANGED vars
    <2>1. Keeps /\ UNCHANGED queue
      BY <1>7 DEF vars, page, Keeps, Living
    <2> QED BY <2>1, SameOrders DEF IInv
  <1> QED BY <1>1, <1>2, <1>3, <1>4, <1>5, <1>6, <1>7

LEMMA CallOrders ==
  ASSUME ConstantsAssumption, IInv, Orderly, CallServed \/ CallRefused \/ CallLost
  PROVE  Orderly'
  <1>1. Calling
    BY DEF CallServed, CallRefused, CallLost
  <1>2. PICK c, s : c = Caller /\ s = Target
    OBVIOUS
  <1>3. s \in Sess /\ c \in Calls /\ queue # <<>> /\ queue[1].m # "close"
    BY <1>1, <1>2, CallerFacts DEF Answered
  <1>4. CASE CallServed
    <2>1. PICK t : core' = [core EXCEPT ![s] = t] /\ core[s].st = "open"
      BY <1>2, <1>4 DEF CallServed
    <2>2. \A x \in Sess : Living(x)' => Living(x)
      BY <1>3, <2>1 DEF Living, IInv, Types
    <2>3. Keeps /\ queue' = Tail(queue)
      BY <1>4, <2>2 DEF CallServed, Keeps
    <2> QED BY <1>3, <2>3, TailOrders DEF IInv
  <1>5. CASE CallRefused
    <2>1. Keeps /\ queue' = Tail(queue)
      BY <1>5 DEF CallRefused, Keeps, Living
    <2> QED BY <1>3, <2>1, TailOrders DEF IInv
  <1>6. CASE CallLost
    <2>1. UNCHANGED connecting /\ core[s].st \in {"open", "dead"}
      BY <1>2, <1>6 DEF CallLost
    <2>2. PICK t : core' = [core EXCEPT ![s] = t]
      BY <1>2, <1>6 DEF CallLost
    <2>3. \A x \in Sess : Living(x)' => Living(x)
      BY <1>3, <2>1, <2>2 DEF Living, IInv, Types
    <2>4. \E done \in {0, 1} : Lost(core[s].flag, Ran(c, done))
      BY <1>2, <1>6 DEF CallLost, Ran
    <2>5. \/ queue' = Tail(queue) /\ entry' = entry
          \/ queue' = Tail(queue) /\ entry.conn = s /\ entry' = MarkedLost(s, FALSE)
          \/ /\ queue' = Append(Tail(queue), Open("call", s))
             /\ entry.conn = s /\ entry' = [entry EXCEPT !.reconn = TRUE]
          \/ repl[s] \in Sess /\ queue' = Append(Tail(queue), Send(c, repl[s])) /\ entry' = entry
      BY <1>2, <2>4 DEF Lost, LostIgnored, LostWithTx, LostReplaced
    <2>6. entry'.conn = entry.conn /\ (entry = NoEntry => entry' = NoEntry)
      <3>1. entry.conn = s => entry # NoEntry /\ entry \in Entry
        <4>1. NoEntry.conn \notin Sess
          BY DEF NoEntry, Sess
        <4> QED BY <1>3, <4>1 DEF IInv, Types
      <3>2. entry.conn = s => [entry EXCEPT !.reconn = TRUE].conn = s
        BY <3>1 DEF Entry
      <3>3. entry.conn = s => MarkedLost(s, FALSE).conn = s
        BY DEF MarkedLost
      <3> QED BY <2>5, <3>1, <3>2, <3>3
    <2>7. CASE queue' = Tail(queue)
      <3>1. Keeps
        BY <2>1, <2>3, <2>6 DEF Keeps
      <3> QED BY <1>3, <2>7, <3>1, TailOrders DEF IInv
    <2>8. CASE queue' = Append(Tail(queue), Open("call", s))
      <3>1. PICK r \in Request : r = Open("call", s)
        BY <1>3, RequestTypes
      <3>2. ~ConnectReq(r) /\ r.m # "close" /\ queue' = Append(Tail(queue), r)
        BY <2>8, <3>1 DEF Open, ConnectReq
      <3> QED BY <1>3, <2>1, <2>3, <2>6, <3>2, TailAppendOrders DEF IInv
    <2>9. CASE repl[s] \in Sess /\ queue' = Append(Tail(queue), Send(c, repl[s]))
      <3>1. PICK n \in Sess : n = repl[s]
        BY <2>9
      <3>2. c \in Nat
        BY <1>3, CallsFacts DEF IInv
      <3>3. PICK r \in Request : r = Send(c, n)
        BY <3>2, RequestTypes
      <3>4. ~ConnectReq(r) /\ r.m # "close" /\ queue' = Append(Tail(queue), r)
        BY <2>9, <3>1, <3>3 DEF Send, ConnectReq
      <3> QED BY <1>3, <2>1, <2>3, <2>6, <3>4, TailAppendOrders DEF IInv
    <2> QED BY <2>5, <2>7, <2>8, <2>9
  <1> QED BY <1>4, <1>5, <1>6

LEMMA ReplaceEndsOrders ==
  ASSUME ConstantsAssumption, IInv, Orderly, ReplaceTooLate \/ ReplaceFails PROVE Orderly'
  <1>1. PICK dead : dead = Head(queue).s
    OBVIOUS
  <1>2. Replacing /\ UNCHANGED connecting
    BY DEF ReplaceTooLate, ReplaceFails, Opening, Replacing
  <1>3. dead \in Sess /\ queue # <<>> /\ queue[1].m # "close"
    BY <1>1, <1>2, DeadFacts DEF Replacing
  <1>4. CASE ReplaceTooLate
    <2>1. PICK n \in Fresh : core' = Stored(n) /\ queue' = GivenUp(n)
      BY <1>4 DEF ReplaceTooLate
    <2>2. n \in Sess /\ \A x \in Sess \ {n} : core'[x] = core[x]
      BY <2>1, StoredFacts DEF IInv
    <2>3. PICK r \in Request : r = Close(n, "none")
      BY <2>2, RequestTypes
    <2>4. r.m = "close" /\ r.s = n /\ r.k = "none" /\ ~ConnectReq(r)
          /\ queue' = Append(Tail(queue), r)
      BY <2>1, <2>3 DEF Close, ConnectReq, GivenUp
    <2>5. \A x \in Sess : Living(x)' => (Living(x) \/ (r.m = "close" /\ r.s = x))
      BY <2>2, <2>4 DEF Living
    <2>6. UNCHANGED entry
      BY <1>4 DEF ReplaceTooLate
    <2> QED BY <1>2, <1>3, <2>4, <2>5, <2>6, TailAppendOrders DEF IInv
  <1>5. CASE ReplaceFails
    <2>1. entry' = MarkedLost(dead, TRUE) /\ queue' = Tail(queue) /\ UNCHANGED core
      BY <1>1, <1>5 DEF ReplaceFails
    <2>2. entry'.conn = entry.conn /\ (entry = NoEntry => entry' = NoEntry)
      <3>1. NoEntry.conn # dead
        BY <1>3 DEF NoEntry, Sess
      <3>2. MarkedLost(dead, TRUE).conn = entry.conn
            /\ (entry.conn # dead => MarkedLost(dead, TRUE) = entry)
        BY DEF MarkedLost
      <3> QED BY <2>1, <3>1, <3>2
    <2>3. Keeps
      BY <1>2, <2>1, <2>2 DEF Keeps, Living
    <2> QED BY <1>3, <2>1, <2>3, TailOrders DEF IInv
  <1> QED BY <1>4, <1>5

LEMMA OrderlyNext ==
  ASSUME ConstantsAssumption, Patient, IInv, Orderly, [Next]_vars PROVE Orderly'
  <1>1. CASE Connect
    BY <1>1, ConnectOrders
  <1>2. CASE Reconnect
    <2>1. PICK k \in {"connect", "disconnect"} : k = "connect"
      OBVIOUS
    <2>2. /\ entry # NoEntry /\ ~Reopening /\ queue' = Append(queue, Close(entry.conn, k))
          /\ ~connecting /\ connecting' = TRUE /\ UNCHANGED <<entry, core>>
      BY <1>2, <2>1 DEF Reconnect
    <2> QED BY <2>1, <2>2, LeaveOrders
  <1>3. CASE Disconnect
    <2>1. PICK k \in {"connect", "disconnect"} : k = "disconnect"
      OBVIOUS
    <2>2. /\ entry # NoEntry /\ ~Reopening /\ queue' = Append(queue, Close(entry.conn, k))
          /\ UNCHANGED connecting /\ UNCHANGED <<entry, core>>
      BY <1>3, <2>1 DEF Disconnect
    <2> QED BY <2>1, <2>2, LeaveOrders
  <1>4. CASE ConnectOk
    <2>1. PICK n \in Fresh : core' = Stored(n) /\ entry' = Opened(n)
      BY <1>4 DEF ConnectOk
    <2>2. n \in Sess /\ \A x \in Sess \ {n} : core'[x] = core[x]
      BY <2>1, StoredFacts DEF IInv
    <2>3. \A x \in Sess : Living(x)' => entry'.conn = x \/ Living(x)
      BY <2>1, <2>2 DEF Living, Opened
    <2>4. Opening({"connect"}) /\ queue' = Tail(queue)
      BY <1>4 DEF ConnectOk
    <2>5. entry = NoEntry
      <3>1. queue[1].m = "open" /\ queue[1].k = "connect" /\ 1 \in DOMAIN queue
        BY <2>4, TailFacts DEF Opening, IInv
      <3> QED BY <3>1 DEF Orderly, Connecting, ConnectReq
    <2> QED BY <2>3, <2>4, <2>5, ConnectEndsOrders
  <1>5. CASE ConnectFails
    <2>1. Opening({"connect"}) /\ queue' = Tail(queue) /\ UNCHANGED <<entry, core>>
      BY <1>5 DEF ConnectFails
    <2>2. \A x \in Sess : Living(x)' => entry'.conn = x \/ Living(x)
      BY <2>1 DEF Living
    <2> QED BY <2>1, <2>2, ConnectEndsOrders
  <1>6. CASE ClosedAnswered
    BY <1>6, ClosedAnsweredOrders
  <1>7. CASE ReplaceAdopts
    BY <1>7, ReplaceAdoptsOrders
  <1>8. CASE ReplaceTooLate \/ ReplaceFails
    BY <1>8, ReplaceEndsOrders
  <1>9. CASE CallServed \/ CallRefused \/ CallLost
    BY <1>9, CallOrders
  <1>10. CASE \/ \E kind \in Kinds : MakeCall(kind) \/ StopCall(kind)
              \/ \E c \in Calls : Confirmed(c) \/ Declined(c)
              \/ Timer \/ (\E s \in Sess : SessionDies(s)) \/ UNCHANGED vars
    BY <1>10, UserOrders
  <1> QED BY <1>1, <1>2, <1>3, <1>4, <1>5, <1>6, <1>7, <1>8, <1>9, <1>10 DEF Next, Answer

(* App.tsx:2346: a session that lives in the core is the one of the entry,   *)
(* or a request to close it is on its way, as long as the user does not      *)
(* leave a connection while it is being reopened (Patient).                  *)
THEOREM NoOrphan == ASSUME Patient PROVE Spec => []NoOrphanSession
  <1>1. Init => Orderly
    <2> SUFFICES ASSUME Init PROVE Orderly
      OBVIOUS
    <2>1. DOMAIN queue = {}
      <3>1. queue = <<>> /\ DOMAIN <<>> = {}
        BY DEF Init
      <3> QED BY <3>1
    <2>2. \A s \in Sess : core[s].st = "none"
      BY DEF Init, Unused
    <2> QED BY <2>1, <2>2 DEF Orderly, OneConnect, Connecting, Leaving, NoOrphanSession
  <1>2. IInv /\ Orderly /\ [Next]_vars => Orderly'
    BY OrderlyNext, ConstantsAssumption
  <1>3. Orderly => NoOrphanSession
    BY DEF Orderly
  <1> QED BY <1>1, <1>2, <1>3, Invariance, PTL DEF Spec
=============================================================================
