----------------------------- MODULE PagingProofs -----------------------------
(***************************************************************************)
(* What holds of the pages and the reads to the end for every number of    *)
(* tabs, walks and connections.  Of every user: no statement that may write *)
(* is run again unasked (IInv).  Of a user who waits for one read before   *)
(* the next, and whose tabs have a connection each: the pages shown, the   *)
(* pages kept and the walks that end are those of one execution (JInv,      *)
(* which says of each connection that nobody else holds its cursor).        *)
(***************************************************************************)
EXTENDS Paging, SequenceFacts

Row   == [exec : Nat, n : Nat]
Page  == [rows : Seq(Row), truncated : BOOLEAN, cursor : BOOLEAN, none : BOOLEAN]
Named == Sqls \cup {NoSql}
Pcs   == {"idle", "asking", "first", "more", "rest", "closing", "done", "failed", "cancelled"}
Tab   == [sql : Named, loading : BOOLEAN, offset : Nat, cursor : BOOLEAN,
          pages : Seq(Page), shown : Page]
Walk  == [pc : Pcs, tab : Tabs \cup {NoTab}, conn : Conns, sql : Named, rows : Seq(Row),
          open : BOOLEAN, end : Pcs, aborted : BOOLEAN, res : Page, skipped : Nat]
OfTab  == {"run", "page"}
OfWalk == {"first", "more", "rest", "closed"}
Requests ==
  [m : {"run", "next", "cursorClose"}, for : OfTab \cup OfWalk, who : Tabs \cup Walkers,
   conn : Conns, sql : Named, index : Nat, limit : Nat, offset : Nat, keep : BOOLEAN]

(* A request on its way: what it runs, and on whose behalf.  A walk that has *)
(* begun reads a statement that may be run again, and never forgets where   *)
(* it goes once its cursor is closed.                                       *)
Sound ==
  {r \in Requests :
     /\ r.m = "run" => r.sql \in Sqls /\ (r.for = "run" \/ r.sql \in Reads)
     /\ r.for \in OfTab => r.who \in Tabs
     /\ r.for \in OfWalk =>
          r.who \in Walkers /\ walk[r.who].pc \notin {"idle", "asking"} /\ walk[r.who].sql \in Reads
     /\ r.for = "closed" => Ended(walk[r.who].end)}

(* The cursor of a connection, if it has one, is over an executed statement. *)
Cursors == {NoCursor} \cup [exec : DOMAIN execs, pos : Nat]

Types ==
  /\ tab \in [Tabs -> Tab] /\ walk \in [Walkers -> Walk]
  /\ queue \in Seq(Sound) /\ cur \in [Conns -> Cursors]
  /\ execs \in Seq(Sqls) /\ asked \in [Sqls -> Nat]
  /\ \A w \in Walkers : walk[w].pc = "asking" => walk[w].tab \in Tabs

(* What was executed and what is still to be is at most what was asked for.  *)
RunsOf(s) == {r \in Requests : r.m = "run" /\ r.sql = s}
Accounted ==
  \A s \in Sqls \ Reads : Count(execs, {s}) + Count(queue, RunsOf(s)) <= asked[s]

IInv == Types /\ Accounted
----------------------------------------------------------------------------
(* Rows and pages.                                                          *)

LEMMA LeastIsLeast == \A a, b \in Nat : Least(a, b) \in Nat /\ Least(a, b) <= a
  BY DEF Least

LEMMA LeftIsNat == ASSUME ConstantsAssumption, NEW s \in Sqls, NEW pos \in Nat
                   PROVE  Left(s, pos) \in Nat
  BY DEF Left, ConstantsAssumption

LEMMA PageFromType ==
  ASSUME NEW e \in Nat, NEW s, NEW pos \in Nat, NEW n \in Nat,
         NEW more \in BOOLEAN, NEW open \in BOOLEAN
  PROVE  /\ PageFrom(e, s, pos, n, more, open) \in Page
         /\ Len(PageFrom(e, s, pos, n, more, open).rows) = n
  <1> DEFINE rows == [k \in 1..n |-> [exec |-> e, n |-> pos + k]]
  <1>1. rows \in Seq(Row) /\ Len(rows) = n
    BY DEF Row
  <1> QED BY <1>1 DEF PageFrom, Page

LEMMA PagesType ==
  ASSUME ConstantsAssumption, NEW e \in Nat, NEW s \in Sqls, NEW pos \in Nat, NEW limit \in Nat
  PROVE  CursorPage(e, s, pos, limit) \in Page /\ OffsetPage(e, s, pos, limit) \in Page
  <1> DEFINE n == Least(limit, Left(s, pos))
  <1>1. Left(s, pos) \in Nat /\ n \in Nat
    BY LeftIsNat, LeastIsLeast
  <1>2. (n = limit) \in BOOLEAN /\ (Left(s, pos) > limit) \in BOOLEAN /\ FALSE \in BOOLEAN
    OBVIOUS
  <1> HIDE DEF n
  <1>3. /\ PageFrom(e, s, pos, n, n = limit, n = limit) \in Page
        /\ PageFrom(e, s, pos, n, Left(s, pos) > limit, FALSE) \in Page
    BY <1>1, <1>2, PageFromType
  <1> QED BY <1>3 DEF CursorPage, OffsetPage, n

LEMMA NoPageType == NoPage \in Page
  BY DEF NoPage, Page

(* The page a request is answered with is a page, and what becomes of the    *)
(* cursor of its connection is a cursor.                                    *)
LEMMA Served ==
  ASSUME ConstantsAssumption, Types, NEW r \in Sound, NEW ok \in BOOLEAN, Serve(r, ok)
  PROVE  /\ PageOf(r, ok) \in Page
         /\ cur' \in [Conns -> Cursors'] /\ execs' \in Seq(Sqls)
         /\ IF r.m = "run" THEN r.sql \in Sqls /\ execs' = Append(execs, r.sql)
                           ELSE UNCHANGED execs
  <1> DEFINE e == Len(execs) + 1
             c == cur[r.conn]
  <1>1. /\ r.conn \in Conns /\ r.limit \in Nat /\ r.offset \in Nat /\ r.keep \in BOOLEAN
        /\ r.m = "run" => r.sql \in Sqls
    BY DEF Sound, Requests
  <1>2. Len(execs) \in Nat /\ DOMAIN execs = 1..Len(execs) /\ e \in Nat
    BY LenProperties DEF Types
  <1>3. c = NoCursor \/ (c.exec \in DOMAIN execs /\ c.pos \in Nat /\ execs[c.exec] \in Sqls)
    BY <1>1, <1>2, ElementOfSeq DEF Types, Cursors
  <1>4. ASSUME NEW page \in Page, NEW d \in Nat, NEW x \in Nat \ {0}, NEW pos \in Nat,
               x <= d
        PROVE  Kept(page, x, pos) \in {NoCursor} \cup [exec : 1..d, pos : Nat]
    <2>1. Len(page.rows) \in Nat
      BY LenProperties DEF Page
    <2>2. x \in 1..d /\ pos + Len(page.rows) \in Nat
      BY <1>4, <2>1
    <2> QED BY <2>2 DEF Kept
  <1>5. CASE r.m = "run"
    <2>1. /\ execs' = Append(execs, r.sql) /\ (ok \/ CanFail)
          /\ cur' = IF r.keep THEN [cur EXCEPT ![r.conn] = Kept(PageOf(r, ok), e, 0)] ELSE cur
      BY <1>5 DEF Serve, ServeRun
    <2>2. execs' \in Seq(Sqls) /\ Len(execs') = e /\ DOMAIN execs' = 1..e
      BY <2>1, <1>1, <1>2, <1>5, AppendProperties, LenProperties DEF Types
    <2>3. PageOf(r, ok) \in Page
      <3>1. CursorPage(e, r.sql, 0, r.limit) \in Page
        BY <1>1, <1>2, <1>5, PagesType
      <3>2. OffsetPage(e, r.sql, r.offset, r.limit) \in Page
        BY <1>1, <1>2, <1>5, PagesType
      <3> QED BY <3>1, <3>2, <1>1, <1>5, NoPageType DEF PageOf
    <2>4. Kept(PageOf(r, ok), e, 0) \in Cursors'
      BY <2>2, <2>3, <1>2, <1>4 DEF Cursors
    <2>5. Cursors \subseteq Cursors'
      BY <1>2, <2>2 DEF Cursors
    <2> QED BY <2>1, <2>2, <2>3, <2>4, <2>5, <1>1, <1>5 DEF Types
  <1>6. CASE r.m = "next"
    <2>1. /\ ok => c # NoCursor
          /\ cur' = [cur EXCEPT ![r.conn] = Kept(PageOf(r, ok), c.exec, c.pos)]
          /\ UNCHANGED execs
      BY <1>6 DEF Serve, ServeNext
    <2>2. CASE ok
      <3>1. PageOf(r, ok) = CursorPage(c.exec, execs[c.exec], c.pos, r.limit)
        BY <1>6, <2>2 DEF PageOf
      <3>2. PageOf(r, ok) \in Page
        <4>1. c.exec \in Nat /\ c.pos \in Nat /\ execs[c.exec] \in Sqls
          BY <2>1, <2>2, <1>2, <1>3
        <4> QED BY <3>1, <4>1, <1>1, <1>6, PagesType
      <3>3. Kept(PageOf(r, ok), c.exec, c.pos) \in Cursors
        <4>1. c.exec \in Nat \ {0} /\ c.pos \in Nat /\ c.exec <= Len(execs)
          BY <2>1, <2>2, <1>2, <1>3
        <4> QED BY <3>2, <4>1, <1>2, <1>4 DEF Cursors
      <3> QED BY <3>2, <3>3, <2>1, <1>6 DEF Types, Cursors
    <2>3. CASE ~ok
      <3>1. PageOf(r, ok) = NoPage
        BY <2>3, <1>6 DEF PageOf
      <3>2. Kept(NoPage, c.exec, c.pos) = NoCursor
        BY DEF Kept, NoPage
      <3> QED BY <3>1, <3>2, <2>1, <1>6, NoPageType DEF Types, Cursors
    <2> QED BY <2>2, <2>3
  <1>7. CASE r.m = "cursorClose"
    <2>1. cur' = [cur EXCEPT ![r.conn] = NoCursor] /\ UNCHANGED execs /\ PageOf(r, ok) = NoPage
      BY <1>7 DEF Serve, ServeClose, PageOf
    <2> QED BY <2>1, <1>7, NoPageType DEF Types, Cursors
  <1> QED BY <1>5, <1>6, <1>7 DEF Serve

----------------------------------------------------------------------------
(* The rows of the pages a tab keeps, put together.                         *)
IsFlat(f, s, n) ==
  f = [i \in 1..n |-> IF i = 1 THEN s[i] ELSE f[i - 1] \o s[i]]

LEMMA FlatExists ==
  ASSUME NEW s PROVE \A n \in Nat : \E f : IsFlat(f, s, n)
  <1> DEFINE P == {n \in Nat : \E f : IsFlat(f, s, n)}
  <1>1. 0 \in P
    <2>1. IsFlat([i \in 1..0 |-> <<>>], s, 0)
      BY DEF IsFlat
    <2> QED BY <2>1
  <1>2. ASSUME NEW n \in Nat, n \in P PROVE n + 1 \in P
    <2>1. PICK f : IsFlat(f, s, n)
      BY <1>2
    <2> DEFINE last == IF n = 0 THEN s[1] ELSE f[n] \o s[n + 1]
               g == [i \in 1..(n + 1) |-> IF i = n + 1 THEN last ELSE f[i]]
               h == [i \in 1..(n + 1) |-> IF i = 1 THEN s[i] ELSE g[i - 1] \o s[i]]
    <2>2. ASSUME NEW i \in 1..(n + 1) PROVE g[i] = h[i]
      <3>1. CASE i = n + 1
        BY <3>1
      <3>2. CASE i \in 1..n
        <4>1. f[i] = IF i = 1 THEN s[i] ELSE f[i - 1] \o s[i]
          BY <2>1, <3>2 DEF IsFlat
        <4>2. g[i] = f[i] /\ (i # 1 => g[i - 1] = f[i - 1])
          BY <3>2
        <4> QED BY <4>1, <4>2
      <3> QED BY <3>1, <3>2
    <2>3. g = h
      BY <2>2
    <2>4. IsFlat(g, s, n + 1)
      BY <2>3 DEF IsFlat
    <2> QED BY <2>4
  <1> HIDE DEF P
  <1>3. \A n \in Nat : n \in P
    BY <1>1, <1>2, InductionOnSets
  <1> QED BY <1>3 DEF P

LEMMA FlatStep ==
  ASSUME NEW f, NEW s, NEW n \in Nat, IsFlat(f, s, n), NEW i \in 1..n
  PROVE  f[i] = IF i = 1 THEN s[i] ELSE f[i - 1] \o s[i]
  BY DEF IsFlat

LEMMA FlattenType ==
  ASSUME NEW S, NEW s \in Seq(Seq(S))
  PROVE  FlattenSeq(s) \in Seq(S)
  <1> DEFINE f == CHOOSE g : IsFlat(g, s, Len(s))
             P == {n \in Nat : n \in 1..Len(s) => f[n] \in Seq(S)}
  <1>1. Len(s) \in Nat /\ DOMAIN s = 1..Len(s) /\ \A k \in 1..Len(s) : s[k] \in Seq(S)
    BY LenProperties
  <1>2. IsFlat(f, s, Len(s))
    BY <1>1, FlatExists
  <1>3. FlattenSeq(s) = IF Len(s) = 0 THEN s ELSE f[Len(s)]
    BY DEF FlattenSeq, IsFlat
  <1> HIDE DEF f
  <1>4. 0 \in P
    BY <1>1
  <1>5. ASSUME NEW n \in Nat, n \in P PROVE n + 1 \in P
    <2> SUFFICES ASSUME n + 1 \in 1..Len(s) PROVE f[n + 1] \in Seq(S)
      OBVIOUS
    <2>1. f[n + 1] = IF n + 1 = 1 THEN s[n + 1] ELSE f[(n + 1) - 1] \o s[n + 1]
      BY <1>1, <1>2, FlatStep
    <2>2. s[n + 1] \in Seq(S)
      BY <1>1
    <2>3. CASE n = 0
      BY <2>1, <2>2, <2>3
    <2>4. CASE n # 0
      <3>1. f[n] \in Seq(S)
        BY <1>1, <1>5, <2>4
      <3> QED BY <2>1, <2>2, <2>4, <3>1, ConcatProperties
    <2> QED BY <2>3, <2>4
  <1> HIDE DEF P
  <1>6. \A n \in Nat : n \in P
    BY <1>4, <1>5, InductionOnSets
  <1>7. CASE Len(s) = 0
    BY <1>3, <1>7, EmptySeq
  <1>8. CASE Len(s) # 0
    BY <1>1, <1>3, <1>6, <1>8 DEF P
  <1> QED BY <1>7, <1>8

LEMMA HeldRowsType ==
  ASSUME NEW pages \in Seq(Page)
  PROVE  HeldRows(pages) \in Seq(Row)
  <1>1. DOMAIN pages = 1..Len(pages) /\ Len(pages) \in Nat
        /\ \A k \in 1..Len(pages) : pages[k] \in Page
    BY LenProperties
  <1>2. [k \in DOMAIN pages |-> pages[k].rows] \in Seq(Seq(Row))
    <2>1. \A k \in 1..Len(pages) : pages[k].rows \in Seq(Row)
      BY <1>1 DEF Page
    <2> QED BY <1>1, <2>1
  <1> QED BY <1>2, FlattenType DEF HeldRows

----------------------------------------------------------------------------
(* The queue.                                                               *)

LEMMA TailSound ==
  ASSUME Types, queue # <<>>
  PROVE  Head(queue) \in Sound /\ Tail(queue) \in Seq(Sound)
  BY HeadTailProperties DEF Types

(* A walk that has begun keeps its statement and does not forget its end; one *)
(* that waits for a file is of a tab.                                        *)
Onward ==
  /\ \A w \in Walkers : walk'[w].pc = "asking" => walk'[w].tab \in Tabs
  /\ \A w \in Walkers : walk[w].pc \notin {"idle", "asking"} =>
       /\ walk'[w].pc \notin {"idle", "asking"} /\ walk'[w].sql = walk[w].sql
       /\ Ended(walk[w].end) => Ended(walk'[w].end)

LEMMA SoundOnward == ASSUME Onward PROVE Sound \subseteq Sound'
  BY DEF Sound, Requests, Onward, OfWalk, Ended

(* What a step leaves in the queue q, and one more request it may send: r is *)
(* one that the books allow.                                                *)
Allowed(r) == r \in Requests /\ r \in Sound' /\ (r.m = "run" => r.sql \in Reads)

Sends(q) == queue' = q \/ \E r \in Requests : Allowed(r) /\ queue' = Append(q, r)

LEMMA SendsSound ==
  ASSUME Onward, NEW q \in Seq(Sound), Sends(q)
  PROVE  queue' \in Seq(Sound')
  <1>1. q \in Seq(Sound')
    BY SoundOnward, SeqMonotonic
  <1> QED BY <1>1, AppendProperties DEF Sends, Allowed

LEMMA SendsBooks ==
  ASSUME NEW q \in Seq(Sound), Sends(q), UNCHANGED asked,
         \A s \in Sqls \ Reads : Count(execs', {s}) + Count(q, RunsOf(s)) <= asked[s]
  PROVE  Accounted'
  <1> SUFFICES ASSUME NEW s \in Sqls \ Reads
               PROVE  Count(execs', {s}) + Count(queue', RunsOf(s)) <= asked[s]
    BY DEF Accounted, RunsOf, Requests
  <1>1. q \in Seq(Requests)
    BY SeqMonotonic DEF Sound
  <1>2. ASSUME NEW r \in Requests, Allowed(r), queue' = Append(q, r)
        PROVE  Count(queue', RunsOf(s)) = Count(q, RunsOf(s))
    <2>1. r \notin RunsOf(s)
      BY <1>2 DEF RunsOf, Allowed
    <2> QED BY <1>1, <1>2, <2>1, CountAppend, PlacesFinite
  <1> QED BY <1>2 DEF Sends

(* An answer takes its request from the queue to the executed statements.    *)
LEMMA AnswerBooks ==
  ASSUME ConstantsAssumption, Types, Accounted, queue # <<>>, NEW ok \in BOOLEAN,
         Serve(Head(queue), ok), NEW s \in Sqls \ Reads
  PROVE  Count(execs', {s}) + Count(Tail(queue), RunsOf(s)) <= asked[s]
  <1> DEFINE r == Head(queue)
  <1>1. r \in Sound
    BY TailSound
  <1>2. /\ Count(queue, RunsOf(s)) = Count(Tail(queue), RunsOf(s)) + (IF r \in RunsOf(s) THEN 1 ELSE 0)
        /\ Count(Tail(queue), RunsOf(s)) \in Nat /\ Count(execs, {s}) \in Nat
    BY CountTail, PlacesFinite, TailSound DEF Types
  <1>3. Count(execs', {s}) = Count(execs, {s}) + (IF r \in RunsOf(s) THEN 1 ELSE 0)
    <2>1. r \in RunsOf(s) <=> r.m = "run" /\ r.sql = s
      BY <1>1 DEF RunsOf, Sound
    <2>2. IF r.m = "run" THEN r.sql \in Sqls /\ execs' = Append(execs, r.sql) ELSE UNCHANGED execs
      BY <1>1, Served
    <2>3. execs \in Seq(Sqls)
      BY DEF Types
    <2>4. CASE r.m = "run"
      <3> HIDE DEF r
      <3>1. Count(Append(execs, r.sql), {s}) = Count(execs, {s}) + (IF r.sql \in {s} THEN 1 ELSE 0)
        BY <2>2, <2>3, <2>4, CountAppend
      <3> QED BY <2>1, <2>2, <2>4, <3>1
    <2>5. CASE r.m # "run"
      BY <2>1, <2>2, <2>5, <1>2
    <2> QED BY <2>4, <2>5
  <1>4. asked[s] \in Nat /\ Count(execs, {s}) + Count(queue, RunsOf(s)) <= asked[s]
    BY DEF Accounted, Types
  <1> QED BY <1>2, <1>3, <1>4

----------------------------------------------------------------------------
(* The requests of this module are well formed.                             *)

LEMMA RequestType ==
  ASSUME ConstantsAssumption, NEW conn \in Conns, NEW s \in Sqls, NEW index \in Nat,
         NEW limit \in Nat, NEW offset \in Nat, NEW keep \in BOOLEAN
  PROVE  /\ \A t \in Tabs : RunQuery("run", t, conn, s, index, limit, offset, keep) \in Requests
         /\ \A w \in Walkers :
              /\ RunQuery("first", w, conn, s, index, limit, offset, keep) \in Requests
              /\ RunQuery("more", w, conn, s, index, limit, offset, keep) \in Requests
         /\ \A t \in Tabs : QueryNext("page", t, conn, index, limit) \in Requests
         /\ \A w \in Walkers :
              /\ QueryNext("rest", w, conn, index, limit) \in Requests
              /\ QueryNext("more", w, conn, index, limit) \in Requests
              /\ CloseCursor(w, conn) \in Requests
  BY DEF RunQuery, QueryNext, CloseCursor, Request, Requests, OfTab, OfWalk, Named

LEMMA Sizes ==
  ASSUME ConstantsAssumption
  PROVE  /\ PageSize \in Nat /\ ExportPage \in Nat /\ Reads \subseteq Sqls
         /\ \A t \in Tabs : ConnOf[t] \in Conns
         /\ \A w \in Walkers : WalkConn[w] \in Conns
         /\ \A i \in Nat : i * PageSize \in Nat
  BY DEF ConstantsAssumption

LEMMA RerunAllowed ==
  ASSUME ConstantsAssumption, NEW t \in Tabs, NEW s \in Reads, NEW index \in Nat
  PROVE  Allowed(Rerun(t, s, index))
  <1>1. Rerun(t, s, index) \in Requests
    BY Sizes, RequestType DEF Rerun
  <1>2. Rerun(t, s, index) \in Sound'
    BY <1>1, Sizes DEF Sound, Requests, Rerun, RunQuery, Request, OfTab, OfWalk
  <1> QED BY <1>1, <1>2 DEF Allowed, Rerun, RunQuery, Request

LEMMA NextPageAllowed ==
  ASSUME ConstantsAssumption, NEW t \in Tabs, NEW index \in Nat
  PROVE  Allowed(QueryNext("page", t, ConnOf[t], index, PageSize))
  <1> DEFINE r == QueryNext("page", t, ConnOf[t], index, PageSize)
  <1>1. r \in Requests
    <2>1. PICK c \in Conns : c = ConnOf[t]
      BY Sizes
    <2> QED BY <2>1, Sizes DEF RunQuery, QueryNext, Request, Requests, OfTab, OfWalk, Named
  <1>2. r \in Sound'
    BY <1>1 DEF Sound, Requests, QueryNext, Request, OfTab, OfWalk
  <1> QED BY <1>1, <1>2 DEF Allowed, QueryNext, Request

(* A request of a walk that has begun and may run its statement again.       *)
LEMMA WalkAllowed ==
  ASSUME ConstantsAssumption, NEW r \in Requests, r.for \in OfWalk, r.who \in Walkers,
         walk'[r.who].pc \notin {"idle", "asking"}, walk'[r.who].sql \in Reads,
         r.m = "run" => r.sql \in Reads,
         r.for = "closed" => Ended(walk'[r.who].end)
  PROVE  Allowed(r)
  BY Sizes DEF Allowed, Sound, OfTab, OfWalk, Ended

----------------------------------------------------------------------------
(* The user.                                                                *)

LEMMA UserStep ==
  ASSUME ConstantsAssumption, IInv, UNCHANGED <<cur, execs, asked>>, Sends(queue), Onward,
         tab' \in [Tabs -> Tab], walk' \in [Walkers -> Walk]
  PROVE  IInv'
  <1>1. queue' \in Seq(Sound')
    BY SendsSound DEF IInv, Types
  <1>2. Types'
    BY <1>1 DEF IInv, Types, Cursors, Onward
  <1>3. Accounted'
    BY SendsBooks DEF IInv, Types, Accounted
  <1> QED BY <1>2, <1>3 DEF IInv

LEMMA LoadingType ==
  ASSUME NEW t \in Tabs, tab[t] \in Tab,
         tab' = [tab EXCEPT ![t].loading = TRUE, ![t].shown = NoPage]
  PROVE  \E T \in Tab : tab' = [tab EXCEPT ![t] = T]
  <1> DEFINE T == [tab[t] EXCEPT !.loading = TRUE, !.shown = NoPage]
  <1>1. T \in Tab
    BY NoPageType DEF Tab
  <1>2. tab' = [tab EXCEPT ![t] = T]
    OBVIOUS
  <1> QED BY <1>1, <1>2

LEMMA RunStep ==
  ASSUME ConstantsAssumption, IInv, NEW t \in Tabs, NEW s \in Sqls, Run(t, s) PROVE IInv'
  <1> DEFINE r == RunQuery("run", t, ConnOf[t], s, 0, PageSize, 0, TRUE)
  <1>1. /\ tab' = [tab EXCEPT ![t].loading = TRUE, ![t].shown = NoPage]
        /\ queue' = Append(queue, r) /\ asked' = [asked EXCEPT ![s] = @ + 1]
        /\ UNCHANGED <<walk, cur, execs>>
    BY DEF Run
  <1>2. r \in Requests
    BY Sizes, RequestType
  <1>3. Types'
    <2>1. queue' \in Seq(Sound')
      <3>1. Onward
        BY <1>1 DEF Onward, IInv, Types
      <3>2. queue \in Seq(Sound')
        BY <3>1, SoundOnward, SeqMonotonic DEF IInv, Types
      <3>3. r \in Sound'
        BY <1>2 DEF Sound, RunQuery, Request, OfTab, OfWalk
      <3> QED BY <1>1, <3>2, <3>3, AppendProperties
    <2>2. tab' \in [Tabs -> Tab]
      <3>1. \E T \in Tab : tab' = [tab EXCEPT ![t] = T]
        BY <1>1, LoadingType DEF IInv, Types
      <3> QED BY <3>1 DEF IInv, Types
    <2>3. asked' \in [Sqls -> Nat]
      BY <1>1 DEF IInv, Types
    <2> QED BY <1>1, <2>1, <2>2, <2>3 DEF IInv, Types, Cursors
  <1>4. Accounted'
    <2> SUFFICES ASSUME NEW x \in Sqls \ Reads
                 PROVE  Count(execs', {x}) + Count(queue', RunsOf(x)) <= asked'[x]
      BY DEF Accounted, RunsOf, Requests
    <2>1. queue \in Seq(Requests)
      BY SeqMonotonic DEF IInv, Types, Sound
    <2>2. Count(queue', RunsOf(x)) = Count(queue, RunsOf(x)) + (IF r \in RunsOf(x) THEN 1 ELSE 0)
      <3> HIDE DEF r
      <3> QED BY <1>1, <1>2, <2>1, CountAppend
    <2>3. r \in RunsOf(x) => x = s
      BY DEF RunsOf, RunQuery, Request
    <2>4. Count(queue, RunsOf(x)) \in Nat /\ Count(execs, {x}) \in Nat /\ asked[x] \in Nat
      BY <2>1, PlacesFinite DEF IInv, Types
    <2>5. asked'[x] = IF x = s THEN asked[x] + 1 ELSE asked[x]
      BY <1>1 DEF IInv, Types
    <2> HIDE DEF r
    <2> QED BY <1>1, <2>2, <2>3, <2>4, <2>5 DEF IInv, Accounted
  <1> QED BY <1>3, <1>4 DEF IInv

LEMMA ShownType ==
  ASSUME Types, NEW t \in Tabs, NEW k \in DOMAIN tab[t].pages
  PROVE  tab[t].pages[k] \in Page
  <1>1. tab[t].pages \in Seq(Page)
    BY DEF Types, Tab
  <1> QED BY <1>1, LenProperties, ElementOfSeq

LEMMA PageTurnStep ==
  ASSUME ConstantsAssumption, IInv, NEW t \in Tabs, NEW delta \in {-1, 1}, PageTurn(t, delta)
  PROVE  IInv'
  <1> DEFINE index == tab[t].offset + delta
  <1>1. tab[t] \in Tab /\ tab[t].offset \in Nat /\ index \in Int
    BY DEF IInv, Types, Tab
  <1>2. index \in Nat /\ UNCHANGED <<walk, cur, execs, asked>>
    BY <1>1 DEF PageTurn, Pager
  <1>3. Onward
    BY <1>2 DEF Onward, IInv, Types
  <1>4. (\E T \in Tab : tab' = [tab EXCEPT ![t] = T]) /\ Sends(queue)
    <2>1. CASE Held(t, index) /\ UNCHANGED queue
               /\ tab' = [tab EXCEPT ![t].shown = tab[t].pages[index + 1], ![t].offset = index]
      <3> DEFINE T == [tab[t] EXCEPT !.shown = tab[t].pages[index + 1], !.offset = index]
      <3>1. tab[t].pages[index + 1] \in Page
        BY <2>1, ShownType DEF Held, IInv
      <3>2. T \in Tab
        BY <3>1, <1>1, <1>2 DEF Tab
      <3>3. tab' = [tab EXCEPT ![t] = T]
        BY <2>1 DEF IInv, Types
      <3> QED BY <2>1, <3>2, <3>3 DEF Sends
    <2>2. CASE /\ tab' = [tab EXCEPT ![t].loading = TRUE]
               /\ queue' = Append(queue, QueryNext("page", t, ConnOf[t], index, PageSize))
      <3> DEFINE T == [tab[t] EXCEPT !.loading = TRUE]
      <3>1. Allowed(QueryNext("page", t, ConnOf[t], index, PageSize))
        BY <1>2, NextPageAllowed
      <3>2. T \in Tab /\ tab' = [tab EXCEPT ![t] = T]
        BY <2>2, <1>1 DEF Tab
      <3> QED BY <2>2, <3>1, <3>2 DEF Sends, Allowed
    <2>3. CASE /\ Rerunnable(tab[t].sql)
               /\ tab' = [tab EXCEPT ![t].loading = TRUE, ![t].shown = NoPage]
               /\ queue' = Append(queue, Rerun(t, tab[t].sql, index))
      <3>1. Allowed(Rerun(t, tab[t].sql, index))
        BY <2>3, <1>2, RerunAllowed DEF Rerunnable
      <3>2. \E T \in Tab : tab' = [tab EXCEPT ![t] = T]
        BY <2>3, <1>1, LoadingType
      <3> QED BY <2>3, <3>1, <3>2 DEF Sends, Allowed
    <2> QED BY <2>1, <2>2, <2>3 DEF PageTurn
  <1>5. tab' \in [Tabs -> Tab]
    BY <1>4 DEF IInv, Types
  <1> QED BY <1>2, <1>3, <1>4, <1>5, UserStep DEF IInv, Types

LEMMA RefreshStep ==
  ASSUME ConstantsAssumption, IInv, NEW t \in Tabs, Refresh(t) PROVE IInv'
  <1>1. tab[t].offset \in Nat /\ tab[t].sql \in Reads /\ tab[t] \in Tab
    BY DEF IInv, Types, Tab, Refresh, Rerunnable
  <1>2. Allowed(Rerun(t, tab[t].sql, tab[t].offset))
    BY <1>1, RerunAllowed
  <1>3. Sends(queue)
    BY <1>2 DEF Refresh, Sends, Allowed
  <1>4. UNCHANGED <<walk, cur, execs, asked>> /\ Onward
    BY DEF Refresh, Onward, IInv, Types
  <1>5. \E T \in Tab : tab' = [tab EXCEPT ![t] = T]
    BY <1>1, LoadingType DEF Refresh
  <1>6. tab' \in [Tabs -> Tab] /\ walk' \in [Walkers -> Walk]
    BY <1>4, <1>5 DEF IInv, Types
  <1> QED BY <1>3, <1>4, <1>6, UserStep

LEMMA CancelStep ==
  ASSUME ConstantsAssumption, IInv, NEW w \in Walkers, Cancel(w) PROVE IInv'
  <1> DEFINE W == [walk[w] EXCEPT !.aborted = TRUE]
  <1>1. W \in Walk /\ W.pc = walk[w].pc /\ W.sql = walk[w].sql /\ W.end = walk[w].end
        /\ W.tab = walk[w].tab
    <2>1. walk[w] \in Walk
      BY DEF IInv, Types
    <2> QED BY <2>1 DEF Walk
  <1>2. walk' = [walk EXCEPT ![w] = W] /\ UNCHANGED <<tab, queue, cur, execs, asked>>
    BY DEF Cancel
  <1> HIDE DEF W
  <1>3. walk' \in [Walkers -> Walk] /\ Onward
    BY <1>1, <1>2 DEF IInv, Types, Onward
  <1> QED BY <1>2, <1>3, UserStep DEF IInv, Types, Sends

----------------------------------------------------------------------------
(* The walks: how they begin.                                               *)

LEMMA IdleType == ASSUME NEW c \in Conns PROVE Idle \in Walk /\ Idle.end = "idle"
  <1>1. (CHOOSE x \in Conns : TRUE) \in Conns
    OBVIOUS
  <1>2. <<>> \in Seq(Row)
    BY EmptySeq
  <1> QED BY <1>1, <1>2, NoPageType DEF Idle, Walk, Pcs, Named

(* What the other walks do when one begins: an export is stopped, no more.   *)
LEMMA AbortingType ==
  ASSUME Types, NEW w \in Walkers
  PROVE  /\ Aborting(w) \in [Walkers -> Walk]
         /\ \A v \in Walkers : /\ Aborting(w)[v].pc = walk[v].pc
                              /\ Aborting(w)[v].sql = walk[v].sql
                              /\ Aborting(w)[v].end = walk[v].end
                              /\ Aborting(w)[v].tab = walk[v].tab
  <1>1. ASSUME NEW v \in Walkers
        PROVE  /\ Aborting(w)[v] \in Walk /\ Aborting(w)[v].pc = walk[v].pc
               /\ Aborting(w)[v].sql = walk[v].sql /\ Aborting(w)[v].end = walk[v].end
               /\ Aborting(w)[v].tab = walk[v].tab
    <2> DEFINE W == [walk[v] EXCEPT !.aborted = TRUE]
    <2>1. walk[v] \in Walk
      BY DEF Types
    <2>2. W \in Walk /\ W.pc = walk[v].pc /\ W.sql = walk[v].sql /\ W.end = walk[v].end
          /\ W.tab = walk[v].tab
      BY <2>1 DEF Walk
    <2>3. Aborting(w)[v] \in {W, walk[v]}
      BY DEF Aborting
    <2> HIDE DEF W
    <2> QED BY <2>1, <2>2, <2>3
  <1>2. Aborting(w) = [v \in Walkers |-> Aborting(w)[v]]
    BY DEF Aborting
  <1> QED BY <1>1, <1>2

LEMMA WalkBegins ==
  ASSUME Types, NEW w \in Walkers, walk[w].pc \in {"idle", "asking"}, NEW W \in Walk,
         W.pc = "asking" => W.tab \in Tabs,
         walk' = [walk EXCEPT ![w] = W] \/ walk' = [Aborting(w) EXCEPT ![w] = W]
  PROVE  walk' \in [Walkers -> Walk] /\ walk'[w] = W /\ Onward
  <1>1. PICK ws : /\ ws = walk \/ ws = Aborting(w)
                  /\ walk' = [ws EXCEPT ![w] = W]
    OBVIOUS
  <1>2. /\ ws \in [Walkers -> Walk]
        /\ \A v \in Walkers : /\ ws[v].pc = walk[v].pc /\ ws[v].sql = walk[v].sql
                             /\ ws[v].end = walk[v].end /\ ws[v].tab = walk[v].tab
    BY <1>1, AbortingType DEF Types
  <1>3. walk' \in [Walkers -> Walk] /\ walk'[w] = W
        /\ \A v \in Walkers \ {w} : walk'[v] = ws[v]
    BY <1>1, <1>2
  <1> QED BY <1>2, <1>3 DEF Onward, Types

(* The requests of a walk that has begun and may run its statement again.    *)
LEMMA WalkRequests ==
  ASSUME ConstantsAssumption, NEW w \in Walkers, NEW conn \in Conns, NEW s \in Reads,
         walk'[w].pc \notin {"idle", "asking"}, walk'[w].sql = s
  PROVE  /\ Allowed(FirstPage(w, conn, s))
         /\ Allowed(QueryNext("rest", w, conn, 0, ExportPage))
         /\ Allowed(QueryNext("more", w, conn, 0, ExportPage))
         /\ \A n \in Nat : Allowed(RunQuery("more", w, conn, s, 0, ExportPage, n, FALSE))
         /\ Ended(walk'[w].end) => Allowed(CloseCursor(w, conn))
  <1>1. s \in Sqls /\ ExportPage \in Nat
    BY Sizes
  <1>2. ASSUME NEW r \in Requests, r.who = w, r.for \in OfWalk,
               r.m = "run" => r.sql = s, r.for = "closed" => Ended(walk'[w].end)
        PROVE  Allowed(r)
    BY <1>2, WalkAllowed
  <1>3. Allowed(FirstPage(w, conn, s))
    <2> DEFINE r == RunQuery("first", w, conn, s, 0, ExportPage, 0, TRUE)
    <2>1. r \in Requests
      BY <1>1, RequestType
    <2>2. r.who = w /\ r.for = "first" /\ r.sql = s
      BY DEF RunQuery, Request
    <2> HIDE DEF r
    <2>3. Allowed(r)
      BY <1>2, <2>1, <2>2 DEF OfWalk
    <2> QED BY <2>3 DEF FirstPage, r
  <1>4. ASSUME NEW for \in {"rest", "more"}
        PROVE  Allowed(QueryNext(for, w, conn, 0, ExportPage))
    <2> DEFINE r == QueryNext(for, w, conn, 0, ExportPage)
    <2>1. r \in Requests
      BY <1>1, RequestType
    <2>2. r.who = w /\ r.for = for /\ r.m = "next"
      BY DEF QueryNext, Request
    <2> HIDE DEF r
    <2>3. Allowed(r)
      BY <1>2, <2>1, <2>2 DEF OfWalk
    <2> QED BY <2>3 DEF r
  <1>5. ASSUME NEW n \in Nat
        PROVE  Allowed(RunQuery("more", w, conn, s, 0, ExportPage, n, FALSE))
    <2> DEFINE r == RunQuery("more", w, conn, s, 0, ExportPage, n, FALSE)
    <2>1. r \in Requests
      BY <1>1, RequestType
    <2>2. r.who = w /\ r.for = "more" /\ r.sql = s
      BY DEF RunQuery, Request
    <2> HIDE DEF r
    <2>3. Allowed(r)
      BY <1>2, <2>1, <2>2 DEF OfWalk
    <2> QED BY <2>3 DEF r
  <1>6. ASSUME Ended(walk'[w].end) PROVE Allowed(CloseCursor(w, conn))
    <2> DEFINE r == CloseCursor(w, conn)
    <2>1. r \in Requests
      BY <1>1, RequestType
    <2>2. r.who = w /\ r.for = "closed" /\ r.m = "cursorClose"
      BY DEF CloseCursor, Request
    <2> HIDE DEF r
    <2>3. Allowed(r)
      BY <1>2, <1>6, <2>1, <2>2 DEF OfWalk
    <2> QED BY <2>3 DEF r
  <1> QED BY <1>3, <1>4, <1>5, <1>6

LEMMA BackupStep ==
  ASSUME ConstantsAssumption, IInv, NEW w \in Walkers, NEW s \in Sqls, Backup(w, s)
  PROVE  IInv'
  <1> DEFINE W == [Idle EXCEPT !.pc = "first", !.conn = WalkConn[w], !.sql = s]
  <1>1. /\ walk[w].pc = "idle" /\ s \in Reads
        /\ walk' = [walk EXCEPT ![w] = W] /\ queue' = Append(queue, FirstPage(w, WalkConn[w], s))
        /\ UNCHANGED <<tab, cur, execs, asked>>
    BY DEF Backup
  <1>2. WalkConn[w] \in Conns
    BY Sizes
  <1>3. W \in Walk /\ W.pc = "first" /\ W.sql = s
    <2>1. Idle \in Walk
      BY <1>2, IdleType
    <2> QED BY <2>1, <1>2 DEF Walk, Pcs, Named
  <1> HIDE DEF W
  <1>4. walk' \in [Walkers -> Walk] /\ walk'[w] = W /\ Onward
    BY <1>1, <1>3, WalkBegins DEF IInv
  <1>5. Allowed(FirstPage(w, WalkConn[w], s))
    BY <1>1, <1>2, <1>3, <1>4, WalkRequests
  <1>6. Sends(queue) /\ tab' \in [Tabs -> Tab]
    BY <1>1, <1>5 DEF Sends, Allowed, IInv, Types
  <1> QED BY <1>1, <1>4, <1>6, UserStep

LEMMA ExportStep ==
  ASSUME ConstantsAssumption, IInv, NEW w \in Walkers, NEW t \in Tabs, Export(w, t)
  PROVE  IInv'
  <1>1. PICK c \in Conns, T \in Tab : c = ConnOf[t] /\ T = tab[t]
    BY Sizes DEF IInv, Types
  <1>2. PICK n \in Nat : n = T.offset * PageSize
    BY Sizes DEF Tab
  <1>3. PICK W : W = [Idle EXCEPT !.pc = "asking", !.tab = t, !.conn = c, !.sql = T.sql,
                                  !.res = T.shown, !.skipped = n]
    OBVIOUS
  <1>4. /\ walk[w].pc = "idle" /\ walk' = [walk EXCEPT ![w] = W]
        /\ UNCHANGED <<tab, queue, cur, execs, asked>>
    BY <1>1, <1>2, <1>3 DEF Export
  <1>5. W \in Walk
    <2>1. Idle \in Walk /\ T.shown \in Page /\ T.sql \in Named
      BY IdleType DEF Tab
    <2> QED BY <1>3, <2>1 DEF Walk, Pcs
  <1>6. walk' \in [Walkers -> Walk] /\ Onward
    <2>1. W.tab = t
      BY <1>3 DEF Idle
    <2> QED BY <1>4, <1>5, <2>1, WalkBegins DEF IInv
  <1> QED BY <1>4, <1>6, UserStep DEF IInv, Types, Sends

LEMMA DismissedStep ==
  ASSUME ConstantsAssumption, IInv, NEW w \in Walkers, Dismissed(w) PROVE IInv'
  <1>1. PICK W : W = [Idle EXCEPT !.conn = walk[w].conn]
    OBVIOUS
  <1>2. W \in Walk /\ W.pc = "idle"
    <2>1. walk[w].conn \in Conns
      BY DEF IInv, Types, Walk
    <2>2. Idle \in Walk
      BY <2>1, IdleType
    <2> QED BY <1>1, <2>1, <2>2 DEF Walk, Idle
  <1>3. /\ walk[w].pc = "asking" /\ walk' = [walk EXCEPT ![w] = W]
        /\ UNCHANGED <<tab, queue, cur, execs, asked>>
    BY <1>1 DEF Dismissed
  <1>4. walk' \in [Walkers -> Walk] /\ Onward
    BY <1>2, <1>3, WalkBegins DEF IInv
  <1> QED BY <1>3, <1>4, UserStep DEF IInv, Types, Sends

(* The walk W once its file is picked: where it goes, and with which rows.   *)
WentOn(W, pc, rows, k) == [W EXCEPT !.pc = pc, !.rows = rows, !.res = NoPage, !.skipped = k]

(* The four ways of an export, from the tab T it reads.                      *)
MoreOf(W, T) ==
  Rerunnable(W.sql) /\ (W.res.truncated \/ (Contiguous(T.pages) /\ Len(T.pages) > 1))
Ways(w, W, T) ==
  LET last == T.pages[Len(T.pages)]  held == Contiguous(T.pages)
      Goes(pc, rows, k) == walk' = [Aborting(w) EXCEPT ![w] = WentOn(W, pc, rows, k)] IN
  \/ ~MoreOf(W, T) /\ Goes("done", W.res.rows, W.skipped) /\ UNCHANGED queue
  \/ /\ MoreOf(W, T) /\ held /\ ~last.truncated
     /\ Goes("done", HeldRows(T.pages), 0) /\ UNCHANGED queue
  \/ /\ MoreOf(W, T) /\ held /\ last.truncated /\ T.cursor
     /\ Goes("rest", HeldRows(T.pages), 0)
     /\ queue' = Append(queue, QueryNext("rest", w, W.conn, 0, ExportPage))
  \/ /\ MoreOf(W, T) /\ Goes("first", <<>>, 0)
     /\ queue' = Append(queue, FirstPage(w, W.conn, W.sql))

LEMMA PickedWays ==
  ASSUME NEW w, Picked(w), NEW W, W = walk[w], NEW T, T = tab[W.tab]
  PROVE  W.pc = "asking" /\ UNCHANGED <<tab, cur, execs, asked>> /\ Ways(w, W, T)
  <1>1. PICK more : more = MoreOf(W, T)
    OBVIOUS
  <1>2. CASE more
    BY <1>1, <1>2 DEF Picked, Ways, WentOn, MoreOf
  <1>3. CASE ~more
    BY <1>1, <1>3 DEF Picked, Ways, WentOn, MoreOf
  <1> QED BY <1>2, <1>3

LEMMA PicksType ==
  ASSUME NEW W \in Walk, NEW pc \in Pcs, NEW rows \in Seq(Row), NEW k \in Nat,
         NEW V, V = WentOn(W, pc, rows, k)
  PROVE  /\ V \in Walk /\ V.pc = pc /\ V.rows = rows /\ V.skipped = k
         /\ V.conn = W.conn /\ V.sql = W.sql /\ V.tab = W.tab /\ V.open = W.open
  BY NoPageType DEF WentOn, Walk

LEMMA PickedStep ==
  ASSUME ConstantsAssumption, IInv, NEW w \in Walkers, Picked(w)
  PROVE  IInv'
  <1>1. PICK W \in Walk : W = walk[w]
    BY DEF IInv, Types
  <1>2. PICK T \in Tab : T = tab[W.tab]
    BY <1>1 DEF Picked, IInv, Types
  <1>3. W.pc = "asking" /\ UNCHANGED <<tab, cur, execs, asked>> /\ Ways(w, W, T)
    BY <1>1, <1>2, PickedWays
  <1>4. /\ W.res.rows \in Seq(Row) /\ HeldRows(T.pages) \in Seq(Row) /\ <<>> \in Seq(Row)
        /\ W.skipped \in Nat /\ W.conn \in Conns
    <2>1. W.res \in Page /\ W.skipped \in Nat /\ T.pages \in Seq(Page) /\ W.conn \in Conns
      BY DEF Walk, Tab
    <2> QED BY <2>1, EmptySeq, HeldRowsType DEF Page
  <1>5. MoreOf(W, T) => W.sql \in Reads
    BY DEF MoreOf, Rerunnable
  <1>6. \E V \in Walk :
          /\ walk' = [Aborting(w) EXCEPT ![w] = V] /\ V.sql = W.sql /\ V.pc # "asking"
          /\ \/ UNCHANGED queue
             \/ /\ V.pc = "first" /\ W.sql \in Reads
                /\ queue' = Append(queue, FirstPage(w, W.conn, W.sql))
             \/ /\ V.pc = "rest" /\ W.sql \in Reads
                /\ queue' = Append(queue, QueryNext("rest", w, W.conn, 0, ExportPage))
    <2>1. ASSUME NEW pc \in Pcs, NEW rows \in Seq(Row), NEW k \in Nat
          PROVE  WentOn(W, pc, rows, k) \in Walk /\ WentOn(W, pc, rows, k).pc = pc
                 /\ WentOn(W, pc, rows, k).sql = W.sql
      BY PicksType
    <2>2. {"done", "rest", "first"} \subseteq Pcs /\ 0 \in Nat
      BY DEF Pcs
    <2>3. CASE walk' = [Aborting(w) EXCEPT ![w] = WentOn(W, "done", W.res.rows, W.skipped)]
               /\ UNCHANGED queue
      BY <1>4, <2>1, <2>2, <2>3
    <2>4. CASE walk' = [Aborting(w) EXCEPT ![w] = WentOn(W, "done", HeldRows(T.pages), 0)]
               /\ UNCHANGED queue
      BY <1>4, <2>1, <2>2, <2>4
    <2>5. CASE /\ MoreOf(W, T)
               /\ walk' = [Aborting(w) EXCEPT ![w] = WentOn(W, "rest", HeldRows(T.pages), 0)]
               /\ queue' = Append(queue, QueryNext("rest", w, W.conn, 0, ExportPage))
      <3>1. PICK V : V = WentOn(W, "rest", HeldRows(T.pages), 0)
        OBVIOUS
      <3>2. V \in Walk /\ V.pc = "rest" /\ V.sql = W.sql
        BY <1>4, <2>1, <2>2, <3>1
      <3> QED BY <1>5, <2>5, <3>1, <3>2
    <2>6. CASE /\ MoreOf(W, T)
               /\ walk' = [Aborting(w) EXCEPT ![w] = WentOn(W, "first", <<>>, 0)]
               /\ queue' = Append(queue, FirstPage(w, W.conn, W.sql))
      <3>1. PICK V, rows : rows = <<>> /\ V = WentOn(W, "first", rows, 0)
        OBVIOUS
      <3>2. rows \in Seq(Row) /\ V = WentOn(W, "first", rows, 0)
        BY <1>4, <3>1
      <3>3. V \in Walk /\ V.pc = "first" /\ V.sql = W.sql
        BY <2>1, <2>2, <3>2
      <3> QED BY <1>5, <2>6, <3>1, <3>3
    <2> QED BY <1>3, <2>3, <2>4, <2>5, <2>6 DEF Ways
  <1>7. PICK V \in Walk :
          /\ walk' = [Aborting(w) EXCEPT ![w] = V] /\ V.sql = W.sql /\ V.pc # "asking"
          /\ \/ UNCHANGED queue
             \/ /\ V.pc = "first" /\ W.sql \in Reads
                /\ queue' = Append(queue, FirstPage(w, W.conn, W.sql))
             \/ /\ V.pc = "rest" /\ W.sql \in Reads
                /\ queue' = Append(queue, QueryNext("rest", w, W.conn, 0, ExportPage))
    BY <1>6
  <1>8. walk' \in [Walkers -> Walk] /\ walk'[w] = V /\ Onward
    BY <1>1, <1>3, <1>7, WalkBegins DEF IInv
  <1>9. Sends(queue)
    <2>1. CASE UNCHANGED queue
      BY <2>1 DEF Sends
    <2>2. CASE V.pc \in {"first", "rest"} /\ W.sql \in Reads
      <3>1. /\ Allowed(FirstPage(w, W.conn, W.sql))
            /\ Allowed(QueryNext("rest", w, W.conn, 0, ExportPage))
        BY <2>2, <1>4, <1>7, <1>8, WalkRequests
      <3> QED BY <1>7, <2>2, <3>1 DEF Sends, Allowed
    <2> QED BY <2>1, <2>2, <1>7
  <1>10. tab' \in [Tabs -> Tab]
    BY <1>3 DEF IInv, Types
  <1> QED BY <1>3, <1>8, <1>9, <1>10, UserStep

----------------------------------------------------------------------------
(* The answers.                                                             *)

(* What a step that answers a request leaves behind it.                      *)
Continues ==
  /\ Onward /\ Sends(Tail(queue)) /\ UNCHANGED asked
  /\ tab' \in [Tabs -> Tab] /\ walk' \in [Walkers -> Walk]

LEMMA PutType ==
  ASSUME NEW pages \in Seq(Page), NEW index \in Nat, NEW page \in Page
  PROVE  Put(pages, index, page) \in Seq(Page)
  <1> DEFINE n == IF index < Len(pages) THEN Len(pages) ELSE index + 1
             old == [k \in 1..n |-> IF k <= Len(pages) THEN pages[k] ELSE NoPage]
  <1>1. Len(pages) \in Nat /\ n \in Nat /\ index + 1 \in 1..n
        /\ \A k \in 1..Len(pages) : pages[k] \in Page
    BY LenProperties
  <1>2. Put(pages, index, page) = [old EXCEPT ![index + 1] = page]
    BY DEF Put, Upto
  <1> HIDE DEF n
  <1>3. old \in [1..n -> Page]
    BY <1>1, NoPageType
  <1> HIDE DEF old
  <1>4. [old EXCEPT ![index + 1] = page] \in [1..n -> Page]
    BY <1>3
  <1>5. [1..n -> Page] \subseteq Seq(Page)
    BY <1>1, SeqDef
  <1> QED BY <1>2, <1>4, <1>5

LEMMA RunAnsweredContinues ==
  ASSUME ConstantsAssumption, Types, queue # <<>>, NEW r \in Sound, NEW ok \in BOOLEAN,
         NEW page \in Page, RunAnswered(r, ok, page)
  PROVE  Continues
  <1> DEFINE t == r.who
             A == [sql |-> r.sql, loading |-> FALSE, offset |-> r.index,
                   cursor |-> page.cursor, pages |-> FreshCache(r.who, r.index, page),
                   shown |-> page]
             B == [tab[t] EXCEPT !.loading = FALSE, !.shown = NoPage]
  <1>1. t \in Tabs /\ r.sql \in Named /\ r.index \in Nat
    BY DEF RunAnswered, Sound, Requests, OfTab
  <1>2. A \in Tab
    <2>1. <<>> \in Seq(Page)
      BY EmptySeq
    <2>2. FreshCache(t, r.index, page) \in Seq(Page)
      BY <1>1, <2>1, PutType DEF FreshCache
    <2>3. page.cursor \in BOOLEAN
      BY DEF Page
    <2> QED BY <1>1, <2>2, <2>3 DEF Tab
  <1>3. B \in Tab
    <2>1. tab[t] \in Tab
      BY <1>1 DEF Types
    <2> QED BY <2>1, NoPageType DEF Tab
  <1>4. tab' = [tab EXCEPT ![t] = IF ok THEN A ELSE B]
    BY <1>1 DEF RunAnswered, Types
  <1> HIDE DEF A, B
  <1>5. tab' \in [Tabs -> Tab]
    BY <1>1, <1>2, <1>3, <1>4 DEF Types
  <1>6. queue' = Tail(queue) /\ UNCHANGED <<walk, asked>>
    BY DEF RunAnswered
  <1>7. walk' \in [Walkers -> Walk]
    BY <1>6 DEF Types
  <1> QED BY <1>5, <1>6, <1>7 DEF Continues, Onward, Sends, Types

LEMMA PageAnsweredContinues ==
  ASSUME ConstantsAssumption, Types, queue # <<>>, NEW r \in Sound, NEW ok \in BOOLEAN,
         NEW page \in Page, PageAnswered(r, ok, page)
  PROVE  Continues
  <1> DEFINE t == r.who
             s == tab[t].sql
  <1>1. t \in Tabs /\ r.index \in Nat
    BY DEF PageAnswered, Sound, Requests, OfTab
  <1>2. tab[t] \in Tab /\ tab[t].pages \in Seq(Page)
    <2>1. tab[t] \in Tab
      BY <1>1 DEF Types
    <2> QED BY <2>1 DEF Tab
  <1>3. UNCHANGED <<walk, asked>>
    BY DEF PageAnswered
  <1>4. (\E T \in Tab : tab' = [tab EXCEPT ![t] = T]) /\ Sends(Tail(queue))
    <2>1. CASE ok
      <3> DEFINE pages == Put(tab[t].pages, r.index, page)
                 T == [tab[t] EXCEPT !.loading = FALSE, !.shown = page, !.offset = r.index,
                                     !.cursor = page.cursor, !.pages = pages]
      <3>1. queue' = Tail(queue) /\ tab' = [tab EXCEPT ![t] = T]
        BY <2>1, <1>1 DEF PageAnswered, Types
      <3>2. pages \in Seq(Page) /\ page.cursor \in BOOLEAN
        BY <1>1, <1>2, PutType DEF Page
      <3> HIDE DEF pages
      <3>3. T \in Tab
        BY <3>2, <1>1, <1>2 DEF Tab
      <3> QED BY <3>1, <3>3 DEF Sends
    <2>2. CASE ~ok /\ Rerunnable(s)
      <3> DEFINE T == [tab[t] EXCEPT !.cursor = FALSE, !.loading = TRUE, !.shown = NoPage]
      <3>1. /\ tab' = [tab EXCEPT ![t].cursor = FALSE, ![t].loading = TRUE, ![t].shown = NoPage]
            /\ queue' = Append(Tail(queue), Rerun(t, s, r.index))
        BY <2>2 DEF PageAnswered
      <3>2. tab' = [tab EXCEPT ![t] = T]
        BY <3>1, <1>1 DEF Types
      <3>3. T \in Tab
        BY <1>2, NoPageType DEF Tab
      <3>4. Allowed(Rerun(t, s, r.index))
        BY <2>2, <1>1, RerunAllowed DEF Rerunnable
      <3> QED BY <3>1, <3>2, <3>3, <3>4 DEF Sends, Allowed
    <2>3. CASE ~ok /\ ~Rerunnable(s)
      <3> DEFINE T == [tab[t] EXCEPT !.cursor = FALSE, !.loading = FALSE]
      <3>1. tab' = GaveUp(t) /\ queue' = Tail(queue)
        BY <2>3 DEF PageAnswered
      <3>2. tab' = [tab EXCEPT ![t] = T]
        BY <3>1, <1>1 DEF Types, GaveUp
      <3>3. T \in Tab
        BY <1>2 DEF Tab
      <3> QED BY <3>1, <3>2, <3>3 DEF Sends
    <2> QED BY <2>1, <2>2, <2>3
  <1>5. tab' \in [Tabs -> Tab] /\ walk' \in [Walkers -> Walk]
    BY <1>1, <1>3, <1>4 DEF Types
  <1> QED BY <1>3, <1>4, <1>5 DEF Continues, Onward, Types

(* A walk that has begun goes on.                                           *)
LEMMA WalkGoes ==
  ASSUME Types, NEW w \in Walkers, walk[w].pc \notin {"idle", "asking"}, NEW W \in Walk, W.pc \notin {"idle", "asking"},
         W.sql = walk[w].sql, Ended(walk[w].end) => Ended(W.end),
         walk' = [walk EXCEPT ![w] = W]
  PROVE  walk' \in [Walkers -> Walk] /\ walk'[w] = W /\ Onward
  BY DEF Types, Onward

LEMMA ToldType ==
  ASSUME Types, NEW W \in Walk, NEW pc
  PROVE  Told(W, pc) \in [Tabs -> Tab]
  <1>1. CASE W.tab = NoTab \/ ~Ended(pc)
    BY <1>1 DEF Told, Types
  <1>2. CASE W.tab # NoTab /\ Ended(pc)
    <2> DEFINE T == [tab[W.tab] EXCEPT !.cursor = FALSE]
    <2>1. W.tab \in Tabs
      BY <1>2 DEF Walk
    <2>2. tab[W.tab] \in Tab
      BY <2>1 DEF Types
    <2>3. T \in Tab
      BY <2>2 DEF Tab
    <2>4. Told(W, pc) = [tab EXCEPT ![W.tab] = T]
      BY <1>2, <2>1 DEF Told, Types
    <2> QED BY <2>1, <2>3, <2>4 DEF Types
  <1> QED BY <1>1, <1>2

(* The walk w with what it has just read.                                    *)
Same(W, w) == /\ W \in Walk /\ W.pc = walk[w].pc /\ W.sql = walk[w].sql
              /\ W.end = walk[w].end /\ W.conn = walk[w].conn

LEMMA LeaveContinues ==
  ASSUME ConstantsAssumption, Types, NEW w \in Walkers, walk[w].pc \notin {"idle", "asking"},
         walk[w].sql \in Reads, NEW W, Same(W, w), NEW end, Ended(end), Leave(w, W, end),
         UNCHANGED asked
  PROVE  Continues
  <1>1. end \in Pcs /\ end \notin {"idle", "asking"} /\ W \in Walk /\ W.conn \in Conns
    BY DEF Ended, Pcs, Same, Walk
  <1>2. CASE W.open
    <2> DEFINE V == [W EXCEPT !.pc = "closing", !.end = end]
    <2>1. /\ walk' = [walk EXCEPT ![w] = V] /\ UNCHANGED tab
          /\ queue' = Append(Tail(queue), CloseCursor(w, W.conn))
      BY <1>2 DEF Leave
    <2>2. V \in Walk /\ V.pc = "closing" /\ V.sql = walk[w].sql /\ V.end = end
      BY <1>1 DEF Walk, Pcs, Same
    <2> HIDE DEF V
    <2>3. walk' \in [Walkers -> Walk] /\ walk'[w] = V /\ Onward
      BY <2>1, <2>2, WalkGoes
    <2>4. Allowed(CloseCursor(w, W.conn))
      BY <1>1, <2>2, <2>3, WalkRequests
    <2> QED BY <2>1, <2>3, <2>4 DEF Continues, Sends, Allowed, Types
  <1>3. CASE ~W.open
    <2> DEFINE V == [W EXCEPT !.pc = end]
    <2>1. walk' = [walk EXCEPT ![w] = V] /\ tab' = Told(W, end) /\ queue' = Tail(queue)
      BY <1>3 DEF Leave
    <2>2. V \in Walk /\ V.pc \notin {"idle", "asking"} /\ V.sql = walk[w].sql /\ V.end = walk[w].end
      BY <1>1 DEF Walk, Same
    <2> HIDE DEF V
    <2>3. walk' \in [Walkers -> Walk] /\ Onward
      BY <2>1, <2>2, WalkGoes
    <2> QED BY <1>1, <2>1, <2>3, ToldType DEF Continues, Sends
  <1> QED BY <1>2, <1>3

LEMMA DrainedContinues ==
  ASSUME ConstantsAssumption, Types, NEW w \in Walkers, walk[w].pc \notin {"idle", "asking"},
         walk[w].sql \in Reads, NEW page \in Page, Drained(w, page), UNCHANGED asked
  PROVE  Continues
  <1> DEFINE W == [walk[w] EXCEPT !.rows = @ \o page.rows, !.open = page.cursor]
  <1>1. Same(W, w) /\ W.conn \in Conns /\ W.rows \in Seq(Row)
    <2>1. walk[w] \in Walk /\ walk[w].rows \in Seq(Row) /\ page.rows \in Seq(Row)
          /\ page.cursor \in BOOLEAN
      BY DEF Types, Walk, Page
    <2>2. walk[w].rows \o page.rows \in Seq(Row)
      BY <2>1, ConcatProperties
    <2> QED BY <2>1, <2>2 DEF Same, Walk
  <1> HIDE DEF W
  <1>2. \/ Leave(w, W, "done") \/ Leave(w, W, "cancelled")
        \/ /\ walk' = [walk EXCEPT ![w] = [W EXCEPT !.pc = "more"]]
           /\ queue' = Append(Tail(queue), NextOf(w, W)) /\ UNCHANGED tab
    BY DEF Drained, W
  <1>3. CASE Leave(w, W, "done")
    BY <1>1, <1>3, LeaveContinues DEF Ended
  <1>4. CASE Leave(w, W, "cancelled")
    BY <1>1, <1>4, LeaveContinues DEF Ended
  <1>5. CASE /\ walk' = [walk EXCEPT ![w] = [W EXCEPT !.pc = "more"]]
             /\ queue' = Append(Tail(queue), NextOf(w, W)) /\ UNCHANGED tab
    <2> DEFINE V == [W EXCEPT !.pc = "more"]
    <2>1. V \in Walk /\ V.pc = "more" /\ V.sql = walk[w].sql /\ V.end = walk[w].end
      BY <1>1 DEF Same, Walk, Pcs
    <2>2. walk' = [walk EXCEPT ![w] = V]
      BY <1>5
    <2> HIDE DEF V
    <2>3. walk' \in [Walkers -> Walk] /\ walk'[w] = V /\ Onward
      BY <2>1, <2>2, WalkGoes
    <2>4. Len(W.rows) \in Nat /\ W.sql = walk[w].sql
      BY <1>1, LenProperties DEF Same
    <2>5. Allowed(NextOf(w, W))
      <3>1. /\ Allowed(QueryNext("more", w, W.conn, 0, ExportPage))
            /\ Allowed(RunQuery("more", w, W.conn, W.sql, 0, ExportPage, Len(W.rows), FALSE))
        BY <1>1, <2>1, <2>3, <2>4, WalkRequests
      <3> QED BY <3>1 DEF NextOf
    <2> QED BY <1>5, <2>3, <2>5 DEF Continues, Sends, Allowed, Types
  <1> QED BY <1>2, <1>3, <1>4, <1>5

(* The request of a walk is of one that has begun and reads.                 *)
LEMMA OfWalkSound ==
  ASSUME NEW r \in Sound, r.for \in OfWalk
  PROVE  /\ r.who \in Walkers /\ walk[r.who].pc \notin {"idle", "asking"} /\ walk[r.who].sql \in Reads
         /\ r.for = "closed" => Ended(walk[r.who].end)
  BY DEF Sound

LEMMA ReadAnsweredContinues ==
  ASSUME ConstantsAssumption, Types, NEW r \in Sound, NEW ok \in BOOLEAN, NEW page \in Page,
         FirstAnswered(r, ok, page) \/ MoreAnswered(r, ok, page)
  PROVE  Continues
  <1> DEFINE w == r.who
  <1>1. /\ r.for \in OfWalk /\ UNCHANGED asked
        /\ IF ok THEN Drained(w, page) ELSE Leave(w, walk[w], Broken(w))
    BY DEF FirstAnswered, MoreAnswered, OfWalk
  <1>2. w \in Walkers /\ walk[w].pc \notin {"idle", "asking"} /\ walk[w].sql \in Reads
    BY <1>1, OfWalkSound
  <1> HIDE DEF w
  <1>3. CASE ok
    BY <1>1, <1>2, <1>3, DrainedContinues
  <1>4. CASE ~ok
    <2>1. Same(walk[w], w)
      BY <1>2 DEF Same, Types
    <2>2. Ended(Broken(w))
      BY DEF Ended, Broken
    <2> QED BY <1>1, <1>2, <1>4, <2>1, <2>2, LeaveContinues
  <1> QED BY <1>3, <1>4

LEMMA ClosedAnsweredContinues ==
  ASSUME ConstantsAssumption, Types, NEW r \in Sound, NEW ok \in BOOLEAN, NEW page \in Page,
         ClosedAnswered(r, ok, page)
  PROVE  Continues
  <1> DEFINE w == r.who
             W == walk[w]
             V == [W EXCEPT !.pc = W.end, !.open = FALSE]
  <1>1. w \in Walkers /\ W.pc \notin {"idle", "asking"} /\ W.sql \in Reads /\ Ended(W.end)
    BY OfWalkSound DEF ClosedAnswered, OfWalk
  <1>2. W \in Walk
    BY <1>1 DEF Types
  <1>3. V \in Walk /\ V.pc \notin {"idle", "asking"} /\ V.sql = W.sql /\ V.end = W.end
    BY <1>1, <1>2 DEF Walk, Ended
  <1>4. /\ walk' = [walk EXCEPT ![w] = V] /\ tab' = Told(W, W.end)
        /\ queue' = Tail(queue) /\ UNCHANGED asked
    BY <1>1 DEF ClosedAnswered, Types
  <1> HIDE DEF V
  <1>5. walk' \in [Walkers -> Walk] /\ Onward
    BY <1>1, <1>3, <1>4, WalkGoes
  <1> QED BY <1>2, <1>4, <1>5, ToldType DEF Continues, Sends

LEMMA RestAnsweredContinues ==
  ASSUME ConstantsAssumption, Types, NEW r \in Sound, NEW ok \in BOOLEAN, NEW page \in Page,
         RestAnswered(r, ok, page)
  PROVE  Continues
  <1> DEFINE w == r.who
             W == [walk[w] EXCEPT !.rows = @ \o page.rows]
  <1>1. w \in Walkers /\ walk[w].pc \notin {"idle", "asking"} /\ walk[w].sql \in Reads /\ UNCHANGED asked
    BY OfWalkSound DEF RestAnswered, OfWalk
  <1>2. walk[w] \in Walk /\ walk[w].rows \o page.rows \in Seq(Row)
    <2>1. walk[w] \in Walk
      BY <1>1 DEF Types
    <2>2. walk[w].rows \in Seq(Row) /\ page.rows \in Seq(Row)
      BY <2>1 DEF Walk, Page
    <2> QED BY <2>1, <2>2, ConcatProperties
  <1>3. Same(W, w) /\ W.conn \in Conns
    BY <1>2 DEF Same, Walk
  <1> USE DEF Same
  <1>4. CASE /\ walk' = [walk EXCEPT ![w] = [W EXCEPT !.pc = "done"]]
             /\ queue' = Tail(queue) /\ tab' = Told(W, "done")
    <2> DEFINE V == [W EXCEPT !.pc = "done"]
    <2> HIDE DEF W
    <2>1. V \in Walk /\ V.pc \notin {"idle", "asking"} /\ V.sql = walk[w].sql /\ V.end = walk[w].end
      BY <1>3 DEF Walk, Pcs
    <2> HIDE DEF V
    <2>2. walk' \in [Walkers -> Walk] /\ Onward
      BY <1>1, <1>4, <2>1, WalkGoes DEF V
    <2> QED BY <1>1, <1>3, <1>4, <2>2, ToldType DEF Continues, Sends
  <1>5. CASE /\ walk' = [walk EXCEPT ![w] = W] /\ UNCHANGED tab
             /\ queue' = Append(Tail(queue), QueryNext("rest", w, W.conn, 0, ExportPage))
    <2> HIDE DEF W
    <2>1. walk' \in [Walkers -> Walk] /\ walk'[w] = W /\ Onward
      BY <1>1, <1>3, <1>5, WalkGoes
    <2>2. Allowed(QueryNext("rest", w, W.conn, 0, ExportPage))
      BY <1>1, <1>3, <2>1, WalkRequests
    <2> QED BY <1>1, <1>5, <2>1, <2>2 DEF Continues, Sends, Allowed, Types
  <1>6. CASE /\ walk' = [walk EXCEPT ![w].pc = "cancelled"]
             /\ queue' = Tail(queue) /\ tab' = Told(W, "cancelled")
    <2> DEFINE V == [walk[w] EXCEPT !.pc = "cancelled"]
    <2> HIDE DEF W
    <2>1. V \in Walk /\ V.pc \notin {"idle", "asking"} /\ V.sql = walk[w].sql /\ V.end = walk[w].end
      BY <1>2 DEF Walk, Pcs
    <2>2. walk' = [walk EXCEPT ![w] = V]
      BY <1>1, <1>6 DEF Types
    <2> HIDE DEF V
    <2>3. walk' \in [Walkers -> Walk] /\ Onward
      BY <1>1, <2>1, <2>2, WalkGoes
    <2> QED BY <1>1, <1>3, <1>6, <2>3, ToldType DEF Continues, Sends
  <1>7. CASE /\ walk' = [walk EXCEPT ![w] = StartOver(w)] /\ UNCHANGED tab
             /\ queue' = Append(Tail(queue), FirstPage(w, W.conn, W.sql))
    <2> DEFINE V == [walk[w] EXCEPT !.pc = "first", !.rows = <<>>]
    <2> HIDE DEF W
    <2>1. V \in Walk /\ V.pc \notin {"idle", "asking"} /\ V.sql = walk[w].sql /\ V.end = walk[w].end
      <3>1. <<>> \in Seq(Row)
        BY EmptySeq
      <3> QED BY <1>2, <3>1 DEF Walk, Pcs
    <2>2. walk' = [walk EXCEPT ![w] = V]
      BY <1>7 DEF StartOver
    <2> HIDE DEF V
    <2>3. walk' \in [Walkers -> Walk] /\ walk'[w] = V /\ Onward
      BY <1>1, <2>1, <2>2, WalkGoes
    <2>4. Allowed(FirstPage(w, W.conn, W.sql))
      BY <1>1, <1>3, <2>1, <2>3, WalkRequests
    <2> QED BY <1>1, <1>7, <2>3, <2>4 DEF Continues, Sends, Allowed, Types
  <1> QED BY <1>4, <1>5, <1>6, <1>7 DEF RestAnswered

LEMMA AnswerStep ==
  ASSUME ConstantsAssumption, IInv, Answer PROVE IInv'
  <1>1. PICK ok \in BOOLEAN :
          LET r == Head(queue)  page == PageOf(r, ok) IN
          /\ Serve(r, ok)
          /\ \/ RunAnswered(r, ok, page)   \/ PageAnswered(r, ok, page)
             \/ FirstAnswered(r, ok, page) \/ MoreAnswered(r, ok, page)
             \/ RestAnswered(r, ok, page)  \/ ClosedAnswered(r, ok, page)
    BY DEF Answer
  <1> DEFINE r == Head(queue)
             page == PageOf(r, ok)
  <1>2. Types /\ Accounted /\ queue # <<>>
    BY DEF Answer, IInv
  <1>3. r \in Sound /\ Tail(queue) \in Seq(Sound) /\ Serve(r, ok)
    BY <1>1, <1>2, TailSound
  <1>4. page \in Page /\ cur' \in [Conns -> Cursors'] /\ execs' \in Seq(Sqls)
    BY <1>2, <1>3, Served
  <1>5. \A s \in Sqls \ Reads : Count(execs', {s}) + Count(Tail(queue), RunsOf(s)) <= asked[s]
    BY <1>2, <1>3, AnswerBooks
  <1>6. \/ RunAnswered(r, ok, page)   \/ PageAnswered(r, ok, page)
        \/ FirstAnswered(r, ok, page) \/ MoreAnswered(r, ok, page)
        \/ RestAnswered(r, ok, page)  \/ ClosedAnswered(r, ok, page)
    BY <1>1
  <1> HIDE DEF r, page
  <1>7. Continues
    <2>1. CASE RunAnswered(r, ok, page)
      BY <2>1, <1>2, <1>3, <1>4, RunAnsweredContinues
    <2>2. CASE PageAnswered(r, ok, page)
      BY <2>2, <1>2, <1>3, <1>4, PageAnsweredContinues
    <2>3. CASE FirstAnswered(r, ok, page) \/ MoreAnswered(r, ok, page)
      BY <2>3, <1>2, <1>3, <1>4, ReadAnsweredContinues
    <2>4. CASE RestAnswered(r, ok, page)
      BY <2>4, <1>2, <1>3, <1>4, RestAnsweredContinues
    <2>5. CASE ClosedAnswered(r, ok, page)
      BY <2>5, <1>2, <1>3, <1>4, ClosedAnsweredContinues
    <2> QED BY <1>6, <2>1, <2>2, <2>3, <2>4, <2>5
  <1>8. queue' \in Seq(Sound')
    BY <1>3, <1>7, SendsSound DEF Continues
  <1>9. Accounted'
    BY <1>3, <1>5, <1>7, SendsBooks DEF Continues
  <1> QED BY <1>2, <1>4, <1>7, <1>8, <1>9 DEF IInv, Types, Continues, Onward

LEMMA InitHolds == ASSUME ConstantsAssumption, Init PROVE IInv
  <1>1. tab \in [Tabs -> Tab]
    <2>1. EmptyTab \in Tab
      BY EmptySeq, NoPageType DEF EmptyTab, Tab, Named
    <2> QED BY <2>1 DEF Init
  <1>2. walk \in [Walkers -> Walk]
    <2>1. ASSUME NEW w \in Walkers PROVE Idle \in Walk
      BY Sizes, IdleType
    <2> QED BY <2>1 DEF Init
  <1>5. \A w \in Walkers : walk[w].pc # "asking"
    BY DEF Init, Idle
  <1>3. Types
    BY <1>1, <1>2, <1>5, EmptySeq DEF Init, Types, Cursors
  <1>4. Accounted
    BY CountEmpty DEF Init, Accounted
  <1> QED BY <1>3, <1>4 DEF IInv

LEMMA Invariance == ASSUME ConstantsAssumption, IInv, [Next]_vars PROVE IInv'
  <1>1. ASSUME NEW t \in Tabs, NEW s \in Sqls, Run(t, s) PROVE IInv'
    BY <1>1, RunStep
  <1>2. ASSUME NEW t \in Tabs, NEW delta \in {-1, 1}, PageTurn(t, delta) PROVE IInv'
    BY <1>2, PageTurnStep
  <1>3. ASSUME NEW t \in Tabs, Refresh(t) PROVE IInv'
    BY <1>3, RefreshStep
  <1>4. ASSUME NEW w \in Walkers, NEW s \in Sqls, Backup(w, s) PROVE IInv'
    BY <1>4, BackupStep
  <1>5. ASSUME NEW w \in Walkers, NEW t \in Tabs, Export(w, t) PROVE IInv'
    BY <1>5, ExportStep
  <1>6. ASSUME NEW w \in Walkers, Cancel(w) PROVE IInv'
    BY <1>6, CancelStep
  <1>9. ASSUME NEW w \in Walkers, Picked(w) PROVE IInv'
    BY <1>9, PickedStep
  <1>10. ASSUME NEW w \in Walkers, Dismissed(w) PROVE IInv'
    BY <1>10, DismissedStep
  <1>7. CASE Answer
    BY <1>7, AnswerStep
  <1>8. CASE UNCHANGED vars
    <2>1. UNCHANGED <<tab, walk, queue, cur, execs, asked>>
      BY <1>8 DEF vars
    <2>2. Onward /\ Sends(queue) /\ tab' \in [Tabs -> Tab] /\ walk' \in [Walkers -> Walk]
      BY <2>1 DEF Onward, Sends, IInv, Types
    <2> QED BY <2>1, <2>2, UserStep
  <1> QED BY <1>1, <1>2, <1>3, <1>4, <1>5, <1>6, <1>7, <1>8, <1>9, <1>10 DEF Next

(* No statement that may write is executed more often than the user ran it,  *)
(* however many tabs, walks and connections there are, whoever shares a      *)
(* cursor with whom and whatever fails: a page turn, a refresh, a fallback   *)
(* after a lost cursor and an export re-run plain reads only (rerunnable,    *)
(* nextPage, runExport, drainQuery).                                        *)
THEOREM SilentRerunNever == Spec => []NoSilentRerun
  <1>1. Init => IInv
    BY ConstantsAssumption, InitHolds
  <1>2. IInv /\ [Next]_vars => IInv'
    BY ConstantsAssumption, Invariance
  <1>3. IInv => NoSilentRerun
    <2> SUFFICES ASSUME IInv, NEW s \in Sqls \ Reads
                 PROVE  Cardinality({k \in DOMAIN execs : execs[k] = s}) <= asked[s]
      BY DEF NoSilentRerun
    <2>1. {k \in DOMAIN execs : execs[k] = s} = Places(execs, {s})
      BY DEF Places
    <2>2. /\ Count(execs, {s}) \in Nat /\ Count(queue, RunsOf(s)) \in Nat /\ asked[s] \in Nat
          /\ Count(execs, {s}) + Count(queue, RunsOf(s)) <= asked[s]
      BY PlacesFinite DEF IInv, Types, Accounted
    <2>3. Count(execs, {s}) <= asked[s]
      BY <2>2
    <2> QED BY <2>1, <2>3 DEF Count
  <1> QED BY <1>1, <1>2, <1>3, PTL DEF Spec

----------------------------------------------------------------------------
(* A tab has its connection to itself and the user waits for one read before *)
(* the next: then a cursor is the one its reader left, or none.              *)
OwnConns == Patient /\ \A t, u \in Tabs : ConnOf[t] = ConnOf[u] => t = u

(* Where a page starts, and the page of execution e at index i.              *)
From(i) == i * PageSize
PageRows(e, s, i) == Stretch(e, From(i) + 1, Least(From(i + 1), Rows[s]))
GoodPage(p, e, s, i) ==
  /\ e \in DOMAIN execs /\ execs[e] = s /\ From(i) <= Rows[s]
  /\ p.rows = PageRows(e, s, i)
  /\ IF p.truncated THEN From(i + 1) <= Rows[s] ELSE Rows[s] <= From(i + 1)

(* A request on its way: its reader waits for it, and what it asks for.      *)
WaitsAt == [first |-> "first", more |-> "more", rest |-> "rest", closed |-> "closing"]
Fits(r) ==
  /\ r.for \in OfTab => tab[r.who].loading /\ r.conn = ConnOf[r.who]
  /\ r.for \in OfWalk => walk[r.who].pc = WaitsAt[r.for] /\ r.conn = walk[r.who].conn
  /\ r.for = "run" => /\ r.m = "run" /\ r.limit = PageSize /\ r.offset = From(r.index)
                      /\ r.keep = (r.index = 0) /\ From(r.index) <= Rows[r.sql]
  /\ r.for = "page" => LET T == tab[r.who] IN
       /\ r.m = "next" /\ r.limit = PageSize /\ T.sql \in Sqls /\ T.cursor
       /\ r.index = Len(T.pages) /\ From(r.index) <= Rows[T.sql]
  /\ r.for = "first" => /\ r.m = "run" /\ r.keep /\ r.limit = ExportPage
                        /\ r.sql = walk[r.who].sql
  /\ r.for \in {"more", "rest"} => r.m = "next" /\ r.limit = ExportPage
  /\ r.for = "closed" => r.m = "cursorClose"
OnePerConn(q) == \A i, j \in DOMAIN q : q[i].conn = q[j].conn => i = j

(* What a tab shows and keeps.                                               *)
Shows(T) ==
  /\ T.sql \in Sqls => From(T.offset) <= Rows[T.sql]
  /\ ~T.shown.none => \E e \in DOMAIN execs : GoodPage(T.shown, e, T.sql, T.offset)
  /\ \E e \in DOMAIN execs \cup {0} :
       \A k \in DOMAIN T.pages : ~T.pages[k].none => GoodPage(T.pages[k], e, T.sql, k - 1)

(* The cursor of a connection: over a result that has as many rows as were   *)
(* read, and the rows that its reader has are those before it. The cursor of *)
(* a tab is behind the pages it keeps, unless a walk is going through it or  *)
(* has one of its own.                                                       *)
Through == {"more", "rest", "closing"}
Behind(C, rows, s) == C = NoCursor \/ (execs[C.exec] = s /\ rows = Stretch(C.exec, 1, C.pos))
TabCursor(T, C) ==
  C # NoCursor =>
    /\ execs[C.exec] = T.sql /\ C.pos = From(Len(T.pages))
    /\ \A k \in DOMAIN T.pages : ~T.pages[k].none /\ GoodPage(T.pages[k], C.exec, T.sql, k - 1)
(* The rows of statement s from the (k + 1)st to the last, of one execution.  *)
Whole(rows, s, k) ==
  \E e \in DOMAIN execs : execs[e] = s /\ rows = Stretch(e, k + 1, Rows[s])
WalkAt(W, C) ==
  /\ W.tab # NoTab => ConnOf[W.tab] = W.conn
  /\ W.pc = "first" => W.rows = <<>> /\ ~W.open
  /\ W.pc = "more" => W.open /\ Behind(C, W.rows, W.sql)
  /\ W.pc = "rest" => ~W.open /\ W.tab # NoTab /\ Behind(C, W.rows, W.sql)
  /\ W.pc = "closing" => W.end # "done"
  /\ W.pc \in {"first", "more", "rest"} => W.skipped = 0
  /\ W.pc = "asking" =>
       W.tab # NoTab /\ ~W.open /\ (~W.res.truncated => Whole(W.res.rows, W.sql, W.skipped))
  /\ W.pc = "done" /\ W.sql \in Reads => Whole(W.rows, W.sql, W.skipped)

On(w, c) == walk[w].conn = c
Busy(w) == walk[w].pc = "asking" \/ Working(w)
Local(c) ==
  /\ cur[c] # NoCursor => cur[c].pos <= Rows[execs[cur[c].exec]]
  /\ \A w \in Walkers : On(w, c) => WalkAt(walk[w], cur[c])
  /\ \A v, w \in Walkers : On(v, c) /\ On(w, c) /\ Busy(v) /\ Busy(w) => v = w
  /\ \A t \in Tabs : ConnOf[t] = c =>
       /\ Shows(tab[t])
       /\ \A w \in Walkers : On(w, c) => ~(tab[t].loading /\ Busy(w))
       /\ \A w \in Walkers : On(w, c) /\ walk[w].pc = "asking" /\ walk[w].tab = t =>
                             walk[w].sql = tab[t].sql
       /\ \/ ~tab[t].cursor
          \/ \E w \in Walkers : On(w, c) /\ walk[w].pc \in Through
          \/ TabCursor(tab[t], cur[c])

JInv ==
  /\ IInv /\ OnePerConn(queue) /\ \A i \in DOMAIN queue : Fits(queue[i])
  /\ \A c \in Conns : Local(c)

(* Pages and stretches of rows.                                              *)
LEMMA FromIs ==
  ASSUME ConstantsAssumption, NEW i \in Nat
  PROVE  /\ From(i) \in Nat /\ From(i + 1) \in Nat /\ From(i + 1) = From(i) + PageSize
         /\ From(0) = 0 /\ PageSize \in Nat /\ PageSize > 0
  BY DEF From, ConstantsAssumption

LEMMA FromBefore ==
  ASSUME ConstantsAssumption, NEW i \in Nat, i # 0
  PROVE  i - 1 \in Nat /\ From(i - 1) \in Nat /\ From(i) = From(i - 1) + PageSize /\ From(i - 1) <= From(i)
  <1>1. i - 1 \in Nat /\ (i - 1) + 1 = i
    OBVIOUS
  <1> QED BY <1>1, FromIs

LEMMA StretchIs ==
  ASSUME NEW e \in Nat, NEW pos \in Nat, NEW n \in Nat
  PROVE  /\ Stretch(e, pos + 1, pos + n) = [k \in 1..n |-> [exec |-> e, n |-> pos + k]]
         /\ Stretch(e, pos + 1, pos + n) \in Seq(Row) /\ Len(Stretch(e, pos + 1, pos + n)) = n
  <1>1. (pos + n) - (pos + 1) + 1 = n /\ \A k \in 1..n : (pos + 1) + k - 1 = pos + k
    OBVIOUS
  <1>2. PICK r : r = [k \in 1..n |-> [exec |-> e, n |-> pos + k]]
    OBVIOUS
  <1>3. Stretch(e, pos + 1, pos + n) = r
    BY <1>1, <1>2 DEF Stretch
  <1>4. r \in Seq(Row) /\ Len(r) = n
    BY <1>2 DEF Row
  <1> QED BY <1>2, <1>3, <1>4

LEMMA StretchLen ==
  ASSUME NEW e \in Nat, NEW pos \in Nat, NEW n \in Nat, NEW b, b = Stretch(e, pos + 1, pos + n)
  PROVE  Len(b) = n
  <1>1. (pos + n) - (pos + 1) + 1 = n /\ \A k \in 1..n : (pos + 1) + k - 1 = pos + k
    OBVIOUS
  <1>2. PICK r : r = [k \in 1..n |-> [exec |-> e, n |-> pos + k]]
    OBVIOUS
  <1>3. b = r
    BY <1>1, <1>2 DEF Stretch
  <1>4. Len(r) = n
    <2>1. r \in Seq(Row) /\ Len(r) = n
      BY <1>2 DEF Row
    <2> QED BY <2>1
  <1> QED BY <1>3, <1>4

LEMMA FirstStretch ==
  ASSUME NEW e \in Nat, NEW n \in Nat
  PROVE  /\ Stretch(e, 1, n) = [k \in 1..n |-> [exec |-> e, n |-> k]]
         /\ Stretch(e, 1, n) \in Seq(Row) /\ Len(Stretch(e, 1, n)) = n
  <1>1. n - 1 + 1 = n /\ \A k \in 1..n : 1 + k - 1 = k
    OBVIOUS
  <1>2. PICK r : r = [k \in 1..n |-> [exec |-> e, n |-> k]]
    OBVIOUS
  <1>3. Stretch(e, 1, n) = r
    BY <1>1, <1>2 DEF Stretch
  <1>4. r \in Seq(Row) /\ Len(r) = n
    BY <1>2 DEF Row
  <1> QED BY <1>2, <1>3, <1>4

LEMMA StretchJoins ==
  ASSUME NEW e \in Nat, NEW pos \in Nat, NEW n \in Nat
  PROVE  Stretch(e, 1, pos) \o Stretch(e, pos + 1, pos + n) = Stretch(e, 1, pos + n)
  <1>1. PICK a, b, c : /\ a = Stretch(e, 1, pos) /\ b = Stretch(e, pos + 1, pos + n)
                       /\ c = Stretch(e, 1, pos + n)
    OBVIOUS
  <1>2. a = [k \in 1..pos |-> [exec |-> e, n |-> k]] /\ a \in Seq(Row) /\ Len(a) = pos
    BY <1>1, FirstStretch
  <1>3. b = [k \in 1..n |-> [exec |-> e, n |-> pos + k]] /\ b \in Seq(Row) /\ Len(b) = n
    BY <1>1, StretchIs
  <1>4. c = [k \in 1..(pos + n) |-> [exec |-> e, n |-> k]] /\ c \in Seq(Row) /\ Len(c) = pos + n
    <2>1. PICK m \in Nat : m = pos + n
      OBVIOUS
    <2>2. /\ Stretch(e, 1, m) = [k \in 1..m |-> [exec |-> e, n |-> k]]
          /\ Stretch(e, 1, m) \in Seq(Row) /\ Len(Stretch(e, 1, m)) = m
      BY FirstStretch
    <2> QED BY <1>1, <2>1, <2>2
  <1>5. PICK d : d = a \o b
    OBVIOUS
  <1>6. /\ d \in Seq(Row) /\ Len(d) = pos + n
        /\ \A k \in 1..(pos + n) : d[k] = IF k <= pos THEN a[k] ELSE b[k - pos]
    <2>1. a \in Seq(Row) /\ b \in Seq(Row)
      BY <1>2, <1>3
    <2>2. /\ d \in Seq(Row) /\ Len(d) = Len(a) + Len(b)
          /\ \A k \in 1..(Len(a) + Len(b)) : d[k] = IF k <= Len(a) THEN a[k] ELSE b[k - Len(a)]
      BY <1>5, <2>1, ConcatProperties
    <2>3. Len(a) = pos /\ Len(b) = n
      BY <1>2, <1>3
    <2> QED BY <2>2, <2>3
  <1>7. ASSUME NEW k \in 1..(pos + n) PROVE d[k] = c[k]
    <2>1. c[k] = [exec |-> e, n |-> k]
      BY <1>4
    <2>2. CASE k <= pos
      <3>1. k \in 1..pos
        BY <2>2
      <3> QED BY <1>2, <1>6, <2>1, <2>2, <3>1
    <2>3. CASE ~(k <= pos)
      <3>1. k - pos \in 1..n /\ pos + (k - pos) = k
        BY <2>3
      <3> QED BY <1>3, <1>6, <2>1, <2>3, <3>1
    <2> QED BY <2>2, <2>3
  <1>8. d = c
    BY <1>4, <1>6, <1>7, SeqEqual
  <1> QED BY <1>1, <1>5, <1>8

(* A page read at pos: the rows that follow, and whether they are the last.  *)
LEMMA CursorPageIs ==
  ASSUME ConstantsAssumption, NEW e \in Nat, NEW s \in Sqls, NEW pos \in Nat, pos <= Rows[s],
         NEW limit \in Nat \ {0}
  PROVE  LET p == CursorPage(e, s, pos, limit)  n == Len(p.rows) IN
         /\ n \in Nat /\ p.rows = Stretch(e, pos + 1, pos + n) /\ p.none = FALSE
         /\ p.cursor = p.truncated /\ p.truncated \in BOOLEAN /\ pos + n <= Rows[s]
         /\ IF p.truncated THEN n = limit ELSE pos + n = Rows[s] /\ n < limit
  <1>1. Rows[s] \in Nat
    BY DEF ConstantsAssumption
  <1>2. PICK n \in Nat : n = Least(limit, Left(s, pos))
    BY <1>1 DEF Least, Left
  <1>3. /\ n \in Nat /\ pos + n <= Rows[s] /\ n <= limit
        /\ n # limit => pos + n = Rows[s] /\ n < limit
    BY <1>1, <1>2 DEF Least, Left
  <1>4. PICK p : p = CursorPage(e, s, pos, limit)
    OBVIOUS
  <1>5. /\ p.rows = [k \in 1..n |-> [exec |-> e, n |-> pos + k]]
        /\ p.truncated = (n = limit) /\ p.cursor = (n = limit) /\ p.none = FALSE
    BY <1>2, <1>4 DEF CursorPage, PageFrom
  <1>6. p.rows = Stretch(e, pos + 1, pos + n) /\ Len(p.rows) = n
    <2>1. PICK b : b = Stretch(e, pos + 1, pos + n)
      OBVIOUS
    <2>2. b = [k \in 1..n |-> [exec |-> e, n |-> pos + k]]
      <3>1. (pos + n) - (pos + 1) + 1 = n /\ \A k \in 1..n : (pos + 1) + k - 1 = pos + k
        OBVIOUS
      <3> QED BY <2>1, <3>1 DEF Stretch
    <2>3. Len(b) = n
      BY <2>1, StretchLen
    <2> QED BY <1>5, <2>1, <2>2, <2>3
  <1> QED BY <1>3, <1>4, <1>5, <1>6

LEMMA OffsetPageIs ==
  ASSUME ConstantsAssumption, NEW e \in Nat, NEW s \in Sqls, NEW pos \in Nat, pos <= Rows[s],
         NEW limit \in Nat \ {0}
  PROVE  LET p == OffsetPage(e, s, pos, limit)  n == Len(p.rows) IN
         /\ n \in Nat /\ p.rows = Stretch(e, pos + 1, pos + n) /\ p.none = FALSE
         /\ p.cursor = FALSE /\ p.truncated \in BOOLEAN /\ pos + n <= Rows[s]
         /\ IF p.truncated THEN n = limit ELSE pos + n = Rows[s] /\ n <= limit
  <1>1. Rows[s] \in Nat
    BY DEF ConstantsAssumption
  <1>2. PICK n \in Nat : n = Least(limit, Left(s, pos))
    BY <1>1 DEF Least, Left
  <1>3. /\ n \in Nat /\ pos + n <= Rows[s] /\ n <= limit
        /\ IF Left(s, pos) > limit THEN n = limit ELSE pos + n = Rows[s]
    BY <1>1, <1>2 DEF Least, Left
  <1>4. PICK p : p = OffsetPage(e, s, pos, limit)
    OBVIOUS
  <1>5. /\ p.rows = [k \in 1..n |-> [exec |-> e, n |-> pos + k]]
        /\ p.truncated = (Left(s, pos) > limit) /\ p.cursor = FALSE /\ p.none = FALSE
    BY <1>2, <1>4 DEF OffsetPage, PageFrom
  <1>6. p.rows = Stretch(e, pos + 1, pos + n) /\ Len(p.rows) = n
    <2>1. PICK b : b = Stretch(e, pos + 1, pos + n)
      OBVIOUS
    <2>2. b = [k \in 1..n |-> [exec |-> e, n |-> pos + k]]
      <3>1. (pos + n) - (pos + 1) + 1 = n /\ \A k \in 1..n : (pos + 1) + k - 1 = pos + k
        OBVIOUS
      <3> QED BY <2>1, <3>1 DEF Stretch
    <2>3. Len(b) = n
      BY <2>1, StretchLen
    <2> QED BY <1>5, <2>1, <2>2, <2>3
  <1>7. p.truncated \in BOOLEAN
    BY <1>5
  <1> QED BY <1>3, <1>4, <1>5, <1>6, <1>7

(* Either, at the start of page i, is the page at i.                         *)
LEMMA PageAtIs ==
  ASSUME ConstantsAssumption, NEW e \in DOMAIN execs, NEW s \in Sqls, execs[e] = s,
         NEW i \in Nat, From(i) <= Rows[s],
         NEW p, NEW n \in Nat, p.truncated \in BOOLEAN,
         p.rows = Stretch(e, From(i) + 1, From(i) + n), From(i) + n <= Rows[s],
         IF p.truncated THEN n = PageSize ELSE From(i) + n = Rows[s] /\ n <= PageSize
  PROVE  GoodPage(p, e, s, i)
  <1>1. /\ From(i) \in Nat /\ From(i + 1) = From(i) + PageSize /\ PageSize \in Nat
        /\ Rows[s] \in Nat
    BY FromIs DEF ConstantsAssumption
  <1>2. From(i) + n = Least(From(i + 1), Rows[s])
    BY <1>1 DEF Least
  <1>3. IF p.truncated THEN From(i + 1) <= Rows[s] ELSE Rows[s] <= From(i + 1)
    BY <1>1
  <1>4. p.rows = PageRows(e, s, i)
    BY <1>2 DEF PageRows
  <1> QED BY <1>3, <1>4 DEF GoodPage

(* ... of an execution that has just begun.                                  *)
LEMMA PageAtIsNext ==
  ASSUME ConstantsAssumption, NEW e \in DOMAIN execs', NEW s \in Sqls, execs'[e] = s,
         NEW i \in Nat, From(i) <= Rows[s],
         NEW p, NEW n \in Nat, p.truncated \in BOOLEAN,
         p.rows = Stretch(e, From(i) + 1, From(i) + n), From(i) + n <= Rows[s],
         IF p.truncated THEN n = PageSize ELSE From(i) + n = Rows[s] /\ n <= PageSize
  PROVE  GoodPage(p, e, s, i)'
  <1>1. /\ From(i) \in Nat /\ From(i + 1) = From(i) + PageSize /\ PageSize \in Nat
        /\ Rows[s] \in Nat
    BY FromIs DEF ConstantsAssumption
  <1>2. From(i) + n = Least(From(i + 1), Rows[s])
    BY <1>1 DEF Least
  <1>3. IF p.truncated THEN From(i + 1) <= Rows[s] ELSE Rows[s] <= From(i + 1)
    BY <1>1
  <1>4. p.rows = PageRows(e, s, i)
    BY <1>2 DEF PageRows
  <1> QED BY <1>3, <1>4 DEF GoodPage, PageRows, Stretch, From, Least

(* The pages kept of one execution, put together: its first rows.            *)
LEMMA HeldIs ==
  ASSUME ConstantsAssumption, NEW e \in Nat, NEW s \in Sqls, NEW pages \in Seq(Page), pages # <<>>,
         \A k \in DOMAIN pages : GoodPage(pages[k], e, s, k - 1)
  PROVE  HeldRows(pages) = Stretch(e, 1, Least(From(Len(pages)), Rows[s]))
  <1>1. PICK L \in Nat : L = Len(pages) /\ DOMAIN pages = 1..L /\ L # 0
    BY LenProperties, EmptySeq
  <1>2. PICK rows : rows = [k \in DOMAIN pages |-> pages[k].rows]
    OBVIOUS
  <1>3. rows \in Seq(Seq(Row)) /\ Len(rows) = L
    <2>1. \A k \in 1..L : pages[k] \in Page
      BY <1>1, ElementOfSeq
    <2>2. \A k \in 1..L : pages[k].rows \in Seq(Row)
      BY <2>1 DEF Page
    <2> QED BY <1>1, <1>2, <2>2
  <1> DEFINE f == CHOOSE g : IsFlat(g, rows, Len(rows))
             P == {n \in Nat : n \in 1..L => f[n] = Stretch(e, 1, Least(From(n), Rows[s]))}
  <1>4. IsFlat(f, rows, L)
    BY <1>3, FlatExists
  <1>5. HeldRows(pages) = f[L]
    <2>1. HeldRows(pages) = FlattenSeq(rows)
      BY <1>2 DEF HeldRows
    <2>2. FlattenSeq(rows) = IF Len(rows) = 0 THEN rows ELSE f[Len(rows)]
      BY DEF FlattenSeq, IsFlat
    <2> QED BY <1>1, <1>3, <2>1, <2>2
  <1> HIDE DEF f
  <1>6. Rows[s] \in Nat /\ PageSize \in Nat
    BY DEF ConstantsAssumption
  <1>7. ASSUME NEW n \in Nat, n + 1 \in 1..L
        PROVE  /\ From(n) \in Nat /\ From(n + 1) = From(n) + PageSize /\ From(n) <= Rows[s]
               /\ rows[n + 1] = Stretch(e, From(n) + 1, Least(From(n + 1), Rows[s]))
    <2>1. (n + 1) - 1 = n /\ n + 1 \in DOMAIN pages
      BY <1>1, <1>7
    <2>2. GoodPage(pages[n + 1], e, s, n)
      BY <2>1
    <2>3. rows[n + 1] = pages[n + 1].rows
      BY <1>2, <2>1
    <2>4. From(n) \in Nat /\ From(n + 1) = From(n) + PageSize
      BY FromIs
    <2> QED BY <2>2, <2>3, <2>4 DEF GoodPage, PageRows
  <1>8. 0 \in P
    BY <1>1
  <1>9. ASSUME NEW n \in Nat, n \in P PROVE n + 1 \in P
    <2> SUFFICES ASSUME n + 1 \in 1..L PROVE f[n + 1] = Stretch(e, 1, Least(From(n + 1), Rows[s]))
      OBVIOUS
    <2>1. f[n + 1] = IF n + 1 = 1 THEN rows[n + 1] ELSE f[(n + 1) - 1] \o rows[n + 1]
      <3>1. PICK g, q, i : g = f /\ q = rows /\ i = n + 1
        OBVIOUS
      <3>2. IsFlat(g, q, L) /\ i \in 1..L
        BY <1>4, <3>1
      <3>3. g[i] = IF i = 1 THEN q[i] ELSE g[i - 1] \o q[i]
        BY <3>2 DEF IsFlat
      <3> QED BY <3>1, <3>3
    <2>2. /\ From(n) \in Nat /\ From(n + 1) = From(n) + PageSize /\ From(n) <= Rows[s]
          /\ rows[n + 1] = Stretch(e, From(n) + 1, Least(From(n + 1), Rows[s]))
      BY <1>7
    <2>3. CASE n = 0
      <3>1. From(n) = 0 /\ n + 1 = 1
        BY <1>6, <2>3 DEF From
      <3> QED BY <2>1, <2>2, <2>3, <3>1
    <2>4. CASE n # 0
      <3>1. n \in 1..L /\ (n + 1) - 1 = n /\ n + 1 # 1
        BY <2>4
      <3>2. f[n] = Stretch(e, 1, From(n))
        BY <1>6, <1>9, <2>2, <3>1 DEF Least
      <3>3. PICK a \in Nat : a = From(n)
        BY <2>2
      <3>4. PICK m \in Nat : a + m = Least(From(n + 1), Rows[s])
        <4>1. PICK b \in Nat : b = Least(From(n + 1), Rows[s]) /\ a <= b
          BY <1>6, <2>2, <3>3 DEF Least
        <4>2. b - a \in Nat /\ a + (b - a) = b
          BY <4>1
        <4> QED BY <4>1, <4>2
      <3>5. Stretch(e, 1, a) \o Stretch(e, a + 1, a + m) = Stretch(e, 1, a + m)
        BY StretchJoins
      <3>6. f[n + 1] = Stretch(e, 1, a) \o Stretch(e, a + 1, a + m)
        BY <2>1, <2>2, <3>1, <3>2, <3>3, <3>4
      <3> QED BY <3>4, <3>5, <3>6
    <2> QED BY <2>3, <2>4
  <1> HIDE DEF P
  <1>10. \A n \in Nat : n \in P
    BY <1>8, <1>9, InductionOnSets
  <1>11. f[L] = Stretch(e, 1, Least(From(L), Rows[s]))
    BY <1>1, <1>10 DEF P
  <1> QED BY <1>1, <1>5, <1>11

----------------------------------------------------------------------------
(* A step is about one connection: elsewhere the cursors, the tabs and the   *)
(* walks stay as they are, but for an export that is told to stop.           *)
Alike(V, W) ==
  /\ V.pc = W.pc /\ V.conn = W.conn /\ V.sql = W.sql /\ V.rows = W.rows /\ V.open = W.open
  /\ V.end = W.end /\ V.tab = W.tab /\ V.res = W.res /\ V.skipped = W.skipped
Longer == \A e \in DOMAIN execs : e \in DOMAIN execs' /\ execs'[e] = execs[e]
Elsewhere(c) ==
  /\ Longer
  /\ \A d \in Conns \ {c} : cur'[d] = cur[d]
  /\ \A t \in Tabs : ConnOf[t] # c => tab'[t] = tab[t]
  /\ \A w \in Walkers :
       IF walk'[w].conn = c THEN walk[w].conn = c \/ walk[w].pc = "idle"
                            ELSE Alike(walk'[w], walk[w])

(* What is known of the executions stays known.                              *)
LEMMA PageStays ==
  ASSUME Longer, NEW p, NEW e, NEW s, NEW i, GoodPage(p, e, s, i) PROVE GoodPage(p, e, s, i)'
  BY DEF Longer, GoodPage, PageRows, Stretch, From, Least

LEMMA ShowsStays == ASSUME Longer, NEW T, Shows(T) PROVE Shows(T)'
  <1>1. T.sql \in Sqls => From(T.offset)' <= Rows[T.sql]
    BY DEF Shows, From
  <1>2. ASSUME ~T.shown.none PROVE \E e \in DOMAIN execs' : GoodPage(T.shown, e, T.sql, T.offset)'
    <2>1. PICK e \in DOMAIN execs : GoodPage(T.shown, e, T.sql, T.offset)
      BY <1>2 DEF Shows
    <2> QED BY <2>1, PageStays DEF Longer
  <1>3. \E e \in DOMAIN execs' \cup {0} :
          \A k \in DOMAIN T.pages : ~T.pages[k].none => GoodPage(T.pages[k], e, T.sql, k - 1)'
    <2>1. PICK e \in DOMAIN execs \cup {0} :
            \A k \in DOMAIN T.pages : ~T.pages[k].none => GoodPage(T.pages[k], e, T.sql, k - 1)
      BY DEF Shows
    <2>2. e \in DOMAIN execs' \cup {0}
      BY <2>1 DEF Longer
    <2>3. \A k \in DOMAIN T.pages : ~T.pages[k].none => GoodPage(T.pages[k], e, T.sql, k - 1)'
      BY <2>1, PageStays
    <2> QED BY <2>2, <2>3
  <1> QED BY <1>1, <1>2, <1>3 DEF Shows

LEMMA WholeStays ==
  ASSUME Longer, NEW rows, NEW s, NEW k, Whole(rows, s, k) PROVE Whole(rows, s, k)'
  BY DEF Longer, Whole, Stretch

(* A cursor is over a statement that was executed.                           *)
Over(C) == C = NoCursor \/ C.exec \in DOMAIN execs
LEMMA CursorIs == ASSUME Types, NEW c \in Conns PROVE Over(cur[c])
  BY DEF Types, Cursors, Over

LEMMA WalkStays ==
  ASSUME Longer, NEW C, Over(C), NEW V, NEW W, Alike(V, W), WalkAt(W, C) PROVE WalkAt(V, C)'
  <1>1. Behind(C, W.rows, W.sql) => Behind(C, V.rows, V.sql)'
    BY DEF Alike, Behind, Longer, Over, Stretch, NoCursor
  <1>2. Whole(W.rows, W.sql, W.skipped) => Whole(V.rows, V.sql, V.skipped)'
    BY WholeStays DEF Alike
  <1>3. Whole(W.res.rows, W.sql, W.skipped) => Whole(V.res.rows, V.sql, V.skipped)'
    BY WholeStays DEF Alike
  <1> QED BY <1>1, <1>2, <1>3 DEF WalkAt, Alike

LEMMA TabCursorStays ==
  ASSUME Longer, NEW T, NEW C, Over(C), TabCursor(T, C) PROVE TabCursor(T, C)'
  <1> SUFFICES ASSUME C # NoCursor
               PROVE  /\ execs'[C.exec] = T.sql /\ C.pos = From(Len(T.pages))
                      /\ \A k \in DOMAIN T.pages :
                           ~T.pages[k].none /\ GoodPage(T.pages[k], C.exec, T.sql, k - 1)'
    BY DEF TabCursor, NoCursor, From
  <1> QED BY PageStays DEF TabCursor, Longer, Over

(* A step about connection c leaves what is known of the others.             *)
LEMMA LocalStays ==
  ASSUME Types, NEW c, Elsewhere(c), NEW d \in Conns \ {c}, Local(d)
  PROVE  Local(d)'
  <1>1. Longer /\ cur'[d] = cur[d] /\ Over(cur[d])
    BY CursorIs DEF Elsewhere
  <1>2. \A t \in Tabs : ConnOf[t] = d => tab'[t] = tab[t]
    BY DEF Elsewhere
  <1>3. ASSUME NEW w \in Walkers, On(w, d)' PROVE Alike(walk'[w], walk[w]) /\ On(w, d)
    BY <1>3 DEF Elsewhere, On, Alike
  <1>4. ASSUME NEW w \in Walkers, On(w, d), ~On(w, d)' PROVE walk[w].pc = "idle"
    BY <1>4 DEF Elsewhere, On, Alike
  <1>5. \A w \in Walkers : On(w, d)' /\ Busy(w)' => On(w, d) /\ Busy(w)
    BY <1>3 DEF Busy, Working, Alike
  <1>6. cur'[d] # NoCursor => cur'[d].pos <= Rows[execs'[cur'[d].exec]]
    BY <1>1 DEF Local, Longer, Over
  <1>7. ASSUME NEW w \in Walkers, On(w, d)' PROVE WalkAt(walk[w], cur[d])'
    <2>1. PICK C, V : C = cur[d] /\ V = walk'[w]
      OBVIOUS
    <2>2. PICK W : W = walk[w]
      OBVIOUS
    <2>3. WalkAt(W, C) /\ Alike(V, W) /\ Over(C)
      BY <1>1, <1>3, <1>7, <2>1, <2>2 DEF Local
    <2>4. WalkAt(V, C)'
      BY <1>1, <2>3, WalkStays
    <2>5. walk'[w] = V /\ cur'[d] = C
      BY <1>1, <2>1
    <2>6. Behind(C, V.rows, V.sql)' => Behind(cur[d], walk[w].rows, walk[w].sql)'
      BY <2>5 DEF Behind, NoCursor, Stretch
    <2>7. Whole(V.rows, V.sql, V.skipped)' => Whole(walk[w].rows, walk[w].sql, walk[w].skipped)'
      BY <2>5 DEF Whole, Stretch
    <2>8. Whole(V.res.rows, V.sql, V.skipped)' =>
            Whole(walk[w].res.rows, walk[w].sql, walk[w].skipped)'
      BY <2>5 DEF Whole, Stretch
    <2> QED BY <2>4, <2>5, <2>6, <2>7, <2>8 DEF WalkAt
  <1>8. ASSUME NEW t \in Tabs, ConnOf[t] = d
        PROVE  /\ Shows(tab[t])'
               /\ \A w \in Walkers : On(w, d)' => ~(tab'[t].loading /\ Busy(w)')
               /\ \A w \in Walkers : On(w, d)' /\ walk'[w].pc = "asking" /\ walk'[w].tab = t =>
                                     walk'[w].sql = tab'[t].sql
               /\ \/ ~tab'[t].cursor
                  \/ \E w \in Walkers : On(w, d)' /\ walk'[w].pc \in Through
                  \/ TabCursor(tab[t], cur[d])'
    <2>1. PICK T, C : T = tab[t] /\ C = cur[d]
      OBVIOUS
    <2>2. tab'[t] = T /\ cur'[d] = C /\ Over(C)
      BY <1>1, <1>2, <1>8, <2>1
    <2>3. /\ Shows(T)
          /\ \A w \in Walkers : On(w, d) => ~(T.loading /\ Busy(w))
          /\ \/ ~T.cursor
             \/ \E w \in Walkers : On(w, d) /\ walk[w].pc \in Through
             \/ TabCursor(T, C)
      BY <1>8, <2>1 DEF Local
    <2>4. Shows(T)'
      BY <1>1, <2>3, ShowsStays
    <2>5. Shows(tab[t])'
      BY <2>2, <2>4 DEF Shows, GoodPage
    <2>6. \A w \in Walkers : On(w, d)' => ~(tab'[t].loading /\ Busy(w)')
      BY <1>5, <2>2, <2>3
    <2>7. ASSUME NEW w \in Walkers, On(w, d), walk[w].pc \in Through
          PROVE  On(w, d)' /\ walk'[w].pc \in Through
      BY <1>3, <1>4, <2>7 DEF Through, Alike
    <2>8. TabCursor(T, C) => TabCursor(T, C)'
      BY <1>1, <2>2, TabCursorStays
    <2>9. TabCursor(T, C)' => TabCursor(tab[t], cur[d])'
      BY <2>2 DEF TabCursor, GoodPage, PageRows, Stretch, From, Least, NoCursor
    <2>10. ASSUME NEW w \in Walkers, On(w, d)', walk'[w].pc = "asking", walk'[w].tab = t
           PROVE  walk'[w].sql = tab'[t].sql
      <3>1. On(w, d) /\ walk[w].pc = "asking" /\ walk[w].tab = t /\ walk'[w].sql = walk[w].sql
        BY <1>3, <2>10 DEF Alike
      <3> QED BY <1>8, <2>1, <2>2, <3>1 DEF Local
    <2> QED BY <2>2, <2>3, <2>5, <2>6, <2>7, <2>8, <2>9, <2>10
  <1>9. \A v, w \in Walkers : On(v, d)' /\ On(w, d)' /\ Busy(v)' /\ Busy(w)' => v = w
    BY <1>5 DEF Local
  <1> QED BY <1>6, <1>7, <1>8, <1>9 DEF Local

LEMMA FitsStays ==
  ASSUME NEW c, Elsewhere(c), NEW r, Fits(r), r.conn # c,
         r.for \in OfTab => r.who \in Tabs, r.for \in OfWalk => r.who \in Walkers
  PROVE  Fits(r)'
  <1>1. CASE r.for \in OfTab
    <2>1. tab'[r.who] = tab[r.who]
      BY <1>1 DEF Fits, Elsewhere
    <2> QED BY <1>1, <2>1 DEF Fits, OfTab, OfWalk, From
  <1>2. CASE r.for \in OfWalk
    <2>1. walk[r.who].conn # c /\ walk[r.who].pc \notin {"idle", "asking"}
      BY <1>2 DEF Fits, OfWalk, WaitsAt
    <2>2. Alike(walk'[r.who], walk[r.who])
      BY <1>2, <2>1 DEF Elsewhere
    <2> QED BY <1>2, <2>2 DEF Fits, OfTab, OfWalk, From, Alike
  <1>3. CASE r.for \notin OfTab \cup OfWalk
    BY <1>3 DEF Fits, OfTab, OfWalk
  <1> QED BY <1>1, <1>2, <1>3

(* A request that stays is of another connection; the new one is of c.       *)
Requeues(c) ==
  /\ \A i \in DOMAIN queue' : \E r :
       /\ r = queue'[i]
       /\ \/ r.conn = c /\ Fits(r)'
          \/ r.conn # c /\ \E j \in DOMAIN queue : r = queue[j]
  /\ OnePerConn(queue')

LEMMA StepIs ==
  ASSUME JInv, IInv', NEW c \in Conns, Elsewhere(c), Local(c)', Requeues(c)
  PROVE  JInv'
  <1>1. \A d \in Conns : Local(d)'
    BY LocalStays DEF JInv, IInv
  <1>2. ASSUME NEW i \in DOMAIN queue' PROVE Fits(queue[i])'
    <2>1. PICK r : /\ r = queue'[i]
                   /\ \/ r.conn = c /\ Fits(r)'
                      \/ r.conn # c /\ \E j \in DOMAIN queue : r = queue[j]
      BY DEF Requeues
    <2>2. Fits(r)'
      <3>1. CASE r.conn = c
        BY <2>1, <3>1
      <3>2. CASE r.conn # c
        <4>1. PICK j \in DOMAIN queue : r = queue[j]
          BY <2>1, <3>2
        <4>2. Fits(r) /\ r \in Sound
          BY <4>1, ElementOfSeq, LenProperties DEF JInv, IInv, Types
        <4> QED BY <3>2, <4>2, FitsStays DEF Sound
      <3> QED BY <3>1, <3>2
    <2> QED BY <2>1, <2>2 DEF Fits, From
  <1>3. OnePerConn(queue)'
    BY DEF Requeues, OnePerConn
  <1> QED BY <1>1, <1>2, <1>3 DEF JInv

(* A step that changes nothing but who is told to stop.                      *)
LEMMA NothingMoves ==
  ASSUME JInv, IInv', UNCHANGED <<tab, queue, cur, execs>>,
         \A w \in Walkers : Alike(walk'[w], walk[w])
  PROVE  JInv'
  <1>1. PICK c : c \notin Conns
    <2> DEFINE R == {y \in Conns : y \notin y}
    <2>1. R \notin Conns
      OBVIOUS
    <2> QED BY <2>1
  <1>2. Elsewhere(c)
    <2>1. \A w \in Walkers : walk'[w].conn # c
      BY <1>1 DEF IInv, Types, Walk
    <2> QED BY <2>1 DEF Elsewhere, Longer
  <1>3. ASSUME NEW d \in Conns PROVE Local(d)'
    BY <1>1, <1>2, LocalStays DEF JInv, IInv
  <1>4. ASSUME NEW i \in DOMAIN queue' PROVE Fits(queue[i])'
    <2>1. PICK r : r = queue[i]
      OBVIOUS
    <2>2. r \in Sound /\ Fits(r)
      BY <2>1, ElementOfSeq, LenProperties DEF JInv, IInv, Types
    <2>3. r.conn # c
      BY <1>1, <2>2 DEF Sound, Requests
    <2>4. Fits(r)'
      BY <1>2, <2>2, <2>3, FitsStays DEF Sound
    <2> QED BY <2>1, <2>4 DEF Fits, From
  <1>5. OnePerConn(queue)'
    BY DEF JInv, OnePerConn
  <1> QED BY <1>3, <1>4, <1>5 DEF JInv

----------------------------------------------------------------------------
(* The queue without the requests of connection c, and the queue after a     *)
(* step that may send one.                                                  *)
Others(q, c) ==
  /\ q \in Seq(Requests) /\ OnePerConn(q)
  /\ \A i \in DOMAIN q : q[i].conn # c /\ \E j \in DOMAIN queue : q[i] = queue[j]

LEMMA AloneQueue ==
  ASSUME JInv, Patient, NEW c \in Conns, Alone(c) PROVE Others(queue, c)
  <1>1. queue \in Seq(Requests)
    BY SeqMonotonic DEF JInv, IInv, Types, Sound
  <1>2. ASSUME NEW i \in DOMAIN queue PROVE queue[i].conn # c
    <2>1. PICK r : r = queue[i]
      OBVIOUS
    <2>2. r \in Sound /\ Fits(r)
      BY <2>1, ElementOfSeq, LenProperties DEF JInv, IInv, Types
    <2>3. CASE r.for \in OfTab
      BY <2>1, <2>2, <2>3 DEF Sound, Fits, Alone
    <2>4. CASE r.for \in OfWalk
      BY <2>1, <2>2, <2>4 DEF Sound, Fits, Alone, Busy, Working, OfWalk, WaitsAt
    <2> QED BY <2>2, <2>3, <2>4 DEF Sound, Requests
  <1> QED BY <1>1, <1>2 DEF Others, JInv

LEMMA AnsweredQueue ==
  ASSUME JInv, queue # <<>> PROVE Others(Tail(queue), Head(queue).conn)
  <1>1. queue \in Seq(Requests)
    BY SeqMonotonic DEF JInv, IInv, Types, Sound
  <1>2. PICK n, q : /\ n \in Nat /\ n = Len(queue) /\ n # 0 /\ DOMAIN queue = 1..n
                    /\ q = Tail(queue) /\ q \in Seq(Requests) /\ DOMAIN q = 1..(n - 1)
                    /\ Head(queue) = queue[1] /\ \A i \in 1..(n - 1) : q[i] = queue[i + 1]
    <2>1. PICK n \in Nat : n = Len(queue) /\ DOMAIN queue = 1..n
      BY <1>1, LenProperties
    <2>2. n # 0
      BY <1>1, <2>1, EmptySeq
    <2>3. PICK q : q = Tail(queue)
      OBVIOUS
    <2>4. /\ q \in Seq(Requests) /\ Len(q) = n - 1 /\ Head(queue) = queue[1]
          /\ \A i \in 1..(n - 1) : q[i] = queue[i + 1]
      BY <1>1, <2>1, <2>3, HeadTailProperties
    <2>5. DOMAIN q = 1..(n - 1)
      BY <2>4, LenProperties
    <2> QED BY <2>1, <2>2, <2>3, <2>4, <2>5
  <1>3. \A i \in 1..(n - 1) : i + 1 \in 1..n /\ i + 1 # 1
    BY <1>2
  <1>4. OnePerConn(q)
    BY <1>2, <1>3 DEF JInv, OnePerConn
  <1>5. \A i \in 1..(n - 1) : q[i].conn # queue[1].conn
    BY <1>2, <1>3 DEF JInv, OnePerConn
  <1> QED BY <1>2, <1>3, <1>4, <1>5 DEF Others

LEMMA QueueNext ==
  ASSUME NEW q, NEW c, Others(q, c),
         \/ queue' = q
         \/ \E r \in Requests : r.conn = c /\ Fits(r)' /\ queue' = Append(q, r)
  PROVE  Requeues(c)
  <1>1. CASE queue' = q
    BY <1>1 DEF Others, Requeues
  <1>2. CASE \E r \in Requests : r.conn = c /\ Fits(r)' /\ queue' = Append(q, r)
    <2>1. PICK r \in Requests : r.conn = c /\ Fits(r)' /\ queue' = Append(q, r)
      BY <1>2
    <2>p. PICK p : p = Append(q, r) /\ p = queue'
      BY <2>1
    <2>2. PICK n \in Nat :
            /\ n = Len(q) /\ DOMAIN q = 1..n /\ p = queue'
            /\ DOMAIN p = 1..(n + 1) /\ p[n + 1] = r /\ \A i \in 1..n : p[i] = q[i]
      BY <2>1, <2>p, AppendProperties, LenProperties DEF Others
    <2>3. \A i \in 1..(n + 1) : i = n + 1 \/ i \in 1..n
      OBVIOUS
    <2>4. ASSUME NEW i \in DOMAIN p
          PROVE  \E x : /\ x = p[i]
                        /\ \/ x.conn = c /\ Fits(x)'
                           \/ x.conn # c /\ \E j \in DOMAIN queue : x = queue[j]
      <3>1. CASE i = n + 1
        BY <2>1, <2>2, <3>1
      <3>2. CASE i \in 1..n
        BY <2>2, <3>2 DEF Others
      <3> QED BY <2>2, <2>3, <3>1, <3>2
    <2>5. OnePerConn(p)
      BY <2>1, <2>2, <2>3 DEF Others, OnePerConn
    <2> QED BY <2>2, <2>4, <2>5 DEF Requeues
  <1> QED BY <1>1, <1>2

----------------------------------------------------------------------------
(* A step of the tab t, or of the walk w, on its connection, whose cursor    *)
(* becomes C.                                                               *)
Moves(c, C) ==
  /\ Longer /\ cur' \in [Conns -> Cursors'] /\ cur'[c] = C
  /\ \A d \in Conns \ {c} : cur'[d] = cur[d]
  /\ C # NoCursor => C.pos <= Rows[execs'[C.exec]]

(* A walk that is not reading does not look at the cursor.                   *)
LEMMA RestingWalk ==
  ASSUME Longer, NEW V, NEW W, Alike(V, W), W.pc \notin {"first", "more", "rest", "closing"},
         NEW B, WalkAt(W, B), NEW C
  PROVE  WalkAt(V, C)'
  <1>1. Whole(W.rows, W.sql, W.skipped) => Whole(V.rows, V.sql, V.skipped)'
    BY WholeStays DEF Alike
  <1>2. Whole(W.res.rows, W.sql, W.skipped) => Whole(V.res.rows, V.sql, V.skipped)'
    BY WholeStays DEF Alike
  <1> QED BY <1>1, <1>2 DEF WalkAt, Alike

LEMMA ShowsAlike ==
  ASSUME NEW T, NEW U, U.sql = T.sql, U.offset = T.offset, U.pages = T.pages, U.shown = T.shown,
         Shows(T)'
  PROVE  Shows(U)'
  BY DEF Shows

LEMMA ShownThen ==
  ASSUME NEW t, NEW T, tab'[t] = T, Shows(T)' PROVE Shows(tab[t])'
  <1>1. tab'[t].sql \in Sqls => From(tab[t].offset)' <= Rows[tab'[t].sql]
    BY DEF Shows, From
  <1>3. ~T.shown.none => \E e \in DOMAIN execs' : GoodPage(tab[t].shown, e, tab[t].sql, tab[t].offset)'
    <2> SUFFICES ASSUME ~T.shown.none
                 PROVE  \E e \in DOMAIN execs' : GoodPage(tab[t].shown, e, tab[t].sql, tab[t].offset)'
      OBVIOUS
    <2>1. PICK e \in DOMAIN execs' : GoodPage(T.shown, e, T.sql, T.offset)'
      BY DEF Shows
    <2>2. GoodPage(tab[t].shown, e, tab[t].sql, tab[t].offset)'
      BY <2>1 DEF GoodPage, PageRows, Stretch, From, Least
    <2> QED BY <2>1, <2>2
  <1>4. \E e \in DOMAIN execs' \cup {0} :
          \A k \in DOMAIN T.pages : ~T.pages[k].none => GoodPage(tab[t].pages[k], e, tab[t].sql, k - 1)'
    <2>1. PICK e \in DOMAIN execs' \cup {0} :
            \A k \in DOMAIN T.pages : ~T.pages[k].none => GoodPage(T.pages[k], e, T.sql, k - 1)'
      BY DEF Shows
    <2>2. ASSUME NEW k \in DOMAIN T.pages, ~T.pages[k].none
          PROVE  GoodPage(tab[t].pages[k], e, tab[t].sql, k - 1)'
      <3>1. GoodPage(T.pages[k], e, T.sql, k - 1)'
        BY <2>1, <2>2
      <3> QED BY <3>1 DEF GoodPage, PageRows, Stretch, From, Least
    <2> QED BY <2>1, <2>2
  <1> QED BY <1>1, <1>3, <1>4 DEF Shows

LEMMA CursorThen ==
  ASSUME NEW t, NEW T, tab'[t] = T, NEW c, NEW C, cur'[c] = C, TabCursor(T, C)'
  PROVE  TabCursor(tab[t], cur[c])'
  BY DEF TabCursor, GoodPage, PageRows, Stretch, From, Least, NoCursor

LEMMA WalkThen ==
  ASSUME NEW w, NEW V, walk'[w] = V, NEW c, NEW C, cur'[c] = C, WalkAt(V, C)'
  PROVE  WalkAt(walk[w], cur[c])'
  <1>1. Behind(C, V.rows, V.sql)' => Behind(cur[c], walk[w].rows, walk[w].sql)'
    BY DEF Behind, NoCursor, Stretch
  <1>2. Whole(V.rows, V.sql, V.skipped)' => Whole(walk[w].rows, walk[w].sql, walk[w].skipped)'
    BY DEF Whole, Stretch
  <1>3. Whole(V.res.rows, V.sql, V.skipped)' =>
          Whole(walk[w].res.rows, walk[w].sql, walk[w].skipped)'
    BY DEF Whole, Stretch
  <1> QED BY <1>1, <1>2, <1>3 DEF WalkAt

LEMMA TabMoves ==
  ASSUME OwnConns, ConstantsAssumption, JInv, NEW t \in Tabs, NEW T,
         \A w \in Walkers : On(w, ConnOf[t]) => ~Busy(w),
         UNCHANGED walk, tab' = [tab EXCEPT ![t] = T],
         NEW C, Moves(ConnOf[t], C), Shows(T)', ~T.cursor \/ TabCursor(T, C)'
  PROVE  Elsewhere(ConnOf[t]) /\ Local(ConnOf[t])'
  <1>1. PICK c \in Conns : c = ConnOf[t]
    BY Sizes
  <1>2. /\ Longer /\ cur'[c] = C /\ tab'[t] = T /\ \A u \in Tabs \ {t} : tab'[u] = tab[u]
        /\ \A d \in Conns \ {c} : cur'[d] = cur[d]
    BY <1>1 DEF Moves, JInv, IInv, Types
  <1>3. \A u \in Tabs : ConnOf[u] = c => u = t
    BY <1>1 DEF OwnConns
  <1>4. Elsewhere(c)
    BY <1>1, <1>2 DEF Elsewhere, Alike
  <1>5. cur'[c] # NoCursor => cur'[c].pos <= Rows[execs'[cur'[c].exec]]
    BY <1>1 DEF Moves
  <1>6. ASSUME NEW w \in Walkers, On(w, c)' PROVE WalkAt(walk[w], cur[c])'
    <2>1. PICK W, B : W = walk[w] /\ B = cur[c]
      OBVIOUS
    <2>2. On(w, c) /\ ~Busy(w)
      BY <1>1, <1>6 DEF On
    <2>3. WalkAt(W, B) /\ W.pc \notin {"first", "more", "rest", "closing"} /\ Alike(W, W)
      BY <2>1, <2>2 DEF JInv, Local, Busy, Working, Alike
    <2>4. WalkAt(W, C)'
      BY <1>2, <2>3, RestingWalk
    <2>5. walk'[w] = W
      BY <2>1
    <2> QED BY <1>2, <2>4, <2>5, WalkThen
  <1>7. \A w \in Walkers : On(w, c)' => ~Busy(w)'
    BY <1>1 DEF On, Busy, Working
  <1>8. Shows(tab[t])'
    BY <1>2, ShownThen
  <1>9. ~tab'[t].cursor \/ TabCursor(tab[t], cur[c])'
    BY <1>2, CursorThen
  <1>10. \A w \in Walkers : On(w, c)' => walk'[w].pc # "asking"
    BY <1>7 DEF Busy
  <1>11. Local(c)'
    BY <1>3, <1>5, <1>6, <1>7, <1>8, <1>9, <1>10 DEF Local
  <1> QED BY <1>1, <1>4, <1>11

(* A tab on the connection of a walk that becomes V.                         *)
Spared(t, V, C) ==
  \E T \in Tab :
    /\ T = tab[t] /\ ~T.loading /\ (V.pc = "asking" /\ V.tab = t => V.sql = T.sql)
    /\ \/ tab'[t] = T /\ (~T.cursor \/ V.pc \in Through \/ TabCursor(T, C)')
       \/ tab'[t] = [T EXCEPT !.cursor = FALSE]

LEMMA WalkMoves ==
  ASSUME ConstantsAssumption, JInv, NEW c \in Conns, NEW w \in Walkers, NEW V, V.conn = c,
         On(w, c) \/ walk[w].pc = "idle", walk'[w] = V,
         \A v \in Walkers \ {w} : Alike(walk'[v], walk[v]) /\ (On(v, c) => ~Busy(v)),
         NEW C, Moves(c, C), WalkAt(V, C)',
         \A t \in Tabs : ConnOf[t] # c => tab'[t] = tab[t],
         \A t \in Tabs : ConnOf[t] = c => Spared(t, V, C)
  PROVE  Elsewhere(c) /\ Local(c)'
  <1>1. /\ Longer /\ cur'[c] = C /\ \A d \in Conns \ {c} : cur'[d] = cur[d]
    BY DEF Moves
  <1>2. Elsewhere(c)
    <2>1. ASSUME NEW v \in Walkers
          PROVE  IF walk'[v].conn = c THEN walk[v].conn = c \/ walk[v].pc = "idle"
                                      ELSE Alike(walk'[v], walk[v])
      BY DEF Alike, On
    <2> QED BY <1>1, <2>1 DEF Elsewhere
  <1>3. cur'[c] # NoCursor => cur'[c].pos <= Rows[execs'[cur'[c].exec]]
    BY DEF Moves
  <1>4. ASSUME NEW v \in Walkers, On(v, c)' PROVE WalkAt(walk[v], cur[c])'
    <2>1. CASE v = w
      BY <1>1, <2>1, WalkThen
    <2>2. CASE v # w
      <3>1. PICK W, B, U : W = walk[v] /\ B = cur[c] /\ U = walk'[v]
        OBVIOUS
      <3>2. Alike(U, W) /\ On(v, c) /\ ~Busy(v)
        BY <1>4, <2>2, <3>1 DEF On, Alike
      <3>3. WalkAt(W, B) /\ W.pc \notin {"first", "more", "rest", "closing"}
        BY <3>1, <3>2 DEF JInv, Local, Busy, Working
      <3>4. WalkAt(U, C)'
        BY <1>1, <3>2, <3>3, RestingWalk
      <3>5. walk'[v] = U
        BY <3>1
      <3> QED BY <1>1, <3>4, <3>5, WalkThen
    <2> QED BY <2>1, <2>2
  <1>5. ASSUME NEW v \in Walkers, On(v, c)', Busy(v)' PROVE v = w
    BY <1>5 DEF On, Busy, Working, Alike
  <1>6. ASSUME NEW t \in Tabs, ConnOf[t] = c
        PROVE  /\ Shows(tab[t])' /\ ~tab'[t].loading
               /\ \A v \in Walkers : On(v, c)' /\ walk'[v].pc = "asking" /\ walk'[v].tab = t =>
                                     walk'[v].sql = tab'[t].sql
               /\ \/ ~tab'[t].cursor
                  \/ \E v \in Walkers : On(v, c)' /\ walk'[v].pc \in Through
                  \/ TabCursor(tab[t], cur[c])'
    <2>1. PICK T \in Tab :
            /\ T = tab[t] /\ ~T.loading /\ (V.pc = "asking" /\ V.tab = t => V.sql = T.sql)
            /\ \/ tab'[t] = T /\ (~T.cursor \/ V.pc \in Through \/ TabCursor(T, C)')
               \/ tab'[t] = [T EXCEPT !.cursor = FALSE]
      BY <1>6 DEF Spared
    <2>2. Shows(T)
      BY <1>6, <2>1 DEF JInv, Local
    <2>3. PICK U : /\ U = tab'[t]
                   /\ U.sql = T.sql /\ U.offset = T.offset /\ U.pages = T.pages
                   /\ U.shown = T.shown /\ U.loading = T.loading
                   /\ ~U.cursor \/ V.pc \in Through \/ (U = T /\ TabCursor(T, C)')
      <3>1. CASE tab'[t] = T /\ (~T.cursor \/ V.pc \in Through \/ TabCursor(T, C)')
        BY <3>1
      <3>2. CASE tab'[t] = [T EXCEPT !.cursor = FALSE]
        BY <3>2 DEF Tab
      <3> QED BY <2>1, <3>1, <3>2
    <2>4. Shows(U)'
      <3>1. Shows(T)'
        BY <1>1, <2>2, ShowsStays
      <3> QED BY <2>3, <3>1, ShowsAlike
    <2>5. Shows(tab[t])'
      BY <2>3, <2>4, ShownThen
    <2>8. ASSUME NEW v \in Walkers, On(v, c)', walk'[v].pc = "asking", walk'[v].tab = t
          PROVE  walk'[v].sql = tab'[t].sql
      <3>1. v = w
        BY <1>5, <2>8 DEF Busy
      <3> QED BY <2>1, <2>3, <2>8, <3>1
    <2>6. CASE V.pc \in Through
      <3>1. On(w, c)' /\ walk'[w].pc \in Through
        BY <2>6 DEF On
      <3> QED BY <2>1, <2>2, <2>3, <2>5, <2>8, <3>1
    <2>7. CASE U = T /\ TabCursor(T, C)'
      <3>1. TabCursor(tab[t], cur[c])'
        BY <1>1, <2>3, <2>7, CursorThen
      <3> QED BY <2>1, <2>2, <2>3, <2>5, <2>8, <3>1
    <2> QED BY <2>1, <2>2, <2>3, <2>5, <2>6, <2>7, <2>8
  <1>7. Local(c)'
    BY <1>3, <1>4, <1>5, <1>6 DEF Local
  <1> QED BY <1>2, <1>7

----------------------------------------------------------------------------
(* The user asks: no one reads on the connection.                            *)
LEMMA SameCursor ==
  ASSUME JInv, UNCHANGED <<cur, execs>>, NEW c \in Conns, NEW C, C = cur[c] PROVE Moves(c, C)
  BY DEF Moves, Longer, JInv, IInv, Types, Local, Cursors

LEMMA UserAsks ==
  ASSUME OwnConns, JInv, IInv', NEW c \in Conns, Alone(c), Elsewhere(c), Local(c)',
         \/ queue' = queue
         \/ \E r \in Requests : r.conn = c /\ Fits(r)' /\ queue' = Append(queue, r)
  PROVE  JInv'
  <1>1. Others(queue, c)
    BY AloneQueue DEF OwnConns
  <1>2. Requeues(c)
    BY <1>1, QueueNext
  <1> QED BY <1>2, StepIs

LEMMA TabAsks ==
  ASSUME OwnConns, ConstantsAssumption, JInv, NEW t \in Tabs, NEW T, Alone(ConnOf[t]), NoDialog,
         UNCHANGED <<walk, cur, execs>>, tab' = [tab EXCEPT ![t] = T],
         T.sql = tab[t].sql, T.pages = tab[t].pages, T.cursor = tab[t].cursor, Shows(T)
  PROVE  Elsewhere(ConnOf[t]) /\ Local(ConnOf[t])'
  <1>1. PICK c \in Conns : c = ConnOf[t]
    BY Sizes
  <1>2. PICK C : C = cur[c]
    OBVIOUS
  <1>3. Moves(c, C)
    BY <1>2, SameCursor
  <1>4. Longer /\ Over(C)
    BY <1>2, <1>3, CursorIs DEF Moves, JInv, IInv
  <1>5. \A w \in Walkers : On(w, c) => ~Busy(w)
    BY <1>1 DEF Alone, OwnConns, On, Busy, NoDialog
  <1>6. Shows(T)'
    BY <1>4, ShowsStays
  <1>7. ~T.cursor \/ TabCursor(T, C)'
    <2>1. ~tab[t].cursor \/ TabCursor(tab[t], C)
      BY <1>1, <1>2, <1>5 DEF JInv, Local, Busy, Working, Through
    <2>2. TabCursor(tab[t], C) => TabCursor(T, C)
      BY DEF TabCursor
    <2> QED BY <1>4, <2>1, <2>2, TabCursorStays
  <1>8. \A w \in Walkers : On(w, ConnOf[t]) => ~Busy(w)
    BY <1>1, <1>5
  <1>9. Moves(ConnOf[t], C)
    BY <1>1, <1>3
  <1>10. UNCHANGED walk
    OBVIOUS
  <1> QED BY <1>6, <1>7, <1>8, <1>9, <1>10, TabMoves

(* The tab waits: what it showed is gone, or stays until the page is here.   *)
LEMMA TabWaits ==
  ASSUME OwnConns, ConstantsAssumption, JInv, NEW t \in Tabs, Alone(ConnOf[t]), NoDialog,
         UNCHANGED <<walk, cur, execs>>,
         \/ tab' = [tab EXCEPT ![t].loading = TRUE, ![t].shown = NoPage]
         \/ tab' = [tab EXCEPT ![t].loading = TRUE]
  PROVE  /\ Elsewhere(ConnOf[t]) /\ Local(ConnOf[t])'
         /\ tab'[t].loading /\ tab'[t].sql = tab[t].sql /\ tab'[t].pages = tab[t].pages
         /\ tab'[t].cursor = tab[t].cursor
  <1>1. tab \in [Tabs -> Tab] /\ tab[t] \in Tab
    BY DEF JInv, IInv, Types
  <1>2. PICK S : S = tab[t] /\ S \in Tab /\ Shows(S)
    BY <1>1, Sizes DEF JInv, Local
  <1>3. PICK T : /\ T = [S EXCEPT !.loading = TRUE, !.shown = NoPage] \/ T = [S EXCEPT !.loading = TRUE]
                 /\ tab' = [tab EXCEPT ![t] = T]
    BY <1>1, <1>2
  <1>4. /\ T.sql = S.sql /\ T.pages = S.pages /\ T.cursor = S.cursor /\ T.loading = TRUE
        /\ T.offset = S.offset
        /\ T.shown.none \/ T.shown = S.shown
    <2>1. CASE T = [S EXCEPT !.loading = TRUE, !.shown = NoPage]
      BY <1>2, <2>1 DEF Tab, NoPage
    <2>2. CASE T = [S EXCEPT !.loading = TRUE]
      BY <1>2, <2>2 DEF Tab
    <2> QED BY <1>3, <2>1, <2>2
  <1>5. Shows(T)
    BY <1>2, <1>4 DEF Shows
  <1>6. tab'[t] = T
    BY <1>1, <1>3
  <1>7. Elsewhere(ConnOf[t]) /\ Local(ConnOf[t])'
    BY <1>2, <1>3, <1>4, <1>5, TabAsks
  <1> QED BY <1>2, <1>4, <1>6, <1>7

(* What a tab asks for.                                                      *)
LEMMA PageFits ==
  ASSUME NEW t \in Tabs, tab'[t].loading, NEW s, NEW i, From(i) <= Rows[s],
         NEW r, r = Request("run", "run", t, ConnOf[t], s, i, PageSize, From(i), i = 0)
  PROVE  r.conn = ConnOf[t] /\ Fits(r)'
  <1>1. /\ r.for = "run" /\ r.m = "run" /\ r.who = t /\ r.conn = ConnOf[t] /\ r.sql = s
        /\ r.index = i /\ r.limit = PageSize /\ r.offset = From(i) /\ r.keep = (i = 0)
    BY DEF Request
  <1> QED BY <1>1 DEF Fits, OfTab, OfWalk, From

LEMMA RerunFits ==
  ASSUME NEW t \in Tabs, tab'[t].loading, NEW s, NEW i, From(i) <= Rows[s],
         NEW r, r = Rerun(t, s, i)
  PROVE  r.conn = ConnOf[t] /\ Fits(r)'
  <1>1. r = Request("run", "run", t, ConnOf[t], s, i, PageSize, From(i), i = 0)
    BY DEF Rerun, RunQuery, From
  <1> QED BY <1>1, PageFits

LEMMA NextFits ==
  ASSUME NEW t \in Tabs, tab'[t].loading, tab'[t].cursor, tab'[t].sql \in Sqls,
         NEW i, i = Len(tab'[t].pages), From(i) <= Rows[tab'[t].sql],
         NEW r, r = QueryNext("page", t, ConnOf[t], i, PageSize)
  PROVE  r.conn = ConnOf[t] /\ Fits(r)'
  <1>1. /\ r.for = "page" /\ r.m = "next" /\ r.who = t /\ r.conn = ConnOf[t]
        /\ r.index = i /\ r.limit = PageSize
    BY DEF QueryNext, Request
  <1> QED BY <1>1 DEF Fits, OfTab, OfWalk, From

LEMMA RunKeeps ==
  ASSUME OwnConns, ConstantsAssumption, JInv, IInv', NEW t \in Tabs, NEW s \in Sqls, Run(t, s)
  PROVE  JInv'
  <1>1. PICK c \in Conns, r \in Requests :
          c = ConnOf[t] /\ r = RunQuery("run", t, ConnOf[t], s, 0, PageSize, 0, TRUE)
    BY Sizes, RequestType
  <1>2. /\ Alone(c) /\ NoDialog /\ queue' = Append(queue, r) /\ UNCHANGED <<walk, cur, execs>>
        /\ tab' = [tab EXCEPT ![t].loading = TRUE, ![t].shown = NoPage]
    BY <1>1 DEF Run
  <1>3. Elsewhere(c) /\ Local(c)' /\ tab'[t].loading
    <2>1. /\ Alone(ConnOf[t]) /\ NoDialog /\ UNCHANGED <<walk, cur, execs>>
          /\ \/ tab' = [tab EXCEPT ![t].loading = TRUE, ![t].shown = NoPage]
             \/ tab' = [tab EXCEPT ![t].loading = TRUE]
      BY <1>1, <1>2
    <2>2. Elsewhere(ConnOf[t]) /\ Local(ConnOf[t])' /\ tab'[t].loading
      BY <2>1, TabWaits
    <2> QED BY <1>1, <2>2
  <1>4. Rows[s] \in Nat /\ From(0) = 0
    BY DEF ConstantsAssumption, From
  <1>5. r.conn = c /\ Fits(r)'
    <2>1. From(0) <= Rows[s] /\ tab'[t].loading
      BY <1>3, <1>4
    <2>2. r = Request("run", "run", t, ConnOf[t], s, 0, PageSize, From(0), 0 = 0)
      BY <1>1, <1>4 DEF RunQuery
    <2>3. r.conn = ConnOf[t] /\ Fits(r)'
      BY <2>1, <2>2, PageFits
    <2> QED BY <1>1, <2>3
  <1> QED BY <1>2, <1>3, <1>5, UserAsks

(* A page that is not the last has one after it.                             *)
LEMMA PageAfter ==
  ASSUME ConstantsAssumption, Types, NEW t \in Tabs, Shows(tab[t]), ~tab[t].shown.none,
         NEW i, Pager(t, i), i = tab[t].offset + 1 \/ i = tab[t].offset - 1
  PROVE  i \in Nat /\ tab[t].sql \in Sqls /\ From(i) <= Rows[tab[t].sql]
  <1>1. PICK T \in Tab : T = tab[t]
    BY DEF Types
  <1>2. PICK o \in Nat : o = T.offset
    BY DEF Tab
  <1>3. PICK s : s = T.sql
    OBVIOUS
  <1>4. PICK e \in DOMAIN execs : GoodPage(T.shown, e, s, o)
    BY <1>1, <1>2, <1>3 DEF Shows
  <1>5. s \in Sqls /\ From(o) <= Rows[s] /\ Rows[s] \in Nat /\ From(o) \in Nat
    BY <1>4, ElementOfSeq, LenProperties, FromIs DEF GoodPage, Types, ConstantsAssumption
  <1>6. CASE i = tab[t].offset + 1
    <2>1. i = o + 1 /\ i > o /\ i \in Nat
      BY <1>1, <1>2, <1>6
    <2>2. T.shown.truncated
      BY <1>1, <1>2, <2>1 DEF Pager
    <2>3. From(o + 1) <= Rows[s]
      BY <1>4, <2>2 DEF GoodPage
    <2> QED BY <1>1, <1>3, <1>5, <2>1, <2>3
  <1>7. CASE i = tab[t].offset - 1
    <2>1. i = o - 1 /\ ~(i > o) /\ i \in Int
      BY <1>1, <1>2, <1>7
    <2>2. i >= 0
      BY <1>1, <1>2, <2>1 DEF Pager
    <2>3. o # 0 /\ i \in Nat
      BY <2>1, <2>2
    <2>4. From(o - 1) \in Nat /\ From(o - 1) <= From(o)
      BY <2>3, FromBefore
    <2>5. From(i) <= Rows[s]
      BY <1>5, <2>1, <2>4
    <2> QED BY <1>1, <1>3, <1>5, <2>3, <2>5
  <1> QED BY <1>6, <1>7

LEMMA PageTurnKeeps ==
  ASSUME OwnConns, ConstantsAssumption, JInv, IInv', NEW t \in Tabs, NEW delta \in {-1, 1},
         PageTurn(t, delta)
  PROVE  JInv'
  <1>1. PICK c \in Conns : c = ConnOf[t]
    BY Sizes
  <1>2. PICK T \in Tab : T = tab[t] /\ Shows(T) /\ ~T.loading /\ ~T.shown.none
    BY <1>1 DEF PageTurn, JInv, Local, IInv, Types
  <1>3. PICK i : i = T.offset + delta
    OBVIOUS
  <1>4. Pager(t, i) /\ Alone(c) /\ NoDialog /\ UNCHANGED <<walk, cur, execs>>
    BY <1>1, <1>2, <1>3 DEF PageTurn
  <1>5. i \in Nat /\ T.sql \in Sqls /\ From(i) <= Rows[T.sql]
    <2>1. i = T.offset + 1 \/ i = T.offset - 1
      BY <1>3 DEF Tab
    <2> QED BY <1>2, <1>4, <2>1, PageAfter DEF JInv, IInv
  <1>6. /\ Alone(ConnOf[t]) /\ UNCHANGED walk /\ UNCHANGED cur /\ UNCHANGED execs
        /\ tab \in [Tabs -> Tab] /\ NoDialog
    BY <1>1, <1>4 DEF JInv, IInv, Types
  <1>7. CASE Held(t, i) /\ UNCHANGED queue
             /\ tab' = [tab EXCEPT ![t].shown = tab[t].pages[i + 1], ![t].offset = i]
    <2>1. PICK U : U = [T EXCEPT !.shown = T.pages[i + 1], !.offset = i]
      OBVIOUS
    <2>2. /\ U.sql = T.sql /\ U.pages = T.pages /\ U.cursor = T.cursor /\ U.offset = i
          /\ U.shown = T.pages[i + 1]
      BY <2>1 DEF Tab
    <2>3. tab' = [tab EXCEPT ![t] = U]
      BY <1>2, <1>6, <1>7, <2>1
    <2>4. PICK e \in DOMAIN execs \cup {0} :
            \A k \in DOMAIN T.pages : ~T.pages[k].none => GoodPage(T.pages[k], e, T.sql, k - 1)
      BY <1>2 DEF Shows
    <2>5. GoodPage(T.pages[i + 1], e, T.sql, i)
      <3>1. i + 1 \in DOMAIN T.pages /\ ~T.pages[i + 1].none /\ (i + 1) - 1 = i
        BY <1>2, <1>5, <1>7 DEF Held
      <3> QED BY <2>4, <3>1
    <2>6. Shows(U)
      BY <1>5, <2>2, <2>4, <2>5 DEF Shows, GoodPage
    <2>7. Elsewhere(ConnOf[t]) /\ Local(ConnOf[t])'
      BY <1>2, <1>6, <2>2, <2>3, <2>6, TabAsks
    <2> QED BY <1>1, <1>4, <1>7, <2>7, UserAsks
  <1>8. CASE /\ ~Held(t, i) /\ AtCursor(t, i)
             /\ tab' = [tab EXCEPT ![t].loading = TRUE]
             /\ queue' = Append(queue, QueryNext("page", t, ConnOf[t], i, PageSize))
    <2>1. /\ Elsewhere(ConnOf[t]) /\ Local(ConnOf[t])' /\ tab'[t].loading /\ tab'[t].sql = T.sql
          /\ tab'[t].pages = T.pages /\ tab'[t].cursor = T.cursor
      BY <1>2, <1>6, <1>8, TabWaits
    <2>2. PICK r \in Requests : r = QueryNext("page", t, ConnOf[t], i, PageSize)
      BY <1>5, NextPageAllowed DEF Allowed
    <2>3. T.cursor /\ i = Len(T.pages)
      BY <1>2, <1>8 DEF AtCursor
    <2>4. r.conn = ConnOf[t] /\ Fits(r)'
      BY <1>5, <2>1, <2>2, <2>3, NextFits
    <2> QED BY <1>1, <1>4, <1>8, <2>1, <2>2, <2>4, UserAsks
  <1>9. CASE /\ Rerunnable(T.sql)
             /\ tab' = [tab EXCEPT ![t].loading = TRUE, ![t].shown = NoPage]
             /\ queue' = Append(queue, Rerun(t, T.sql, i))
    <2>1. Elsewhere(ConnOf[t]) /\ Local(ConnOf[t])' /\ tab'[t].loading
      BY <1>2, <1>6, <1>9, TabWaits
    <2>2. PICK r \in Requests : r = Rerun(t, T.sql, i)
      BY <1>5, <1>9, RerunAllowed DEF Allowed, Rerunnable
    <2>3. r.conn = ConnOf[t] /\ Fits(r)'
      BY <1>5, <2>1, <2>2, RerunFits
    <2> QED BY <1>1, <1>4, <1>9, <2>1, <2>2, <2>3, UserAsks
  <1> QED BY <1>2, <1>3, <1>7, <1>8, <1>9 DEF PageTurn

LEMMA RefreshKeeps ==
  ASSUME OwnConns, ConstantsAssumption, JInv, IInv', NEW t \in Tabs, Refresh(t) PROVE JInv'
  <1>1. PICK c \in Conns : c = ConnOf[t]
    BY Sizes
  <1>2. PICK T \in Tab : T = tab[t] /\ Shows(T) /\ T.sql \in Reads
    BY <1>1 DEF Refresh, JInv, Local, IInv, Types, Rerunnable
  <1>3. PICK i \in Nat : i = T.offset
    BY DEF Tab
  <1>4. /\ Alone(c) /\ NoDialog /\ UNCHANGED <<walk, cur, execs>>
        /\ tab' = [tab EXCEPT ![t].loading = TRUE, ![t].shown = NoPage]
        /\ queue' = Append(queue, Rerun(t, T.sql, i))
    BY <1>1, <1>2, <1>3 DEF Refresh
  <1>5. From(i) <= Rows[T.sql]
    BY <1>2, <1>3, Sizes DEF Shows
  <1>6. Elsewhere(ConnOf[t]) /\ Local(ConnOf[t])' /\ tab'[t].loading
    <2>1. Alone(ConnOf[t]) /\ NoDialog /\ UNCHANGED walk /\ UNCHANGED cur /\ UNCHANGED execs
      BY <1>1, <1>4
    <2> QED BY <1>4, <2>1, TabWaits
  <1>7. PICK r \in Requests : r = Rerun(t, T.sql, i)
    BY <1>2, RerunAllowed DEF Allowed
  <1>8. r.conn = ConnOf[t] /\ Fits(r)'
    BY <1>5, <1>6, <1>7, RerunFits
  <1> QED BY <1>1, <1>4, <1>6, <1>7, <1>8, UserAsks

(* What a walk asks for.                                                     *)
LEMMA WalkFits ==
  ASSUME NEW w \in Walkers, NEW c, walk'[w].conn = c, NEW r
  PROVE  /\ walk'[w].pc = "first" /\ r = FirstPage(w, c, walk'[w].sql) => r.conn = c /\ Fits(r)'
         /\ \A for \in {"rest", "more"} :
              walk'[w].pc = for /\ r = QueryNext(for, w, c, 0, ExportPage) => r.conn = c /\ Fits(r)'
         /\ walk'[w].pc = "closing" /\ r = CloseCursor(w, c) => r.conn = c /\ Fits(r)'
  <1>1. ASSUME walk'[w].pc = "first", r = FirstPage(w, c, walk'[w].sql)
        PROVE  r.conn = c /\ Fits(r)'
    <2>1. /\ r.for = "first" /\ r.m = "run" /\ r.who = w /\ r.conn = c /\ r.keep
          /\ r.sql = walk'[w].sql /\ r.limit = ExportPage
      BY <1>1 DEF FirstPage, RunQuery, Request
    <2> QED BY <1>1, <2>1 DEF Fits, OfTab, OfWalk, WaitsAt
  <1>2. ASSUME NEW for \in {"rest", "more"}, walk'[w].pc = for,
               r = QueryNext(for, w, c, 0, ExportPage)
        PROVE  r.conn = c /\ Fits(r)'
    <2>1. /\ r.for = for /\ r.m = "next" /\ r.who = w /\ r.conn = c /\ r.limit = ExportPage
      BY <1>2 DEF QueryNext, Request
    <2> QED BY <1>2, <2>1 DEF Fits, OfTab, OfWalk, WaitsAt
  <1>3. ASSUME walk'[w].pc = "closing", r = CloseCursor(w, c) PROVE r.conn = c /\ Fits(r)'
    <2>1. r.for = "closed" /\ r.m = "cursorClose" /\ r.who = w /\ r.conn = c
      BY <1>3 DEF CloseCursor, Request
    <2> QED BY <1>3, <2>1 DEF Fits, OfTab, OfWalk, WaitsAt
  <1> QED BY <1>1, <1>2, <1>3

LEMMA WalkStarts ==
  ASSUME OwnConns, ConstantsAssumption, JInv, NEW c \in Conns, Alone(c), NEW w \in Walkers,
         walk[w].pc = "idle" \/ (On(w, c) /\ walk[w].pc = "asking"),
         \A v \in Walkers \ {w} : Alike(walk'[v], walk[v]) /\ (On(v, c) => ~Busy(v)),
         UNCHANGED tab, UNCHANGED cur, UNCHANGED execs,
         NEW V, V.conn = c, walk'[w] = V, V.pc = "asking" => V.sql = tab[V.tab].sql,
         NEW C, C = cur[c], WalkAt(V, C)
  PROVE  Elsewhere(c) /\ Local(c)'
  <1>1. Moves(c, C) /\ Longer /\ Over(C)
    BY SameCursor, CursorIs DEF Moves, JInv, IInv
  <1>2. WalkAt(V, C)'
    BY <1>1, WalkStays DEF Alike
  <1>3. \A v \in Walkers : On(v, c) => walk[v].pc \notin Through
    BY DEF Busy, Working, Through
  <1>4. ASSUME NEW t \in Tabs, ConnOf[t] = c PROVE Spared(t, V, C)
    <2>1. PICK T \in Tab : T = tab[t] /\ ~T.loading
      BY <1>4 DEF JInv, IInv, Types, Alone, OwnConns
    <2>2. ~T.cursor \/ TabCursor(T, C)
      BY <1>3, <1>4, <2>1 DEF JInv, Local
    <2>3. ~T.cursor \/ TabCursor(T, C)'
      BY <1>1, <2>2, TabCursorStays
    <2> QED BY <2>1, <2>3 DEF Spared
  <1>6. \A t \in Tabs : ConnOf[t] = c => Spared(t, V, C)
    BY <1>4
  <1>7. \A t \in Tabs : ConnOf[t] # c => tab'[t] = tab[t]
    OBVIOUS
  <1>8. On(w, c) \/ walk[w].pc = "idle"
    OBVIOUS
  <1> QED BY <1>1, <1>2, <1>6, <1>7, <1>8, WalkMoves

LEMMA BackupKeeps ==
  ASSUME OwnConns, ConstantsAssumption, JInv, IInv', NEW w \in Walkers, NEW s \in Sqls, Backup(w, s)
  PROVE  JInv'
  <1>1. PICK c, V : c \in Conns /\ c = WalkConn[w] /\ V = [Idle EXCEPT !.pc = "first", !.conn = c, !.sql = s]
    BY Sizes
  <1>2. /\ V.tab = NoTab /\ V.pc = "first" /\ V.conn = c /\ V.sql = s /\ V.rows = <<>> /\ V.open = FALSE
        /\ V.skipped = 0
    BY <1>1 DEF Idle
  <1>3. /\ walk[w].pc = "idle" /\ s \in Reads /\ Alone(c) /\ NoDialog /\ walk' = [walk EXCEPT ![w] = V]
        /\ queue' = Append(queue, FirstPage(w, c, s))
        /\ UNCHANGED tab /\ UNCHANGED cur /\ UNCHANGED execs
    BY <1>1 DEF Backup
  <1>4. /\ walk'[w] = V
        /\ \A v \in Walkers \ {w} : Alike(walk'[v], walk[v]) /\ (On(v, c) => ~Busy(v))
    BY <1>3 DEF JInv, IInv, Types, Alike, Alone, OwnConns, On, Busy, NoDialog
  <1>5. PICK C : C = cur[c]
    OBVIOUS
  <1>6. WalkAt(V, C)
    BY <1>2 DEF WalkAt
  <1>7. Elsewhere(c) /\ Local(c)'
    BY <1>1, <1>2, <1>3, <1>4, <1>5, <1>6, WalkStarts
  <1>8. PICK r \in Requests : r = FirstPage(w, c, s)
    BY <1>1, <1>2, <1>3, <1>4, WalkRequests DEF Allowed
  <1>9. r.conn = c /\ Fits(r)'
    BY <1>1, <1>2, <1>4, <1>8, WalkFits
  <1> QED BY <1>1, <1>3, <1>7, <1>8, <1>9, UserAsks

LEMMA CancelKeeps ==
  ASSUME JInv, IInv', NEW w \in Walkers, Cancel(w) PROVE JInv'
  <1>1. \A v \in Walkers : Alike(walk'[v], walk[v])
    BY DEF Cancel, JInv, IInv, Types, Walk, Alike
  <1> QED BY <1>1, NothingMoves DEF Cancel

(* The pages a tab keeps, put together, when none is missing.                *)
LEMMA HeldAllIs ==
  ASSUME ConstantsAssumption, Types, NEW t \in Tabs, tab[t].sql \in Sqls, Contiguous(tab[t].pages),
         Shows(tab[t])
  PROVE  \E e \in DOMAIN execs :
           /\ execs[e] = tab[t].sql
           /\ HeldRows(tab[t].pages) =
                Stretch(e, 1, Least(From(Len(tab[t].pages)), Rows[tab[t].sql]))
           /\ LET last == tab[t].pages[Len(tab[t].pages)] IN
                IF last.truncated THEN From(Len(tab[t].pages)) <= Rows[tab[t].sql]
                                  ELSE Rows[tab[t].sql] <= From(Len(tab[t].pages))
  <1>1. PICK T \in Tab : T = tab[t]
    BY DEF Types
  <1>2. PICK pages \in Seq(Page), s \in Sqls : pages = T.pages /\ s = T.sql
    BY <1>1 DEF Tab
  <1>3. PICK n \in Nat : n = Len(pages) /\ DOMAIN pages = 1..n
    BY LenProperties
  <1>4. n # 0
    BY <1>1, <1>2, <1>3, EmptySeq DEF Contiguous
  <1>5. PICK e \in DOMAIN execs \cup {0} :
          \A k \in DOMAIN pages : ~pages[k].none => GoodPage(pages[k], e, s, k - 1)
    BY <1>1, <1>2 DEF Shows
  <1>6. \A k \in DOMAIN pages : GoodPage(pages[k], e, s, k - 1)
    BY <1>1, <1>2, <1>5 DEF Contiguous
  <1>7. n \in DOMAIN pages /\ (n - 1) + 1 = n
    BY <1>3, <1>4
  <1>8. /\ e \in DOMAIN execs /\ execs[e] = s
        /\ IF pages[n].truncated THEN From(n) <= Rows[s] ELSE Rows[s] <= From(n)
    BY <1>6, <1>7 DEF GoodPage
  <1>9. e \in Nat
    BY <1>8, LenProperties DEF Types
  <1>10. HeldRows(pages) = Stretch(e, 1, Least(From(Len(pages)), Rows[s]))
    <2>1. pages # <<>>
      BY <1>1, <1>2 DEF Contiguous
    <2> QED BY <1>6, <1>9, <2>1, HeldIs
  <1> QED BY <1>1, <1>2, <1>3, <1>8, <1>10

(* The cursor behind the pages of a tab is at the end of their rows.         *)
LEMMA BehindHeld ==
  ASSUME ConstantsAssumption, Types, NEW t \in Tabs, tab[t].sql \in Sqls, Contiguous(tab[t].pages),
         tab[t].pages[Len(tab[t].pages)].truncated, NEW C, Over(C), TabCursor(tab[t], C)
  PROVE  Behind(C, HeldRows(tab[t].pages), tab[t].sql)
  <1> SUFFICES ASSUME C # NoCursor PROVE Behind(C, HeldRows(tab[t].pages), tab[t].sql)
    BY DEF Behind
  <1>1. PICK T \in Tab : T = tab[t]
    BY DEF Types
  <1>2. PICK pages \in Seq(Page), s \in Sqls : pages = T.pages /\ s = T.sql
    BY <1>1 DEF Tab
  <1>3. PICK n \in Nat : n = Len(pages) /\ DOMAIN pages = 1..n
    BY LenProperties
  <1>4. n # 0 /\ pages # <<>>
    BY <1>1, <1>2, <1>3, EmptySeq DEF Contiguous
  <1>5. PICK e \in Nat : e = C.exec /\ e \in DOMAIN execs
    BY LenProperties DEF Types, Over
  <1>6. /\ execs[e] = s /\ C.pos = From(n)
        /\ \A k \in DOMAIN pages : GoodPage(pages[k], e, s, k - 1)
    BY <1>1, <1>2, <1>3, <1>5 DEF TabCursor
  <1>7. n \in DOMAIN pages /\ (n - 1) + 1 = n
    BY <1>3, <1>4
  <1>8. From(n) <= Rows[s]
    BY <1>1, <1>2, <1>3, <1>6, <1>7 DEF GoodPage
  <1>9. HeldRows(pages) = Stretch(e, 1, Least(From(Len(pages)), Rows[s]))
    BY <1>4, <1>6, HeldIs
  <1>10. Least(From(n), Rows[s]) = From(n)
    BY <1>8 DEF Least
  <1> QED BY <1>1, <1>2, <1>3, <1>5, <1>6, <1>9, <1>10 DEF Behind

LEMMA ExportKeeps ==
  ASSUME OwnConns, ConstantsAssumption, JInv, IInv', NEW w \in Walkers, NEW t \in Tabs, Export(w, t)
  PROVE  JInv'
  <1>1. PICK c \in Conns : c = ConnOf[t]
    BY Sizes
  <1>2. PICK T \in Tab : T = tab[t] /\ Shows(T)
    BY <1>1 DEF JInv, Local, IInv, Types
  <1>3. PICK i \in Nat : i = T.offset
    BY DEF Tab
  <1>4. PICK V : V = [Idle EXCEPT !.pc = "asking", !.tab = t, !.conn = c, !.sql = T.sql,
                                  !.res = T.shown, !.skipped = From(i)]
    OBVIOUS
  <1>5. /\ V.pc = "asking" /\ V.tab = t /\ V.conn = c /\ V.sql = T.sql /\ V.res = T.shown
        /\ V.skipped = From(i) /\ V.open = FALSE
    BY <1>4 DEF Idle
  <1>6. /\ walk[w].pc = "idle" /\ Alone(c) /\ NoDialog /\ walk' = [walk EXCEPT ![w] = V]
        /\ UNCHANGED tab /\ UNCHANGED queue /\ UNCHANGED cur /\ UNCHANGED execs /\ ~T.shown.none
    BY <1>1, <1>2, <1>3, <1>4 DEF Export, From
  <1>7. /\ walk'[w] = V
        /\ \A v \in Walkers \ {w} : Alike(walk'[v], walk[v]) /\ (On(v, c) => ~Busy(v))
    BY <1>6 DEF JInv, IInv, Types, Alike, Alone, OwnConns, On, Busy, NoDialog
  <1>8. PICK C : C = cur[c]
    OBVIOUS
  <1>9. ~T.shown.truncated => Whole(T.shown.rows, T.sql, From(i))
    <2>1. PICK e \in DOMAIN execs : GoodPage(T.shown, e, T.sql, i)
      BY <1>2, <1>3, <1>6 DEF Shows
    <2>2. T.sql \in Sqls
      BY <2>1, ElementOfSeq, LenProperties DEF GoodPage, JInv, IInv, Types
    <2>3. From(i + 1) \in Nat /\ Rows[T.sql] \in Nat
      BY <2>2, FromIs DEF ConstantsAssumption
    <2>4. ~T.shown.truncated => Least(From(i + 1), Rows[T.sql]) = Rows[T.sql]
      BY <2>1, <2>3 DEF GoodPage, Least
    <2> QED BY <2>1, <2>4 DEF GoodPage, PageRows, Whole
  <1>10. WalkAt(V, C)
    <2>1. t # NoTab
      BY DEF ConstantsAssumption
    <2> QED BY <1>1, <1>5, <1>9, <2>1 DEF WalkAt
  <1>11. Elsewhere(c) /\ Local(c)'
    BY <1>2, <1>5, <1>6, <1>7, <1>8, <1>10, WalkStarts
  <1> QED BY <1>6, <1>11, UserAsks

(* While the user is asked, no one reads on the connection of the tab.       *)
LEMMA AskingAlone ==
  ASSUME OwnConns, ConstantsAssumption, JInv, NEW w \in Walkers, walk[w].pc = "asking",
         NEW c, c = walk[w].conn
  PROVE  /\ c \in Conns /\ On(w, c) /\ Alone(c) /\ WalkAt(walk[w], cur[c])
         /\ \A v \in Walkers \ {w} : On(v, c) => ~Busy(v)
         /\ walk[w].tab \in Tabs /\ ConnOf[walk[w].tab] = c /\ walk[w].sql = tab[walk[w].tab].sql
  <1>1. c \in Conns /\ On(w, c) /\ Busy(w)
    BY DEF JInv, IInv, Types, Walk, On, Busy
  <1>2. WalkAt(walk[w], cur[c]) /\ \A v \in Walkers \ {w} : On(v, c) => ~Busy(v)
    BY <1>1 DEF JInv, Local
  <1>3. walk[w].tab \in Tabs /\ ConnOf[walk[w].tab] = c
    BY <1>2 DEF WalkAt, JInv, IInv, Types
  <1>4. walk[w].sql = tab[walk[w].tab].sql
    BY <1>1, <1>3 DEF JInv, Local
  <1>5. \A t \in Tabs : ConnOf[t] = c => ~tab[t].loading
    BY <1>1 DEF JInv, Local
  <1>6. \A v \in Walkers : walk[v].conn = c => ~Working(v)
    BY <1>2 DEF On, Busy, Working
  <1> QED BY <1>1, <1>2, <1>3, <1>4, <1>5, <1>6 DEF Alone

LEMMA DismissedKeeps ==
  ASSUME OwnConns, ConstantsAssumption, JInv, IInv', NEW w \in Walkers, Dismissed(w)
  PROVE  JInv'
  <1>1. PICK c, V : c = walk[w].conn /\ V = [Idle EXCEPT !.conn = c]
    OBVIOUS
  <1>2. V.pc = "idle" /\ V.conn = c /\ V.tab = NoTab
    BY <1>1 DEF Idle
  <1>3. /\ walk[w].pc = "asking" /\ walk' = [walk EXCEPT ![w] = V]
        /\ UNCHANGED tab /\ UNCHANGED queue /\ UNCHANGED cur /\ UNCHANGED execs
    BY <1>1 DEF Dismissed
  <1>4. /\ c \in Conns /\ On(w, c) /\ Alone(c)
        /\ \A v \in Walkers \ {w} : On(v, c) => ~Busy(v)
    BY <1>1, <1>3, AskingAlone
  <1>5. walk'[w] = V /\ \A v \in Walkers \ {w} : Alike(walk'[v], walk[v])
    BY <1>3 DEF JInv, IInv, Types, Alike
  <1>6. PICK C : C = cur[c]
    OBVIOUS
  <1>7. WalkAt(V, C)
    BY <1>2 DEF WalkAt
  <1>8. Elsewhere(c) /\ Local(c)'
    <2>1. V.pc # "asking"
      BY <1>2
    <2> QED BY <1>2, <1>3, <1>4, <1>5, <1>6, <1>7, <2>1, WalkStarts
  <1> QED BY <1>3, <1>4, <1>8, UserAsks

LEMMA PickedKeeps ==
  ASSUME OwnConns, ConstantsAssumption, JInv, IInv', NEW w \in Walkers, Picked(w)
  PROVE  JInv'
  <1>1. PICK W, c, t : W \in Walk /\ W = walk[w] /\ c = W.conn /\ t = W.tab
    BY DEF JInv, IInv, Types
  <1>2. W.pc = "asking"
    BY <1>1 DEF Picked
  <1>3. PICK C : C = cur[c]
    OBVIOUS
  <1>4. /\ c \in Conns /\ On(w, c) /\ Alone(c) /\ WalkAt(W, C)
        /\ \A v \in Walkers \ {w} : On(v, c) => ~Busy(v)
        /\ t \in Tabs /\ ConnOf[t] = c /\ W.sql = tab[t].sql
    BY <1>1, <1>2, <1>3, AskingAlone
  <1>5. PICK T \in Tab : T = tab[t] /\ Shows(T)
    BY <1>4 DEF JInv, Local, IInv, Types
  <1>6. UNCHANGED <<tab, cur, execs>> /\ Ways(w, W, T)
    BY <1>1, <1>5, PickedWays
  <1>7. /\ Over(C) /\ t # NoTab /\ ~W.open
        /\ ~W.res.truncated => Whole(W.res.rows, W.sql, W.skipped)
    BY <1>2, <1>3, <1>4, CursorIs DEF JInv, IInv, WalkAt, ConstantsAssumption
  <1>8. ~T.cursor \/ TabCursor(T, C)
    <2>1. \A v \in Walkers : On(v, c) => walk[v].pc \notin Through
      BY <1>1, <1>2, <1>4 DEF Busy, Working, Through
    <2> QED BY <1>3, <1>4, <1>5, <2>1 DEF JInv, Local
  <1>9. MoreOf(W, T) => W.sql \in Reads /\ W.sql \in Sqls
    BY Sizes DEF MoreOf, Rerunnable
  <1>10. /\ W.res.rows \in Seq(Row) /\ HeldRows(T.pages) \in Seq(Row) /\ <<>> \in Seq(Row)
         /\ W.skipped \in Nat
    <2>1. W.res \in Page /\ W.skipped \in Nat /\ T.pages \in Seq(Page)
      BY <1>1 DEF Walk, Tab
    <2> QED BY <2>1, EmptySeq, HeldRowsType DEF Page
  <1>11. ASSUME NEW pc \in {"done", "rest", "first"}, NEW rows \in Seq(Row), NEW k \in Nat, NEW V,
                V = WentOn(W, pc, rows, k), walk' = [Aborting(w) EXCEPT ![w] = V], WalkAt(V, C)
         PROVE  walk'[w] = V /\ Elsewhere(c) /\ Local(c)'
    <2>1. walk'[w] = V /\ \A v \in Walkers \ {w} : walk'[v] = Aborting(w)[v]
      BY <1>11, AbortingType DEF JInv, IInv
    <2>2. ASSUME NEW v \in Walkers \ {w} PROVE Alike(walk'[v], walk[v])
      <3>1. PICK X \in Walk : X = walk[v]
        BY DEF JInv, IInv, Types
      <3>2. PICK S : S = [X EXCEPT !.aborted = TRUE]
        OBVIOUS
      <3>3. Alike(S, X) /\ Alike(X, X)
        BY <3>2 DEF Alike, Walk
      <3>4. Aborting(w)[v] = S \/ Aborting(w)[v] = X
        BY <3>1, <3>2 DEF Aborting
      <3> QED BY <2>1, <3>1, <3>3, <3>4
    <2>3. V.conn = c /\ V.pc # "asking"
      <3>1. pc \in Pcs
        BY DEF Pcs
      <3> QED BY <1>1, <1>11, <3>1, PicksType
    <2>4. UNCHANGED tab /\ UNCHANGED cur /\ UNCHANGED execs /\ walk[w].pc = "asking"
      BY <1>1, <1>2, <1>6
    <2> QED BY <1>3, <1>4, <1>11, <2>1, <2>2, <2>3, <2>4, WalkStarts
  <1>12. ASSUME NEW pc \in {"done", "rest", "first"}, NEW rows \in Seq(Row), NEW k \in Nat, NEW V,
                V = WentOn(W, pc, rows, k)
         PROVE  /\ V.pc = pc /\ V.rows = rows /\ V.skipped = k /\ V.tab = t /\ V.conn = c
                /\ V.sql = W.sql /\ ~V.open
    <2>1. pc \in Pcs
      BY DEF Pcs
    <2> QED BY <1>1, <1>7, <1>12, <2>1, PicksType
  <1>13. CASE /\ ~MoreOf(W, T) /\ UNCHANGED queue
              /\ walk' = [Aborting(w) EXCEPT ![w] = WentOn(W, "done", W.res.rows, W.skipped)]
    <2>1. PICK V, rows, k :
            /\ rows \in Seq(Row) /\ k \in Nat /\ V = WentOn(W, "done", rows, k)
            /\ rows = W.res.rows /\ k = W.skipped
      BY <1>10
    <2>2. /\ V.pc = "done" /\ V.tab = t /\ V.conn = c /\ V.rows = rows /\ V.sql = W.sql
          /\ V.skipped = k
      BY <1>12, <2>1
    <2>3. W.sql \in Reads => ~W.res.truncated
      BY <1>13 DEF MoreOf, Rerunnable
    <2>4. WalkAt(V, C)
      BY <1>4, <1>7, <2>1, <2>2, <2>3 DEF WalkAt
    <2>5. Elsewhere(c) /\ Local(c)'
      BY <1>11, <1>13, <2>1, <2>4
    <2> QED BY <1>4, <1>13, <2>5, UserAsks
  <1>14. CASE /\ MoreOf(W, T) /\ Contiguous(T.pages) /\ ~T.pages[Len(T.pages)].truncated
              /\ walk' = [Aborting(w) EXCEPT ![w] = WentOn(W, "done", HeldRows(T.pages), 0)]
              /\ UNCHANGED queue
    <2>1. PICK V, rows : rows \in Seq(Row) /\ V = WentOn(W, "done", rows, 0) /\ rows = HeldRows(T.pages)
      BY <1>10
    <2>2. /\ V.pc = "done" /\ V.tab = t /\ V.conn = c /\ V.rows = rows /\ V.sql = T.sql
          /\ V.skipped = 0
      BY <1>4, <1>5, <1>12, <2>1
    <2>3. Whole(rows, T.sql, 0)
      <3>1. PICK e \in DOMAIN execs :
              /\ execs[e] = T.sql
              /\ rows = Stretch(e, 1, Least(From(Len(T.pages)), Rows[T.sql]))
              /\ Rows[T.sql] <= From(Len(T.pages))
        BY <1>4, <1>5, <1>9, <1>14, <2>1, HeldAllIs DEF JInv, IInv
      <3>2. Rows[T.sql] \in Nat /\ From(Len(T.pages)) \in Nat
        <4>1. Len(T.pages) \in Nat
          BY LenProperties DEF Tab
        <4> QED BY <1>4, <1>5, <1>9, <1>14, <4>1, FromIs DEF ConstantsAssumption
      <3>3. Least(From(Len(T.pages)), Rows[T.sql]) = Rows[T.sql]
        BY <3>1, <3>2 DEF Least
      <3> QED BY <3>1, <3>3 DEF Whole
    <2>4. WalkAt(V, C)
      BY <1>4, <2>2, <2>3 DEF WalkAt
    <2>5. Elsewhere(c) /\ Local(c)'
      BY <1>11, <1>14, <2>1, <2>4
    <2> QED BY <1>4, <1>14, <2>5, UserAsks
  <1>15. CASE /\ MoreOf(W, T) /\ Contiguous(T.pages) /\ T.pages[Len(T.pages)].truncated /\ T.cursor
              /\ walk' = [Aborting(w) EXCEPT ![w] = WentOn(W, "rest", HeldRows(T.pages), 0)]
              /\ queue' = Append(queue, QueryNext("rest", w, c, 0, ExportPage))
    <2>1. PICK V, rows : rows \in Seq(Row) /\ V = WentOn(W, "rest", rows, 0) /\ rows = HeldRows(T.pages)
      BY <1>10
    <2>2. /\ V.pc = "rest" /\ V.tab = t /\ V.conn = c /\ V.rows = rows /\ V.sql = T.sql
          /\ V.skipped = 0 /\ ~V.open
      BY <1>4, <1>5, <1>12, <2>1
    <2>3. Behind(C, rows, T.sql)
      BY <1>4, <1>5, <1>7, <1>8, <1>9, <1>15, <2>1, BehindHeld DEF JInv, IInv
    <2>4. WalkAt(V, C)
      BY <1>4, <1>7, <2>2, <2>3 DEF WalkAt
    <2>5. walk'[w] = V /\ Elsewhere(c) /\ Local(c)'
      BY <1>11, <1>15, <2>1, <2>4
    <2>6. T.sql \in Reads /\ walk'[w].sql = T.sql /\ walk'[w].pc = "rest" /\ walk'[w].conn = c
      BY <1>4, <1>5, <1>9, <1>15, <2>2, <2>5
    <2>7. PICK r \in Requests : r = QueryNext("rest", w, c, 0, ExportPage)
      BY <1>4, <2>6, WalkRequests DEF Allowed
    <2>8. r.conn = c /\ Fits(r)'
      BY <2>6, <2>7, WalkFits
    <2> QED BY <1>4, <1>15, <2>5, <2>7, <2>8, UserAsks
  <1>16. CASE /\ MoreOf(W, T)
              /\ walk' = [Aborting(w) EXCEPT ![w] = WentOn(W, "first", <<>>, 0)]
              /\ queue' = Append(queue, FirstPage(w, c, W.sql))
    <2>1. PICK V, rows : rows \in Seq(Row) /\ V = WentOn(W, "first", rows, 0) /\ rows = <<>>
      BY <1>10
    <2>p. rows \in Seq(Row) /\ V = WentOn(W, "first", rows, 0)
      BY <2>1
    <2>2. /\ V.pc = "first" /\ V.tab = t /\ V.conn = c /\ V.rows = rows /\ V.sql = W.sql
          /\ V.skipped = 0 /\ ~V.open
      BY <1>12, <2>p
    <2>3. WalkAt(V, C)
      BY <1>4, <2>1, <2>2 DEF WalkAt
    <2>4. walk'[w] = V /\ Elsewhere(c) /\ Local(c)'
      BY <1>11, <1>16, <2>1, <2>3
    <2>5. /\ W.sql \in Reads /\ walk'[w].sql = W.sql /\ walk'[w].pc = "first" /\ walk'[w].conn = c
      BY <1>9, <1>16, <2>2, <2>4
    <2>6. PICK r \in Requests : r = FirstPage(w, c, W.sql)
      BY <1>4, <2>5, WalkRequests DEF Allowed
    <2>7. r.conn = c /\ Fits(r)'
      BY <2>5, <2>6, WalkFits
    <2> QED BY <1>4, <1>16, <2>4, <2>6, <2>7, UserAsks
  <1> QED BY <1>1, <1>6, <1>13, <1>14, <1>15, <1>16 DEF Ways

----------------------------------------------------------------------------
(* The answers: what a request leaves of the cursor of its connection.       *)
LEMMA AnswerGoes ==
  ASSUME JInv, IInv', queue # <<>>, NEW c \in Conns, c = Head(queue).conn, Elsewhere(c), Local(c)',
         \/ queue' = Tail(queue)
         \/ \E r \in Requests : r.conn = c /\ Fits(r)' /\ queue' = Append(Tail(queue), r)
  PROVE  JInv'
  <1>1. PICK q : q = Tail(queue) /\ Others(q, c)
    BY AnsweredQueue
  <1>2. Requeues(c)
    BY <1>1, QueueNext
  <1> QED BY <1>2, StepIs

LEMMA ServeLonger ==
  ASSUME ConstantsAssumption, JInv, NEW r \in Sound, NEW ok \in BOOLEAN, Serve(r, ok)
  PROVE  Longer /\ cur' \in [Conns -> Cursors']
  <1>1. /\ cur' \in [Conns -> Cursors']
        /\ IF r.m = "run" THEN r.sql \in Sqls /\ execs' = Append(execs, r.sql) ELSE UNCHANGED execs
    BY Served DEF JInv, IInv
  <1>2. execs \in Seq(Sqls)
    BY DEF JInv, IInv, Types
  <1>3. CASE UNCHANGED execs
    BY <1>1, <1>3 DEF Longer
  <1>4. CASE r.sql \in Sqls /\ execs' = Append(execs, r.sql)
    <2>1. PICK n, x, q : n \in Nat /\ x \in Sqls /\ n = Len(execs) /\ x = r.sql /\ q = Append(execs, x)
      BY <1>2, <1>4, LenProperties
    <2>2. DOMAIN execs = 1..n /\ DOMAIN q = 1..(n + 1) /\ \A k \in 1..n : q[k] = execs[k]
      BY <1>2, <2>1, AppendProperties, LenProperties
    <2>3. execs' = q
      BY <1>4, <2>1
    <2> QED BY <1>1, <2>1, <2>2, <2>3 DEF Longer
  <1> QED BY <1>1, <1>3, <1>4

LEMMA ServeMoves ==
  ASSUME ConstantsAssumption, JInv, NEW r \in Sound, NEW ok \in BOOLEAN, Serve(r, ok),
         NEW c, c = r.conn, NEW C, C = cur'[c], C # NoCursor => C.pos <= Rows[execs'[C.exec]]
  PROVE  Moves(c, C)
  <1>1. Longer /\ cur' \in [Conns -> Cursors']
    BY ServeLonger
  <1>2. \A d \in Conns \ {c} : cur'[d] = cur[d]
    BY DEF Serve, ServeRun, ServeNext, ServeClose, JInv, IInv, Types
  <1> QED BY <1>1, <1>2 DEF Moves

(* A page of the cursor at pos of execution e, and the cursor it leaves.     *)
Read(p, C, e, s, pos, limit) ==
  /\ p.none = FALSE /\ p.cursor = p.truncated /\ p.truncated \in BOOLEAN
  /\ \E n \in Nat :
       /\ p.rows = Stretch(e, pos + 1, pos + n) /\ pos + n <= Rows[s]
       /\ IF p.truncated THEN n = limit /\ C = [exec |-> e, pos |-> pos + n]
                         ELSE pos + n = Rows[s] /\ n <= limit /\ C = NoCursor

LEMMA CursorRead ==
  ASSUME ConstantsAssumption, NEW e \in Nat, NEW s \in Sqls, NEW pos \in Nat, pos <= Rows[s],
         NEW limit \in Nat \ {0}, NEW p, p = CursorPage(e, s, pos, limit),
         NEW C, C = Kept(p, e, pos)
  PROVE  Read(p, C, e, s, pos, limit)
  <1>1. LET q == CursorPage(e, s, pos, limit)  n == Len(q.rows) IN
         /\ n \in Nat /\ q.rows = Stretch(e, pos + 1, pos + n) /\ q.none = FALSE
         /\ q.cursor = q.truncated /\ q.truncated \in BOOLEAN /\ pos + n <= Rows[s]
         /\ IF q.truncated THEN n = limit ELSE pos + n = Rows[s] /\ n < limit
    BY CursorPageIs
  <1>2. PICK n : n = Len(p.rows)
    OBVIOUS
  <1>3. /\ n \in Nat /\ p.rows = Stretch(e, pos + 1, pos + n) /\ p.none = FALSE
        /\ p.cursor = p.truncated /\ p.truncated \in BOOLEAN /\ pos + n <= Rows[s]
        /\ IF p.truncated THEN n = limit ELSE pos + n = Rows[s] /\ n < limit
    BY <1>1, <1>2
  <1>4. C = IF p.truncated THEN [exec |-> e, pos |-> pos + n] ELSE NoCursor
    BY <1>2, <1>3 DEF Kept
  <1>5. IF p.truncated THEN n = limit /\ C = [exec |-> e, pos |-> pos + n]
                       ELSE pos + n = Rows[s] /\ n <= limit /\ C = NoCursor
    BY <1>3, <1>4
  <1> QED BY <1>3, <1>5 DEF Read

ReadAt(p, e, s, pos, limit) ==
  /\ p.none = FALSE /\ p.cursor = FALSE /\ p.truncated \in BOOLEAN
  /\ \E n \in Nat :
       /\ p.rows = Stretch(e, pos + 1, pos + n) /\ pos + n <= Rows[s]
       /\ IF p.truncated THEN n = limit ELSE pos + n = Rows[s] /\ n <= limit

LEMMA OffsetRead ==
  ASSUME ConstantsAssumption, NEW e \in Nat, NEW s \in Sqls, NEW pos \in Nat, pos <= Rows[s],
         NEW limit \in Nat \ {0}, NEW p, p = OffsetPage(e, s, pos, limit)
  PROVE  ReadAt(p, e, s, pos, limit)
  <1>1. LET q == OffsetPage(e, s, pos, limit)  n == Len(q.rows) IN
         /\ n \in Nat /\ q.rows = Stretch(e, pos + 1, pos + n) /\ q.none = FALSE
         /\ q.cursor = FALSE /\ q.truncated \in BOOLEAN /\ pos + n <= Rows[s]
         /\ IF q.truncated THEN n = limit ELSE pos + n = Rows[s] /\ n <= limit
    BY OffsetPageIs
  <1>2. PICK n : n = Len(p.rows)
    OBVIOUS
  <1> QED BY <1>1, <1>2 DEF ReadAt

(* A statement that was run: execution e.                                    *)
LEMMA RunServed ==
  ASSUME ConstantsAssumption, JInv, NEW r \in Sound, NEW ok \in BOOLEAN, Serve(r, ok), r.m = "run",
         NEW p, p = PageOf(r, ok), NEW C, C = cur'[r.conn]
  PROVE  \E e \in Nat :
           /\ e \in DOMAIN execs' /\ execs'[e] = r.sql /\ r.sql \in Sqls /\ r.conn \in Conns
           /\ IF ~r.keep THEN C = cur[r.conn] /\ (ok => p = OffsetPage(e, r.sql, r.offset, r.limit))
              ELSE IF ok THEN p = CursorPage(e, r.sql, 0, r.limit) /\ C = Kept(p, e, 0)
              ELSE C = NoCursor
  <1>1. PICK n \in Nat : n = Len(execs) /\ execs \in Seq(Sqls)
    BY LenProperties DEF JInv, IInv, Types
  <1>2. PICK e \in Nat : e = n + 1 /\ e = Len(execs) + 1
    BY <1>1
  <1>3. r.sql \in Sqls /\ r.conn \in Conns /\ r.keep \in BOOLEAN
    BY DEF Sound, Requests
  <1>4. /\ execs' = Append(execs, r.sql)
        /\ cur' = IF r.keep THEN [cur EXCEPT ![r.conn] = Kept(p, e, 0)] ELSE cur
    BY <1>2 DEF Serve, ServeRun
  <1>5. e \in DOMAIN execs' /\ execs'[e] = r.sql
    BY <1>1, <1>2, <1>3, <1>4, AppendProperties, LenProperties
  <1>6. C = IF r.keep THEN Kept(p, e, 0) ELSE cur[r.conn]
    BY <1>3, <1>4 DEF JInv, IInv, Types
  <1>7. p = IF ~ok THEN NoPage ELSE IF r.keep THEN CursorPage(e, r.sql, 0, r.limit)
                                              ELSE OffsetPage(e, r.sql, r.offset, r.limit)
    BY <1>2 DEF PageOf
  <1>8. Kept(NoPage, e, 0) = NoCursor
    BY DEF Kept, NoPage
  <1> QED BY <1>3, <1>5, <1>6, <1>7, <1>8

LEMMA NextServed ==
  ASSUME ConstantsAssumption, JInv, NEW r \in Sound, NEW ok \in BOOLEAN, Serve(r, ok), r.m = "next",
         NEW p, p = PageOf(r, ok), NEW C, C = cur'[r.conn], NEW B, B = cur[r.conn]
  PROVE  /\ r.conn \in Conns /\ execs' = execs
         /\ IF ok THEN /\ B # NoCursor /\ p = CursorPage(B.exec, execs[B.exec], B.pos, r.limit)
                       /\ C = Kept(p, B.exec, B.pos)
            ELSE C = NoCursor
  <1>1. r.conn \in Conns
    BY DEF Sound, Requests
  <1>2. /\ ok => B # NoCursor
        /\ cur' = [cur EXCEPT ![r.conn] = Kept(p, B.exec, B.pos)] /\ execs' = execs
    BY DEF Serve, ServeNext
  <1>3. C = Kept(p, B.exec, B.pos)
    BY <1>1, <1>2 DEF JInv, IInv, Types
  <1>4. p = IF ok THEN CursorPage(B.exec, execs[B.exec], B.pos, r.limit) ELSE NoPage
    BY DEF PageOf
  <1>5. Kept(NoPage, B.exec, B.pos) = NoCursor
    BY DEF Kept, NoPage
  <1> QED BY <1>1, <1>2, <1>3, <1>4, <1>5

(* A cursor that is open reads on.                                           *)
LEMMA NextRead ==
  ASSUME ConstantsAssumption, JInv, NEW c \in Conns, NEW B, B = cur[c], B # NoCursor,
         NEW s, s = execs[B.exec], NEW limit \in Nat \ {0},
         NEW p, p = CursorPage(B.exec, s, B.pos, limit), NEW C, C = Kept(p, B.exec, B.pos)
  PROVE  /\ B.exec \in Nat /\ B.exec \in DOMAIN execs /\ s \in Sqls /\ B.pos \in Nat /\ B.pos <= Rows[s]
         /\ Read(p, C, B.exec, s, B.pos, limit)
  <1>1. B.exec \in DOMAIN execs /\ B.pos \in Nat
    BY DEF JInv, IInv, Types, Cursors
  <1>2. B.exec \in Nat /\ s \in Sqls
    BY <1>1, LenProperties, ElementOfSeq DEF JInv, IInv, Types
  <1>3. B.pos <= Rows[s]
    BY DEF JInv, Local
  <1> QED BY <1>1, <1>2, <1>3, CursorRead

PutAt(q, pages, i, page) ==
  /\ Len(q) = i + 1 /\ DOMAIN q = 1..(i + 1) /\ q[i + 1] = page
  /\ \A k \in 1..i : q[k] = IF k <= Len(pages) THEN pages[k] ELSE NoPage

LEMMA PutIs ==
  ASSUME NEW pages \in Seq(Page), NEW i \in Nat, NEW page \in Page, NEW q, q = Put(pages, i, page),
         Len(pages) <= i
  PROVE  PutAt(q, pages, i, page)
  <1>1. PICK n \in Nat : n = Len(pages) /\ n <= i
    BY LenProperties
  <1>2. q = [[k \in 1..(i + 1) |-> IF k <= n THEN pages[k] ELSE NoPage] EXCEPT ![i + 1] = page]
    <2>1. PICK m : m = IF i < n THEN n ELSE i + 1
      OBVIOUS
    <2>2. m = i + 1
      BY <1>1, <2>1
    <2>3. Upto(pages, i) = [k \in 1..m |-> IF k <= n THEN pages[k] ELSE NoPage]
      BY <1>1, <2>1 DEF Upto
    <2> QED BY <2>2, <2>3 DEF Put
  <1>3. /\ DOMAIN q = 1..(i + 1) /\ q[i + 1] = page
        /\ \A k \in 1..i : q[k] = IF k <= n THEN pages[k] ELSE NoPage
    BY <1>2
  <1>4. q \in Seq(Page)
    BY PutType
  <1>5. Len(q) = i + 1
    BY <1>3, <1>4, LenProperties
  <1> QED BY <1>1, <1>3, <1>5 DEF PutAt

LEMMA Asked ==
  ASSUME JInv, queue # <<>>, NEW r, r = Head(queue)
  PROVE  /\ r \in Sound /\ Fits(r) /\ r.conn \in Conns /\ r.index \in Nat /\ r.offset \in Nat
         /\ r.limit \in Nat /\ r.keep \in BOOLEAN
  <1>1. r \in Sound
    BY TailSound DEF JInv, IInv
  <1>2. queue \in Seq(Sound)
    BY DEF JInv, IInv, Types
  <1>3. PICK n \in Nat : n = Len(queue) /\ DOMAIN queue = 1..n
    BY <1>2, LenProperties
  <1>4. n # 0 /\ r = queue[1]
    BY <1>2, <1>3, EmptySeq, HeadTailProperties
  <1>5. Fits(r)
    BY <1>3, <1>4 DEF JInv
  <1> QED BY <1>1, <1>5 DEF Sound, Requests

LEMMA TabAsked ==
  ASSUME ConstantsAssumption, JInv, NEW r, r \in Sound, Fits(r), r.for \in OfTab,
         NEW t, t = r.who, NEW c, c = r.conn
  PROVE  /\ t \in Tabs /\ c \in Conns /\ c = ConnOf[t] /\ tab[t] \in Tab /\ Shows(tab[t])
         /\ \A w \in Walkers : On(w, c) => ~Busy(w)
         /\ ~tab[t].cursor \/ TabCursor(tab[t], cur[c])
  <1>1. t \in Tabs /\ c \in Conns /\ c = ConnOf[t] /\ tab[t].loading
    BY DEF Sound, Requests, Fits
  <1>2. tab[t] \in Tab
    BY <1>1 DEF JInv, IInv, Types
  <1>3. Shows(tab[t]) /\ \A w \in Walkers : On(w, c) => ~Busy(w)
    BY <1>1 DEF JInv, Local
  <1>4. ~tab[t].cursor \/ TabCursor(tab[t], cur[c])
    BY <1>1, <1>3 DEF JInv, Local, Busy, Working, Through
  <1> QED BY <1>1, <1>2, <1>3, <1>4

(* The page of a re-run, and the first page of a fresh run.                  *)
Closed(p) == p.none = FALSE /\ p.cursor = FALSE
Opens(p, C, e, s) ==
  /\ p.none = FALSE
  /\ IF p.cursor THEN C = [exec |-> e, pos |-> From(1)] /\ From(1) <= Rows[s] ELSE C = NoCursor
LEMMA RerunPage ==
  ASSUME ConstantsAssumption, NEW e \in Nat, e \in DOMAIN execs', NEW s \in Sqls, execs'[e] = s,
         NEW i \in Nat, NEW a \in Nat, a = From(i), a <= Rows[s],
         NEW l \in Nat \ {0}, l = PageSize, NEW p, p = OffsetPage(e, s, a, l)
  PROVE  GoodPage(p, e, s, i)' /\ Closed(p)
  <1>1. ReadAt(p, e, s, a, l)
    BY OffsetRead
  <1>2. PICK n \in Nat :
          /\ p.rows = Stretch(e, a + 1, a + n) /\ a + n <= Rows[s]
          /\ IF p.truncated THEN n = l ELSE a + n = Rows[s] /\ n <= l
    BY <1>1 DEF ReadAt
  <1>3. GoodPage(p, e, s, i)'
    BY <1>1, <1>2, PageAtIsNext DEF ReadAt
  <1> QED BY <1>1, <1>3 DEF ReadAt, Closed

LEMMA FreshPage ==
  ASSUME ConstantsAssumption, NEW e \in Nat, e \in DOMAIN execs', NEW s \in Sqls, execs'[e] = s,
         NEW p, NEW C, p = CursorPage(e, s, 0, PageSize), C = Kept(p, e, 0)
  PROVE  GoodPage(p, e, s, 0)' /\ Opens(p, C, e, s)
  <1>1. PICK l \in Nat \ {0} : l = PageSize /\ Rows[s] \in Nat /\ From(0) = 0 /\ From(1) = l
    BY DEF ConstantsAssumption, From
  <1>2. Read(p, C, e, s, 0, l)
    BY <1>1, CursorRead
  <1>3. PICK n \in Nat :
          /\ p.rows = Stretch(e, 0 + 1, 0 + n) /\ 0 + n <= Rows[s]
          /\ IF p.truncated THEN n = l /\ C = [exec |-> e, pos |-> 0 + n]
                            ELSE 0 + n = Rows[s] /\ n <= l /\ C = NoCursor
    BY <1>2 DEF Read
  <1>4. p.none = FALSE /\ p.cursor = p.truncated /\ p.truncated \in BOOLEAN
    BY <1>2 DEF Read
  <1>5. GoodPage(p, e, s, 0)'
    <2>1. From(0) <= Rows[s] /\ p.rows = Stretch(e, From(0) + 1, From(0) + n) /\ From(0) + n <= Rows[s]
      BY <1>1, <1>3
    <2>2. IF p.truncated THEN n = PageSize ELSE From(0) + n = Rows[s] /\ n <= PageSize
      BY <1>1, <1>3
    <2> QED BY <1>4, <2>1, <2>2, PageAtIsNext
  <1> QED BY <1>1, <1>3, <1>4, <1>5 DEF Opens

(* A tab that has one page, at its place.                                    *)
Single(T, i, p) ==
  DOMAIN T.pages = 1..(i + 1) /\ Len(T.pages) = i + 1 /\ T.pages[i + 1] = p

LEMMA OnePage ==
  ASSUME ConstantsAssumption, NEW e \in DOMAIN execs', NEW s \in Sqls, NEW i \in Nat,
         NEW p \in Page, GoodPage(p, e, s, i)', ~p.none,
         NEW T, T.sql = s, T.offset = i, T.shown = p, T.pages = Put(<<>>, i, p)
  PROVE  Shows(T)' /\ Single(T, i, p)
  <1>1. <<>> \in Seq(Page) /\ Len(<<>>) = 0
    BY EmptySeq
  <1>2. PICK q : q = Put(<<>>, i, p)
    OBVIOUS
  <1>3. /\ Len(q) = i + 1 /\ DOMAIN q = 1..(i + 1) /\ q[i + 1] = p
        /\ \A k \in 1..i : q[k] = NoPage
    <2>1. PICK none \in Seq(Page) : none = <<>>
      BY <1>1
    <2>2. Len(none) = 0 /\ Len(none) <= i
      BY <1>1, <2>1
    <2>3. q = Put(none, i, p)
      BY <1>2, <2>1
    <2>4. /\ Len(q) = i + 1 /\ DOMAIN q = 1..(i + 1) /\ q[i + 1] = p
          /\ \A k \in 1..i : q[k] = IF k <= Len(none) THEN none[k] ELSE NoPage
      <3>1. PutAt(q, none, i, p)
        BY <2>2, <2>3, PutIs
      <3> QED BY <3>1 DEF PutAt
    <2> QED BY <2>2, <2>4
  <1>5. ASSUME NEW k \in DOMAIN q, ~q[k].none PROVE GoodPage(q[k], e, s, k - 1)'
    <2>1. k \in 1..i => q[k].none
      BY <1>3 DEF NoPage
    <2>2. k = i + 1 /\ k - 1 = i
      BY <1>3, <1>5, <2>1
    <2> QED BY <1>3, <2>2
  <1>6. From(i) <= Rows[s] /\ From(i)' = From(i)
    BY DEF GoodPage, From
  <1>7. Shows(T)'
    BY <1>2, <1>5, <1>6 DEF Shows
  <1> QED BY <1>2, <1>3, <1>7 DEF Single

LEMMA RunAnsweredKeeps ==
  ASSUME OwnConns, ConstantsAssumption, JInv, IInv', queue # <<>>, NEW r, r = Head(queue),
         NEW ok \in BOOLEAN, Serve(r, ok), NEW p, p = PageOf(r, ok), RunAnswered(r, ok, p)
  PROVE  JInv'
  <1>1. r \in Sound /\ Fits(r) /\ r.for = "run" /\ r.index \in Nat /\ r.keep \in BOOLEAN
    BY Asked DEF RunAnswered
  <1>2. PICK t, c : t = r.who /\ c = r.conn
    OBVIOUS
  <1>3. PICK B, C : B = cur[c] /\ C = cur'[c]
    OBVIOUS
  <1>4. /\ t \in Tabs /\ c \in Conns /\ c = ConnOf[t] /\ Shows(tab[t])
        /\ \A w \in Walkers : On(w, c) => ~Busy(w)
        /\ ~tab[t].cursor \/ TabCursor(tab[t], B)
    BY <1>1, <1>2, <1>3, TabAsked DEF OfTab
  <1>5. PICK i, s : i \in Nat /\ i = r.index /\ s = r.sql
    BY <1>1
  <1>6. /\ r.m = "run" /\ r.limit = PageSize /\ r.offset = From(i) /\ r.keep = (i = 0)
        /\ From(i) <= Rows[s]
    BY <1>1, <1>5 DEF Fits
  <1>7. PICK e \in Nat :
          /\ e \in DOMAIN execs' /\ execs'[e] = s /\ s \in Sqls
          /\ IF ~r.keep THEN C = B /\ (ok => p = OffsetPage(e, s, From(i), PageSize))
             ELSE IF ok THEN p = CursorPage(e, s, 0, PageSize) /\ C = Kept(p, e, 0)
             ELSE C = NoCursor
    <2>1. \E e \in Nat :
           /\ e \in DOMAIN execs' /\ execs'[e] = r.sql /\ r.sql \in Sqls /\ r.conn \in Conns
           /\ IF ~r.keep THEN C = cur[r.conn] /\ (ok => p = OffsetPage(e, r.sql, r.offset, r.limit))
              ELSE IF ok THEN p = CursorPage(e, r.sql, 0, r.limit) /\ C = Kept(p, e, 0)
              ELSE C = NoCursor
      BY <1>1, <1>2, <1>3, <1>6, RunServed
    <2> QED BY <1>2, <1>3, <1>5, <1>6, <2>1
  <1>8. p \in Page
    BY <1>1, Served DEF JInv, IInv
  <1>9. PICK T :
          /\ T = IF ok THEN [sql |-> s, loading |-> FALSE, offset |-> i, cursor |-> p.cursor,
                             pages |-> Put(<<>>, i, p), shown |-> p]
                       ELSE [tab[t] EXCEPT !.loading = FALSE, !.shown = NoPage]
          /\ tab' = [tab EXCEPT ![t] = T]
    BY <1>2, <1>5 DEF RunAnswered, FreshCache, JInv, IInv, Types
  <1>10. UNCHANGED walk /\ queue' = Tail(queue)
    BY DEF RunAnswered
  <1>11. B # NoCursor => B.exec \in DOMAIN execs /\ B.pos <= Rows[execs[B.exec]]
    BY <1>3, <1>4, CursorIs DEF JInv, IInv, Local, Over
  <1>12. Longer
    BY <1>1, ServeLonger
  <1>13. B # NoCursor => B.pos <= Rows[execs'[B.exec]]
    BY <1>11, <1>12 DEF Longer
  <1>14. CASE ok
    <2>1. /\ GoodPage(p, e, s, i)' /\ p.none = FALSE
          /\ IF p.cursor THEN i = 0 /\ C = [exec |-> e, pos |-> From(1)] /\ From(1) <= Rows[s]
                         ELSE C = B \/ C = NoCursor
      <3>1. CASE i = 0
        <4>1. p = CursorPage(e, s, 0, PageSize) /\ C = Kept(p, e, 0)
          BY <1>6, <1>7, <1>14, <3>1
        <4>2. GoodPage(p, e, s, 0)' /\ Opens(p, C, e, s)
          BY <1>7, <4>1, FreshPage
        <4> QED BY <3>1, <4>2 DEF Opens
      <3>2. CASE i # 0
        <4>1. C = B /\ p = OffsetPage(e, s, From(i), PageSize)
          BY <1>6, <1>7, <1>14, <3>2
        <4>2. PICK a \in Nat, l \in Nat \ {0} : a = From(i) /\ l = PageSize
          BY <1>5, FromIs DEF ConstantsAssumption
        <4>3. a <= Rows[s] /\ p = OffsetPage(e, s, a, l)
          BY <1>6, <4>1, <4>2
        <4>4. GoodPage(p, e, s, i)' /\ Closed(p)
          BY <1>5, <1>7, <4>2, <4>3, RerunPage
        <4> QED BY <4>1, <4>4 DEF Closed
      <3> QED BY <3>1, <3>2
    <2>2. T.sql = s /\ T.offset = i /\ T.shown = p /\ T.pages = Put(<<>>, i, p) /\ T.cursor = p.cursor
      BY <1>9, <1>14
    <2>3. Shows(T)' /\ DOMAIN T.pages = 1..(i + 1) /\ Len(T.pages) = i + 1 /\ T.pages[i + 1] = p
      <3>1. GoodPage(p, e, s, i)' /\ ~p.none /\ p \in Page
        BY <1>8, <2>1
      <3>2. Shows(T)' /\ Single(T, i, p)
        BY <1>5, <1>7, <2>2, <3>1, OnePage
      <3> QED BY <3>2 DEF Single
    <2>4. ASSUME T.cursor PROVE TabCursor(T, C)'
      <3>1. i = 0 /\ C = [exec |-> e, pos |-> From(1)]
        BY <2>1, <2>2, <2>4
      <3>2. DOMAIN T.pages = {1} /\ Len(T.pages) = 1 /\ T.pages[1] = p /\ 1 - 1 = 0
        BY <2>3, <3>1
      <3>3. GoodPage(p, e, s, 0)' /\ ~p.none
        BY <2>1, <3>1
      <3>4. C.exec = e /\ C.pos = From(1)
        BY <3>1
      <3>5. \A k \in DOMAIN T.pages : k = 1 /\ ~T.pages[k].none /\ GoodPage(T.pages[k], e, s, k - 1)'
        BY <3>2, <3>3
      <3> QED BY <1>7, <2>2, <3>2, <3>4, <3>5 DEF TabCursor, From
    <2>5. C # NoCursor => C.pos <= Rows[execs'[C.exec]]
      BY <1>7, <1>13, <2>1
    <2>6. Moves(c, C)
      BY <1>1, <1>2, <1>3, <2>5, ServeMoves
    <2>7. Elsewhere(c) /\ Local(c)'
      BY <1>4, <1>9, <1>10, <2>3, <2>4, <2>6, TabMoves
    <2> QED BY <1>2, <1>4, <1>10, <2>7, AnswerGoes
  <1>15. CASE ~ok
    <2>1. C = B \/ C = NoCursor
      BY <1>7, <1>15
    <2>2. C # NoCursor => C.pos <= Rows[execs'[C.exec]]
      BY <1>13, <2>1
    <2>3. Moves(c, C)
      BY <1>1, <1>2, <1>3, <2>2, ServeMoves
    <2>4. PICK S \in Tab : S = tab[t]
      BY <1>4 DEF JInv, IInv, Types
    <2>5. /\ T.sql = S.sql /\ T.offset = S.offset /\ T.pages = S.pages /\ T.cursor = S.cursor
          /\ T.shown.none
      BY <1>9, <1>15, <2>4 DEF Tab, NoPage
    <2>6. Shows(T)'
      <3>1. Shows(T)
        BY <1>4, <2>4, <2>5 DEF Shows
      <3> QED BY <1>12, <3>1, ShowsStays
    <2>7. ~T.cursor \/ TabCursor(T, C)'
      <3>1. ~T.cursor \/ TabCursor(T, C)
        BY <1>4, <2>1, <2>4, <2>5 DEF TabCursor
      <3>2. Over(C)
        BY <1>11, <2>1 DEF Over
      <3> QED BY <1>12, <3>1, <3>2, TabCursorStays
    <2>8. Elsewhere(c) /\ Local(c)'
      BY <1>4, <1>9, <1>10, <2>3, <2>6, <2>7, TabMoves
    <2> QED BY <1>2, <1>4, <1>10, <2>8, AnswerGoes
  <1> QED BY <1>14, <1>15

(* The page behind the last one a tab keeps.                                 *)
Turns(p, C, e, s, i) ==
  /\ p.none = FALSE
  /\ IF p.cursor THEN C = [exec |-> e, pos |-> From(i + 1)] /\ From(i + 1) <= Rows[s]
                 ELSE C = NoCursor

LEMMA NextPageIs ==
  ASSUME ConstantsAssumption, NEW e \in Nat, e \in DOMAIN execs', NEW s \in Sqls, execs'[e] = s,
         NEW i \in Nat, NEW a \in Nat, a = From(i), a <= Rows[s],
         NEW l \in Nat \ {0}, l = PageSize, NEW p, NEW C, Read(p, C, e, s, a, l)
  PROVE  GoodPage(p, e, s, i)' /\ Turns(p, C, e, s, i)
  <1>1. PICK n \in Nat :
          /\ p.rows = Stretch(e, a + 1, a + n) /\ a + n <= Rows[s]
          /\ IF p.truncated THEN n = l /\ C = [exec |-> e, pos |-> a + n]
                            ELSE a + n = Rows[s] /\ n <= l /\ C = NoCursor
    BY DEF Read
  <1>2. p.none = FALSE /\ p.cursor = p.truncated /\ p.truncated \in BOOLEAN
    BY DEF Read
  <1>3. From(i + 1) = a + l
    BY FromIs
  <1>4. GoodPage(p, e, s, i)'
    BY <1>1, <1>2, PageAtIsNext
  <1> QED BY <1>1, <1>2, <1>3, <1>4 DEF Turns

KeptAll(T, e, s, i) ==
  Len(T.pages) = i + 1 /\ \A k \in DOMAIN T.pages : ~T.pages[k].none /\ GoodPage(T.pages[k], e, s, k - 1)

LEMMA AddPage ==
  ASSUME ConstantsAssumption, NEW e \in DOMAIN execs', NEW s \in Sqls, NEW i \in Nat, Longer,
         NEW p \in Page, GoodPage(p, e, s, i)', ~p.none, NEW pages \in Seq(Page), Len(pages) = i,
         \A k \in DOMAIN pages : ~pages[k].none /\ GoodPage(pages[k], e, s, k - 1),
         NEW T, T.sql = s, T.offset = i, T.shown = p, T.pages = Put(pages, i, p)
  PROVE  Shows(T)' /\ KeptAll(T, e, s, i)'
  <1>1. PICK q : q = Put(pages, i, p)
    OBVIOUS
  <1>2. PutAt(q, pages, i, p)
    BY <1>1, PutIs
  <1>3. /\ Len(q) = i + 1 /\ DOMAIN q = 1..(i + 1) /\ q[i + 1] = p
        /\ \A k \in 1..i : k \in DOMAIN pages /\ q[k] = pages[k]
    BY <1>2, LenProperties DEF PutAt
  <1>4. ASSUME NEW k \in DOMAIN q PROVE ~q[k].none /\ GoodPage(q[k], e, s, k - 1)'
    <2>1. CASE k = i + 1
      <3>1. k - 1 = i
        BY <2>1
      <3> QED BY <1>3, <2>1, <3>1
    <2>2. CASE k \in 1..i
      <3>1. GoodPage(pages[k], e, s, k - 1)'
        BY <1>3, <2>2, PageStays
      <3> QED BY <1>3, <2>2, <3>1
    <2> QED BY <1>3, <2>1, <2>2
  <1>5. From(i) <= Rows[s] /\ From(i)' = From(i)
    BY DEF GoodPage, From
  <1>6. Shows(T)'
    BY <1>1, <1>4, <1>5 DEF Shows
  <1>7. KeptAll(T, e, s, i)'
    BY <1>1, <1>3, <1>4 DEF KeptAll
  <1> QED BY <1>6, <1>7

LEMMA PageAnsweredKeeps ==
  ASSUME OwnConns, ConstantsAssumption, JInv, IInv', queue # <<>>, NEW r, r = Head(queue),
         NEW ok \in BOOLEAN, Serve(r, ok), NEW p, p = PageOf(r, ok), PageAnswered(r, ok, p)
  PROVE  JInv'
  <1>1. r \in Sound /\ Fits(r) /\ r.for = "page" /\ r.index \in Nat
    BY Asked DEF PageAnswered
  <1>2. PICK t, c : t = r.who /\ c = r.conn
    OBVIOUS
  <1>3. PICK B, C : B = cur[c] /\ C = cur'[c]
    OBVIOUS
  <1>4. /\ t \in Tabs /\ c \in Conns /\ c = ConnOf[t] /\ Shows(tab[t])
        /\ \A w \in Walkers : On(w, c) => ~Busy(w)
        /\ ~tab[t].cursor \/ TabCursor(tab[t], B)
    BY <1>1, <1>2, <1>3, TabAsked DEF OfTab
  <1>5. PICK S \in Tab : S = tab[t]
    BY <1>4 DEF JInv, IInv, Types
  <1>6. PICK i \in Nat, l \in Nat \ {0}, s \in Named : i = r.index /\ s = S.sql /\ l = PageSize
    BY <1>1 DEF ConstantsAssumption, Tab
  <1>7. /\ r.m = "next" /\ r.limit = l /\ s \in Sqls /\ S.cursor /\ i = Len(S.pages)
        /\ From(i) <= Rows[s]
    BY <1>1, <1>2, <1>5, <1>6 DEF Fits
  <1>8. /\ r.conn \in Conns /\ execs' = execs
        /\ IF ok THEN /\ B # NoCursor /\ p = CursorPage(B.exec, execs[B.exec], B.pos, l)
                      /\ C = Kept(p, B.exec, B.pos)
           ELSE C = NoCursor
    <2>1. /\ r.conn \in Conns /\ execs' = execs
          /\ IF ok THEN /\ B # NoCursor /\ p = CursorPage(B.exec, execs[B.exec], B.pos, r.limit)
                        /\ C = Kept(p, B.exec, B.pos)
             ELSE C = NoCursor
      BY <1>1, <1>2, <1>3, <1>7, NextServed
    <2> QED BY <1>7, <2>1
  <1>9. Longer
    BY <1>1, ServeLonger
  <1>10. p \in Page
    BY SMTT(30), <1>1, Served DEF JInv, IInv
  <1>11. UNCHANGED walk
    BY DEF PageAnswered
  <1>12. tab \in [Tabs -> Tab]
    BY DEF JInv, IInv, Types
  <1>13. CASE ok
    <2>1. PICK T : /\ T = [S EXCEPT !.loading = FALSE, !.shown = p, !.offset = i,
                                    !.cursor = p.cursor, !.pages = Put(S.pages, i, p)]
                   /\ tab' = [tab EXCEPT ![t] = T] /\ queue' = Tail(queue)
      <3>1. /\ tab' = [tab EXCEPT ![t].loading = FALSE, ![t].shown = p, ![t].offset = i,
                                  ![t].cursor = p.cursor, ![t].pages = Put(@, i, p)]
            /\ queue' = Tail(queue)
        BY <1>2, <1>6, <1>13 DEF PageAnswered
      <3> QED BY <1>4, <1>5, <1>12, <3>1
    <2>2. /\ T.sql = s /\ T.offset = i /\ T.shown = p /\ T.pages = Put(S.pages, i, p)
          /\ T.cursor = p.cursor
      BY <1>6, <2>1 DEF Tab
    <2>3. PICK e, x : e = B.exec /\ x = execs[B.exec] /\ B # NoCursor
      BY <1>8, <1>13
    <2>4. /\ p = CursorPage(e, x, B.pos, l) /\ C = Kept(p, e, B.pos)
      BY <1>8, <1>13, <2>3
    <2>5. /\ e \in Nat /\ e \in DOMAIN execs /\ x \in Sqls /\ B.pos \in Nat /\ B.pos <= Rows[x]
          /\ Read(p, C, e, x, B.pos, l)
      BY <1>3, <1>4, <2>3, <2>4, NextRead
    <2>6. /\ x = s /\ B.pos = From(i)
          /\ \A k \in DOMAIN S.pages : ~S.pages[k].none /\ GoodPage(S.pages[k], e, s, k - 1)
      BY <1>4, <1>5, <1>6, <1>7, <2>3 DEF TabCursor
    <2>7. PICK a \in Nat : a = From(i) /\ a = B.pos
      BY <2>5, <2>6
    <2>8. GoodPage(p, e, s, i)' /\ Turns(p, C, e, s, i)
      <3>1. e \in DOMAIN execs' /\ execs'[e] = s
        BY <1>8, <2>3, <2>5, <2>6
      <3>2. a <= Rows[s] /\ Read(p, C, e, s, a, l)
        BY <2>5, <2>6, <2>7
      <3> QED BY <1>6, <1>7, <2>5, <2>7, <3>1, <3>2, NextPageIs
    <2>9. Shows(T)' /\ KeptAll(T, e, s, i)'
      <3>1. e \in DOMAIN execs' /\ ~p.none
        BY <1>8, <2>5, <2>8 DEF Turns
      <3>2. PICK pages \in Seq(Page) : pages = S.pages
        BY DEF Tab
      <3> QED BY <1>7, <1>9, <1>10, <2>2, <2>6, <2>8, <3>1, <3>2, AddPage
    <2>10. ASSUME T.cursor PROVE TabCursor(T, C)'
      <3>1. C.exec = e /\ C.pos = From(i + 1) /\ execs'[e] = s
        BY <1>8, <2>2, <2>3, <2>6, <2>8, <2>10 DEF Turns
      <3> QED BY <2>2, <2>9, <3>1 DEF TabCursor, KeptAll, From
    <2>11. C # NoCursor => C.pos <= Rows[execs'[C.exec]]
      <3>1. C # NoCursor => C.exec = e /\ C.pos = From(i + 1) /\ From(i + 1) <= Rows[s]
        BY <2>8 DEF Turns
      <3>2. execs'[e] = s
        BY <1>8, <2>3, <2>6
      <3> QED BY <3>1, <3>2
    <2>12. Moves(c, C)
      BY <1>1, <1>2, <1>3, <2>11, ServeMoves
    <2>13. Elsewhere(c) /\ Local(c)'
      BY <1>4, <1>11, <2>1, <2>9, <2>10, <2>12, TabMoves
    <2> QED BY <1>2, <1>4, <2>1, <2>13, AnswerGoes
  <1>14. CASE ~ok
    <2>1. C = NoCursor
      BY <1>8, <1>14
    <2>2. Moves(c, C)
      BY <1>1, <1>2, <1>3, <2>1, ServeMoves
    <2>3. ASSUME NEW T, tab' = [tab EXCEPT ![t] = T], T.sql = S.sql, T.offset = S.offset,
                 T.pages = S.pages, T.cursor = FALSE, T.shown.none \/ T.shown = S.shown
          PROVE  Elsewhere(c) /\ Local(c)'
      <3>1. Shows(T)
        BY <1>4, <1>5, <2>3 DEF Shows
      <3>2. Shows(T)'
        BY <1>9, <3>1, ShowsStays
      <3> QED BY <1>4, <1>11, <2>2, <2>3, <3>2, TabMoves
    <2>4. CASE /\ Rerunnable(s)
               /\ tab' = [tab EXCEPT ![t].cursor = FALSE, ![t].loading = TRUE, ![t].shown = NoPage]
               /\ queue' = Append(Tail(queue), Rerun(t, s, i))
      <3>1. PICK T : /\ T = [S EXCEPT !.cursor = FALSE, !.loading = TRUE, !.shown = NoPage]
                     /\ tab' = [tab EXCEPT ![t] = T]
        BY <1>4, <1>5, <1>12, <2>4
      <3>2. /\ T.sql = S.sql /\ T.offset = S.offset /\ T.pages = S.pages /\ T.cursor = FALSE
            /\ T.shown.none /\ T.loading = TRUE
        BY <3>1 DEF Tab, NoPage
      <3>3. Elsewhere(c) /\ Local(c)'
        BY <2>3, <3>1, <3>2
      <3>4. PICK q \in Requests : q = Rerun(t, s, i)
        BY <1>4, <2>4, RerunAllowed DEF Allowed, Rerunnable
      <3>5. tab'[t].loading
        BY <1>4, <1>12, <3>1, <3>2
      <3>6. q.conn = c /\ Fits(q)'
        BY <1>4, <1>7, <3>4, <3>5, RerunFits
      <3> QED BY <1>2, <1>4, <2>4, <3>3, <3>4, <3>6, AnswerGoes
    <2>5. CASE tab' = GaveUp(t) /\ queue' = Tail(queue)
      <3>1. PICK T : /\ T = [S EXCEPT !.cursor = FALSE, !.loading = FALSE]
                     /\ tab' = [tab EXCEPT ![t] = T]
        BY <1>4, <1>5, <1>12, <2>5 DEF GaveUp
      <3>2. /\ T.sql = S.sql /\ T.offset = S.offset /\ T.pages = S.pages /\ T.cursor = FALSE
            /\ T.shown = S.shown
        BY <3>1 DEF Tab
      <3>3. Elsewhere(c) /\ Local(c)'
        BY <2>3, <3>1, <3>2
      <3> QED BY <1>2, <1>4, <2>5, <3>3, AnswerGoes
    <2> QED BY <1>2, <1>5, <1>6, <1>14, <2>4, <2>5 DEF PageAnswered
  <1> QED BY SMTT(30), <1>13, <1>14

(* What a walk has after one more page.                                      *)
Gains(p, C, e, s) ==
  /\ p.cursor = p.truncated /\ p.truncated \in BOOLEAN /\ (IsLast(p) <=> ~p.truncated)
  /\ IF p.truncated THEN C.exec = e /\ C.pos <= Rows[s] ELSE C = NoCursor

LEMMA ReadsOn ==
  ASSUME ConstantsAssumption, NEW e \in Nat, e \in DOMAIN execs', NEW s \in Sqls, execs'[e] = s,
         NEW pos \in Nat, NEW rows, rows = Stretch(e, 1, pos), NEW limit \in Nat \ {0},
         NEW p, NEW C, Read(p, C, e, s, pos, limit), NEW more, more = rows \o p.rows
  PROVE  Gains(p, C, e, s) /\ Behind(C, more, s)' /\ (~p.truncated => Whole(more, s, 0)')
  <1>1. PICK n \in Nat :
          /\ p.rows = Stretch(e, pos + 1, pos + n) /\ pos + n <= Rows[s]
          /\ IF p.truncated THEN n = limit /\ C = [exec |-> e, pos |-> pos + n]
                            ELSE pos + n = Rows[s] /\ n <= limit /\ C = NoCursor
    BY DEF Read
  <1>2. p.cursor = p.truncated /\ p.truncated \in BOOLEAN
    BY DEF Read
  <1>3. PICK b : b = p.rows /\ Len(b) = n
    BY <1>1, StretchLen
  <1>4. p.truncated => p.rows # <<>>
    <2>1. p.truncated => Len(b) # 0
      BY <1>1, <1>3
    <2> QED BY <1>3, <2>1, EmptySeq
  <1>5. PICK m \in Nat : m = pos + n
    OBVIOUS
  <1>6. more = Stretch(e, 1, m)
    <2>1. Stretch(e, 1, pos) \o Stretch(e, pos + 1, pos + n) = Stretch(e, 1, pos + n)
      BY StretchJoins
    <2>2. Stretch(e, 1, pos + n) = Stretch(e, 1, m) /\ p.rows = Stretch(e, pos + 1, pos + n)
      BY <1>1, <1>5
    <2> QED BY <2>1, <2>2
  <1>7. Gains(p, C, e, s)
    BY <1>1, <1>2, <1>4 DEF Gains, IsLast
  <1>8. Behind(C, more, s)'
    <2>1. C = NoCursor \/ (C.exec = e /\ C.pos = m)
      BY <1>1, <1>5
    <2> QED BY <1>6, <2>1 DEF Behind, NoCursor, Stretch
  <1>9. ~p.truncated => Whole(more, s, 0)'
    <2>1. ~p.truncated => m = Rows[s]
      BY <1>1, <1>5
    <2>2. ~p.truncated => more = Stretch(e, 0 + 1, Rows[s])
      BY <1>6, <2>1
    <2> QED BY <2>2 DEF Whole, Stretch
  <1> QED BY <1>7, <1>8, <1>9

LEMMA NothingRead ==
  ASSUME NEW e \in Nat PROVE Stretch(e, 1, 0) = <<>>
  <1>1. PICK r : r = Stretch(e, 1, 0)
    OBVIOUS
  <1>2. r \in Seq(Row) /\ Len(r) = 0
    BY <1>1, FirstStretch
  <1> QED BY <1>1, <1>2, EmptySeq

LEMMA WalkAsked ==
  ASSUME ConstantsAssumption, JInv, NEW r, r \in Sound, Fits(r), r.for \in OfWalk,
         NEW w, w = r.who, NEW c, c = r.conn
  PROVE  /\ w \in Walkers /\ c \in Conns /\ On(w, c) /\ walk[w] \in Walk
         /\ walk[w].pc = WaitsAt[r.for] /\ Busy(w) /\ walk[w].sql \in Reads
         /\ WalkAt(walk[w], cur[c]) /\ (r.for = "closed" => Ended(walk[w].end))
  <1>1. w \in Walkers /\ c \in Conns /\ On(w, c) /\ walk[w].pc = WaitsAt[r.for]
    BY DEF Sound, Requests, Fits, On
  <1>2. walk[w] \in Walk
    BY <1>1 DEF JInv, IInv, Types
  <1>3. Busy(w)
    BY <1>1 DEF Busy, Working, WaitsAt, OfWalk
  <1>4. walk[w].sql \in Reads /\ (r.for = "closed" => Ended(walk[w].end))
    BY DEF Sound
  <1>5. WalkAt(walk[w], cur[c])
    BY <1>1 DEF JInv, Local
  <1> QED BY <1>1, <1>2, <1>3, <1>4, <1>5

(* A walk goes on, or ends and says so to its tab.                           *)
LEMMA WalkGoesOn ==
  ASSUME OwnConns, ConstantsAssumption, JInv, NEW w \in Walkers, NEW c \in Conns, On(w, c), Busy(w),
         NEW V, V.conn = c, V.tab = walk[w].tab, V.pc # "asking",
         walk' = [walk EXCEPT ![w] = V], NEW C, Moves(c, C), WalkAt(V, C)',
         \/ UNCHANGED tab /\ (V.pc \in Through \/ C = NoCursor)
         \/ \E W, pc : /\ tab' = Told(W, pc) /\ W.tab = V.tab /\ Ended(pc)
                       /\ V.tab # NoTab \/ C = NoCursor
  PROVE  Elsewhere(c) /\ Local(c)'
  <1>1. walk'[w] = V
    BY DEF JInv, IInv, Types
  <1>2. ASSUME NEW v \in Walkers \ {w} PROVE Alike(walk'[v], walk[v]) /\ (On(v, c) => ~Busy(v))
    BY DEF JInv, IInv, Types, Alike, Local
  <1>3. V.tab = NoTab \/ (V.tab \in Tabs /\ ConnOf[V.tab] = c)
    <2>1. walk[w] \in Walk /\ WalkAt(walk[w], cur[c])
      BY DEF JInv, IInv, Types, Local
    <2> QED BY <2>1 DEF WalkAt, Walk, On
  <1>4. PICK S : S = tab /\ S \in [Tabs -> Tab]
    BY DEF JInv, IInv, Types
  <1>5. ASSUME NEW t \in Tabs, ConnOf[t] # c PROVE tab'[t] = tab[t]
    <2>1. V.tab # t
      BY <1>3, <1>5 DEF ConstantsAssumption
    <2> QED BY <1>4, <2>1 DEF Told
  <1>6. ASSUME NEW t \in Tabs, ConnOf[t] = c PROVE Spared(t, V, C)
    <2>1. PICK T \in Tab : T = tab[t] /\ ~T.loading
      BY <1>4, <1>6 DEF JInv, Local
    <2>2. V.tab = NoTab \/ V.tab = t
      BY <1>3, <1>6 DEF OwnConns
    <2>3. C = NoCursor => TabCursor(T, C)'
      BY DEF TabCursor, NoCursor
    <2>4. CASE UNCHANGED tab /\ (V.pc \in Through \/ C = NoCursor)
      BY <2>1, <2>3, <2>4 DEF Spared
    <2>5. CASE \E W, pc : /\ tab' = Told(W, pc) /\ W.tab = V.tab /\ Ended(pc)
                          /\ V.tab # NoTab \/ C = NoCursor
      <3>1. PICK W, pc : /\ tab' = Told(W, pc) /\ W.tab = V.tab /\ Ended(pc)
                         /\ V.tab # NoTab \/ C = NoCursor
        BY <2>5
      <3>2. CASE V.tab = NoTab
        BY <2>1, <2>3, <3>1, <3>2 DEF Told, Spared
      <3>3. CASE V.tab # NoTab
        <4>1. V.tab = t
          BY <2>2, <3>3
        <4>2. tab' = [tab EXCEPT ![t].cursor = FALSE]
          BY <3>1, <3>3, <4>1 DEF Told
        <4>3. tab'[t] = [T EXCEPT !.cursor = FALSE]
          BY <1>4, <2>1, <4>2
        <4> QED BY <2>1, <4>3 DEF Spared
      <3> QED BY <3>2, <3>3
    <2> QED BY <2>4, <2>5
  <1> QED BY <1>1, <1>2, <1>5, <1>6, WalkMoves

(* A walk leaves its read: its cursor, if it has one open, is closed first.  *)
LEMMA LeaveKeeps ==
  ASSUME OwnConns, ConstantsAssumption, JInv, IInv', queue # <<>>, NEW c \in Conns,
         c = Head(queue).conn, NEW w \in Walkers, On(w, c), Busy(w),
         NEW W \in Walk, W.conn = c, W.tab = walk[w].tab, NEW end, Ended(end), Leave(w, W, end),
         NEW C, Moves(c, C), W.open \/ C = NoCursor, W.open => end # "done",
         end = "done" => Whole(W.rows, W.sql, W.skipped)'
  PROVE  JInv'
  <1>1. W.tab # NoTab => ConnOf[W.tab] = c
    <2>1. WalkAt(walk[w], cur[c])
      BY DEF JInv, Local
    <2> QED BY <2>1 DEF WalkAt, On
  <1>2. CASE W.open
    <2>1. PICK V : V = [W EXCEPT !.pc = "closing", !.end = end]
      OBVIOUS
    <2>2. /\ V.pc = "closing" /\ V.end = end /\ V.conn = c /\ V.tab = W.tab
      BY <2>1 DEF Walk
    <2>3. /\ walk' = [walk EXCEPT ![w] = V] /\ UNCHANGED tab /\ V.pc # "asking"
          /\ queue' = Append(Tail(queue), CloseCursor(w, c))
      BY <1>2, <2>1, <2>2 DEF Leave
    <2>4. WalkAt(V, C)'
      BY <1>1, <1>2, <2>2 DEF WalkAt
    <2>5. Elsewhere(c) /\ Local(c)'
      <3>1. V.pc \in Through
        BY <2>2 DEF Through
      <3> QED BY <2>2, <2>3, <2>4, <3>1, WalkGoesOn
    <2>6. PICK r \in Requests : r = CloseCursor(w, c)
      BY RequestType DEF CloseCursor, Request, Requests, OfTab, OfWalk, Named
    <2>7. walk'[w].conn = c /\ walk'[w].pc = "closing"
      BY <2>2, <2>3 DEF JInv, IInv, Types
    <2>8. r.conn = c /\ Fits(r)'
      BY <2>6, <2>7, WalkFits
    <2> QED BY <2>3, <2>5, <2>6, <2>8, AnswerGoes
  <1>3. CASE ~W.open
    <2>1. PICK V : V = [W EXCEPT !.pc = end]
      OBVIOUS
    <2>2. /\ V.pc = end /\ V.conn = c /\ V.tab = W.tab /\ V.rows = W.rows /\ V.sql = W.sql
          /\ V.skipped = W.skipped /\ V.pc # "asking"
      BY <2>1 DEF Walk, Ended
    <2>3. walk' = [walk EXCEPT ![w] = V] /\ tab' = Told(W, end) /\ queue' = Tail(queue)
      BY <1>3, <2>1 DEF Leave
    <2>4. WalkAt(V, C)'
      <3>1. V.pc \notin {"first", "more", "rest", "closing", "asking"}
        BY <2>2 DEF Ended
      <3>2. V.pc = "done" => Whole(V.rows, V.sql, V.skipped)'
        BY <2>2
      <3> QED BY <1>1, <2>2, <3>1, <3>2 DEF WalkAt
    <2>5. Elsewhere(c) /\ Local(c)'
      BY <1>3, <2>2, <2>3, <2>4, WalkGoesOn
    <2> QED BY <2>3, <2>5, AnswerGoes
  <1> QED BY <1>2, <1>3

LEMMA DrainedKeeps ==
  ASSUME OwnConns, ConstantsAssumption, JInv, IInv', queue # <<>>, NEW c \in Conns,
         c = Head(queue).conn, NEW w \in Walkers, On(w, c), Busy(w), walk[w].sql \in Reads, walk[w].skipped = 0,
         NEW p \in Page, Drained(w, p), NEW C, Moves(c, C),
         NEW e \in Nat, e \in DOMAIN execs', execs'[e] = walk[w].sql,
         NEW pos \in Nat, walk[w].rows = Stretch(e, 1, pos), Read(p, C, e, walk[w].sql, pos, ExportPage)
  PROVE  JInv'
  <1>1. PICK S \in Walk : S = walk[w]
    BY DEF JInv, IInv, Types
  <1>2. PICK s, more : s \in Reads /\ s = S.sql /\ more = S.rows \o p.rows
    BY <1>1
  <1>3. Gains(p, C, e, s) /\ Behind(C, more, s)' /\ (~p.truncated => Whole(more, s, 0)')
    <2>1. PICK l \in Nat \ {0} : l = ExportPage
      BY DEF ConstantsAssumption
    <2>2. s \in Sqls /\ execs'[e] = s /\ Read(p, C, e, s, pos, l)
      BY <1>1, <1>2, <2>1, Sizes
    <2>3. S.rows = Stretch(e, 1, pos)
      BY <1>1
    <2> QED BY <1>2, <2>2, <2>3, ReadsOn
  <1>4. PICK W : W = [S EXCEPT !.rows = more, !.open = p.cursor]
    OBVIOUS
  <1>5. /\ W \in Walk /\ W.conn = c /\ W.tab = S.tab /\ W.rows = more /\ W.sql = s /\ W.open = p.cursor
        /\ W.pc = S.pc /\ W.skipped = 0
    <2>1. more \in Seq(Row)
      BY <1>2, ConcatProperties DEF Walk, Page
    <2> QED BY <1>1, <1>2, <1>4, <2>1 DEF Walk, Page, On
  <1>6. /\ \/ IsLast(p) /\ Leave(w, W, "done")
           \/ ~IsLast(p) /\ Leave(w, W, "cancelled")
           \/ /\ ~IsLast(p) /\ walk' = [walk EXCEPT ![w] = [W EXCEPT !.pc = "more"]]
              /\ queue' = Append(Tail(queue), NextOf(w, W)) /\ UNCHANGED tab
    BY <1>1, <1>2, <1>4 DEF Drained
  <1>7. CASE IsLast(p) /\ Leave(w, W, "done")
    <2>1. ~p.truncated /\ C = NoCursor /\ ~W.open
      BY <1>3, <1>5, <1>7 DEF Gains
    <2>2. Whole(W.rows, W.sql, W.skipped)'
      <3>1. Whole(more, s, 0)'
        BY <1>3, <2>1
      <3> QED BY <1>5, <3>1
    <2> QED BY <1>1, <1>5, <1>7, <2>1, <2>2, LeaveKeeps DEF Ended
  <1>8. CASE ~IsLast(p) /\ Leave(w, W, "cancelled")
    <2>1. W.open
      BY <1>3, <1>5, <1>8 DEF Gains
    <2> QED BY <1>1, <1>5, <1>8, <2>1, LeaveKeeps DEF Ended
  <1>9. CASE /\ ~IsLast(p) /\ walk' = [walk EXCEPT ![w] = [W EXCEPT !.pc = "more"]]
             /\ queue' = Append(Tail(queue), NextOf(w, W)) /\ UNCHANGED tab
    <2>1. W.open = TRUE
      BY <1>3, <1>5, <1>9 DEF Gains
    <2>2. PICK V : V = [W EXCEPT !.pc = "more"]
      OBVIOUS
    <2>3. /\ V.pc = "more" /\ V.conn = c /\ V.tab = S.tab /\ V.rows = more /\ V.sql = s
          /\ V.open = TRUE /\ V.skipped = 0 /\ V.pc # "asking"
      BY <1>5, <2>1, <2>2 DEF Walk
    <2>4. S.tab # NoTab => ConnOf[S.tab] = c
      BY <1>1 DEF JInv, Local, WalkAt, On
    <2>5. WalkAt(V, C)'
      BY <1>3, <2>3, <2>4 DEF WalkAt
    <2>6. walk' = [walk EXCEPT ![w] = V]
      BY <1>9, <2>2
    <2>7. Elsewhere(c) /\ Local(c)'
      <3>1. V.pc \in Through
        BY <2>3 DEF Through
      <3> QED BY <1>1, <1>9, <2>3, <2>5, <2>6, <3>1, WalkGoesOn
    <2>8. walk'[w] = V
      BY <2>6 DEF JInv, IInv, Types
    <2>9. PICK r \in Requests : r = QueryNext("more", w, c, 0, ExportPage)
      BY <1>2, <2>3, <2>8, WalkRequests DEF Allowed
    <2>10. r.conn = c /\ Fits(r)'
      BY <2>3, <2>8, <2>9, WalkFits
    <2>11. queue' = Append(Tail(queue), r)
      BY <1>5, <1>9, <2>1, <2>9 DEF NextOf
    <2> QED BY <2>7, <2>10, <2>11, AnswerGoes
  <1> QED BY <1>6, <1>7, <1>8, <1>9

LEMMA ReadBound ==
  ASSUME NEW p, NEW C, NEW e, NEW s, NEW pos, NEW limit, Read(p, C, e, s, pos, limit), execs'[e] = s
  PROVE  C # NoCursor => C.pos <= Rows[execs'[C.exec]]
  BY DEF Read

LEMMA FirstAnsweredKeeps ==
  ASSUME OwnConns, ConstantsAssumption, JInv, IInv', queue # <<>>, NEW r, r = Head(queue),
         NEW ok \in BOOLEAN, Serve(r, ok), NEW p, p = PageOf(r, ok), FirstAnswered(r, ok, p)
  PROVE  JInv'
  <1>1. r \in Sound /\ Fits(r) /\ r.for = "first"
    BY Asked DEF FirstAnswered
  <1>2. PICK w, c, C : w = r.who /\ c = r.conn /\ C = cur'[c]
    OBVIOUS
  <1>3. /\ w \in Walkers /\ c \in Conns /\ On(w, c) /\ walk[w] \in Walk
        /\ walk[w].pc = "first" /\ Busy(w) /\ walk[w].sql \in Reads
        /\ WalkAt(walk[w], cur[c])
    <2>1. r.for \in OfWalk /\ WaitsAt[r.for] = "first"
      BY <1>1 DEF OfWalk, WaitsAt
    <2> QED BY <1>1, <1>2, <2>1, WalkAsked
  <1>4. PICK S \in Walk, s \in Reads : S = walk[w] /\ s = S.sql
    BY <1>3
  <1>5. S.rows = <<>> /\ ~S.open /\ S.skipped = 0
    BY <1>3, <1>4 DEF WalkAt
  <1>6. PICK l \in Nat \ {0} : l = ExportPage
    BY DEF ConstantsAssumption
  <1>7. r.m = "run" /\ r.keep /\ r.limit = l /\ r.sql = s
    BY <1>1, <1>2, <1>4, <1>6 DEF Fits
  <1>8. PICK e \in Nat :
          /\ e \in DOMAIN execs' /\ execs'[e] = s /\ s \in Sqls
          /\ IF ok THEN p = CursorPage(e, s, 0, l) /\ C = Kept(p, e, 0) ELSE C = NoCursor
    <2>1. \E e \in Nat :
           /\ e \in DOMAIN execs' /\ execs'[e] = r.sql /\ r.sql \in Sqls /\ r.conn \in Conns
           /\ IF ~r.keep THEN C = cur[r.conn] /\ (ok => p = OffsetPage(e, r.sql, r.offset, r.limit))
              ELSE IF ok THEN p = CursorPage(e, r.sql, 0, r.limit) /\ C = Kept(p, e, 0)
              ELSE C = NoCursor
      BY <1>1, <1>2, <1>7, RunServed
    <2> QED BY <1>7, <2>1
  <1>9. p \in Page
    BY <1>1, Served DEF JInv, IInv
  <1>10. ok => Read(p, C, e, s, 0, l)
    <2>1. PICK pos \in Nat : pos = 0 /\ pos <= Rows[s]
      BY <1>8 DEF ConstantsAssumption
    <2>2. ok => p = CursorPage(e, s, pos, l) /\ C = Kept(p, e, pos)
      BY <1>8, <2>1
    <2>3. ok => Read(p, C, e, s, pos, l)
      BY <1>8, <2>1, <2>2, CursorRead
    <2> QED BY <2>1, <2>3
  <1>11. Moves(c, C)
    <2>1. C # NoCursor => C.pos <= Rows[execs'[C.exec]]
      BY <1>8, <1>10, ReadBound
    <2> QED BY <1>1, <1>2, <2>1, ServeMoves
  <1>12. c = Head(queue).conn
    BY <1>2
  <1>13. CASE ok
    <2>1. Drained(w, p)
      BY <1>2, <1>13 DEF FirstAnswered
    <2>2. walk[w].rows = Stretch(e, 1, 0) /\ execs'[e] = walk[w].sql /\ walk[w].skipped = 0
      BY <1>4, <1>5, <1>8, NothingRead
    <2>3. Read(p, C, e, walk[w].sql, 0, ExportPage)
      BY <1>4, <1>6, <1>10, <1>13
    <2> QED BY <1>3, <1>8, <1>9, <1>11, <1>12, <2>1, <2>2, <2>3, DrainedKeeps
  <1>14. CASE ~ok
    <2>1. PICK end : end = Broken(w) /\ Ended(end) /\ end # "done"
      BY DEF Broken, Ended
    <2>2. Leave(w, S, end) /\ S.conn = c /\ S.tab = walk[w].tab
      BY <1>2, <1>3, <1>4, <1>14, <2>1 DEF FirstAnswered, On
    <2>3. C = NoCursor
      BY <1>8, <1>14
    <2> QED BY <1>3, <1>5, <1>11, <1>12, <2>1, <2>2, <2>3, LeaveKeeps
  <1> QED BY <1>13, <1>14

(* What a walk has read when the cursor answers.                             *)
Reading(w, p, C) ==
  \E e \in Nat, pos \in Nat :
    /\ e \in DOMAIN execs' /\ execs'[e] = walk[w].sql /\ walk[w].rows = Stretch(e, 1, pos)
    /\ Read(p, C, e, walk[w].sql, pos, ExportPage)

LEMMA WalkRead ==
  ASSUME ConstantsAssumption, JInv, queue # <<>>, NEW r, r = Head(queue), r.for \in {"more", "rest"},
         NEW ok \in BOOLEAN, Serve(r, ok), NEW p, p = PageOf(r, ok),
         NEW w, w = r.who, NEW c, c = r.conn, NEW C, C = cur'[c]
  PROVE  /\ r \in Sound /\ p \in Page /\ Moves(c, C) /\ IF ok THEN Reading(w, p, C) ELSE C = NoCursor
         /\ w \in Walkers /\ c \in Conns /\ On(w, c) /\ walk[w] \in Walk
         /\ walk[w].pc = r.for /\ Busy(w) /\ walk[w].sql \in Reads /\ WalkAt(walk[w], cur[c])
  <1>1. r \in Sound /\ Fits(r)
    BY Asked
  <1>2. /\ w \in Walkers /\ c \in Conns /\ On(w, c) /\ walk[w] \in Walk
        /\ walk[w].pc = r.for /\ Busy(w) /\ walk[w].sql \in Reads /\ WalkAt(walk[w], cur[c])
    <2>1. r.for \in OfWalk /\ WaitsAt[r.for] = r.for
      BY DEF OfWalk, WaitsAt
    <2> QED BY <1>1, <2>1, WalkAsked
  <1>3. PICK l \in Nat \ {0} : l = ExportPage
    BY DEF ConstantsAssumption
  <1>4. r.m = "next" /\ r.limit = l
    BY <1>1, <1>3 DEF Fits
  <1>5. PICK B : B = cur[c]
    OBVIOUS
  <1>6. /\ execs' = execs
        /\ IF ok THEN /\ B # NoCursor /\ p = CursorPage(B.exec, execs[B.exec], B.pos, l)
                      /\ C = Kept(p, B.exec, B.pos)
           ELSE C = NoCursor
    <2>1. /\ r.conn \in Conns /\ execs' = execs
          /\ IF ok THEN /\ B # NoCursor /\ p = CursorPage(B.exec, execs[B.exec], B.pos, r.limit)
                        /\ C = Kept(p, B.exec, B.pos)
             ELSE C = NoCursor
      BY <1>1, <1>4, <1>5, NextServed
    <2> QED BY <1>4, <2>1
  <1>7. p \in Page
    BY <1>1, Served DEF JInv, IInv
  <1>8. ASSUME ok PROVE Reading(w, p, C) /\ (C # NoCursor => C.pos <= Rows[execs'[C.exec]])
    <2>1. PICK s : s = execs[B.exec]
      OBVIOUS
    <2>2. /\ B.exec \in Nat /\ B.exec \in DOMAIN execs /\ s \in Sqls /\ B.pos \in Nat
          /\ Read(p, C, B.exec, s, B.pos, l)
      <3>1. p = CursorPage(B.exec, s, B.pos, l) /\ C = Kept(p, B.exec, B.pos) /\ B # NoCursor
        BY <1>6, <1>8, <2>1
      <3> QED BY <1>2, <1>5, <2>1, <3>1, NextRead
    <2>3. execs[B.exec] = walk[w].sql /\ walk[w].rows = Stretch(B.exec, 1, B.pos)
      BY <1>2, <1>5, <1>6, <1>8 DEF WalkAt, Behind
    <2>4. Reading(w, p, C)
      BY <1>3, <1>6, <2>1, <2>2, <2>3 DEF Reading
    <2> QED BY <1>6, <2>1, <2>2, <2>4, ReadBound
  <1>9. Moves(c, C)
    <2>1. C # NoCursor => C.pos <= Rows[execs'[C.exec]]
      BY <1>6, <1>8
    <2> QED BY <1>1, <2>1, ServeMoves
  <1> QED BY <1>1, <1>2, <1>6, <1>7, <1>8, <1>9

LEMMA MoreAnsweredKeeps ==
  ASSUME OwnConns, ConstantsAssumption, JInv, IInv', queue # <<>>, NEW r, r = Head(queue),
         NEW ok \in BOOLEAN, Serve(r, ok), NEW p, p = PageOf(r, ok), MoreAnswered(r, ok, p)
  PROVE  JInv'
  <1>1. PICK w, c, C : w = r.who /\ c = r.conn /\ C = cur'[c]
    OBVIOUS
  <1>2. /\ p \in Page /\ Moves(c, C) /\ IF ok THEN Reading(w, p, C) ELSE C = NoCursor
        /\ w \in Walkers /\ c \in Conns /\ On(w, c) /\ walk[w] \in Walk
        /\ walk[w].pc = "more" /\ Busy(w) /\ walk[w].sql \in Reads /\ WalkAt(walk[w], cur[c])
    BY <1>1, WalkRead DEF MoreAnswered
  <1>3. c = Head(queue).conn
    BY <1>1
  <1>4. CASE ok
    <2>1. Drained(w, p)
      BY <1>1, <1>4 DEF MoreAnswered
    <2>2. PICK e \in Nat, pos \in Nat :
            /\ e \in DOMAIN execs' /\ execs'[e] = walk[w].sql /\ walk[w].rows = Stretch(e, 1, pos)
            /\ Read(p, C, e, walk[w].sql, pos, ExportPage)
      BY <1>2, <1>4 DEF Reading
    <2>3. walk[w].skipped = 0
      BY <1>2 DEF WalkAt
    <2> QED BY <1>2, <1>3, <2>1, <2>2, <2>3, DrainedKeeps
  <1>5. CASE ~ok
    <2>1. PICK end : end = Broken(w) /\ Ended(end) /\ end # "done"
      BY DEF Broken, Ended
    <2>2. PICK S \in Walk : S = walk[w]
      BY <1>2
    <2>3. Leave(w, S, end) /\ S.conn = c /\ S.tab = walk[w].tab
      BY <1>1, <1>2, <1>5, <2>1, <2>2 DEF MoreAnswered, On
    <2> QED BY <1>2, <1>3, <1>5, <2>1, <2>3, LeaveKeeps
  <1> QED BY <1>4, <1>5

LEMMA ClosedAnsweredKeeps ==
  ASSUME OwnConns, ConstantsAssumption, JInv, IInv', queue # <<>>, NEW r, r = Head(queue),
         NEW ok \in BOOLEAN, Serve(r, ok), NEW p, p = PageOf(r, ok), ClosedAnswered(r, ok, p)
  PROVE  JInv'
  <1>1. r \in Sound /\ Fits(r) /\ r.for = "closed"
    BY Asked DEF ClosedAnswered
  <1>2. PICK w, c, C : w = r.who /\ c = r.conn /\ C = cur'[c]
    OBVIOUS
  <1>3. /\ w \in Walkers /\ c \in Conns /\ On(w, c) /\ walk[w] \in Walk
        /\ walk[w].pc = "closing" /\ Busy(w)
        /\ WalkAt(walk[w], cur[c]) /\ Ended(walk[w].end)
    <2>1. r.for \in OfWalk /\ WaitsAt[r.for] = "closing"
      BY <1>1 DEF OfWalk, WaitsAt
    <2> QED BY <1>1, <1>2, <2>1, WalkAsked
  <1>4. PICK S \in Walk : S = walk[w]
    BY <1>3
  <1>5. C = NoCursor
    <2>1. r.m = "cursorClose"
      BY <1>1 DEF Fits
    <2>2. cur' = [cur EXCEPT ![c] = NoCursor]
      BY <1>2, <2>1 DEF Serve, ServeClose
    <2> QED BY <1>2, <1>3, <2>2 DEF JInv, IInv, Types
  <1>6. Moves(c, C)
    BY <1>1, <1>2, <1>5, ServeMoves
  <1>7. PICK V : V = [S EXCEPT !.pc = S.end, !.open = FALSE]
    OBVIOUS
  <1>8. V.pc = S.end /\ V.conn = c /\ V.tab = S.tab /\ V.pc # "asking"
    BY <1>3, <1>4, <1>7 DEF Walk, On, Ended
  <1>9. S.end # "done" /\ (S.tab # NoTab => ConnOf[S.tab] = c)
    BY <1>3, <1>4 DEF WalkAt, On
  <1>10. WalkAt(V, C)'
    <2>1. V.pc \notin {"first", "more", "rest", "closing", "done", "asking"}
      BY <1>3, <1>4, <1>8, <1>9 DEF Ended
    <2> QED BY <1>8, <1>9, <2>1 DEF WalkAt
  <1>11. walk' = [walk EXCEPT ![w] = V] /\ tab' = Told(S, S.end) /\ queue' = Tail(queue)
    BY <1>2, <1>3, <1>4, <1>7 DEF ClosedAnswered, JInv, IInv, Types
  <1>12. Elsewhere(c) /\ Local(c)'
    <2>1. V.tab = walk[w].tab /\ S.tab = V.tab /\ Ended(S.end)
      BY <1>3, <1>4, <1>8
    <2> QED BY <1>3, <1>5, <1>6, <1>8, <1>10, <1>11, <2>1, WalkGoesOn
  <1> QED BY <1>2, <1>3, <1>11, <1>12, AnswerGoes

LEMMA RestAnsweredKeeps ==
  ASSUME OwnConns, ConstantsAssumption, JInv, IInv', queue # <<>>, NEW r, r = Head(queue),
         NEW ok \in BOOLEAN, Serve(r, ok), NEW p, p = PageOf(r, ok), RestAnswered(r, ok, p)
  PROVE  JInv'
  <1>1. PICK w, c, C : w = r.who /\ c = r.conn /\ C = cur'[c]
    OBVIOUS
  <1>2. /\ p \in Page /\ Moves(c, C) /\ IF ok THEN Reading(w, p, C) ELSE C = NoCursor
        /\ w \in Walkers /\ c \in Conns /\ On(w, c) /\ walk[w] \in Walk
        /\ walk[w].pc = "rest" /\ Busy(w) /\ walk[w].sql \in Reads /\ WalkAt(walk[w], cur[c])
    BY <1>1, WalkRead DEF RestAnswered
  <1>3. c = Head(queue).conn
    BY <1>1
  <1>4. PICK S, s, more : S \in Walk /\ s \in Reads /\ S = walk[w] /\ s = S.sql /\ more = S.rows \o p.rows
    BY <1>2
  <1>5. /\ S.conn = c /\ S.tab # NoTab /\ ConnOf[S.tab] = c /\ S.open = FALSE /\ S.pc = "rest"
        /\ S.skipped = 0
    BY <1>2, <1>4 DEF WalkAt, On, Walk
  <1>6. ok => /\ IsLast(p) => C = NoCursor /\ Whole(more, s, 0)'
              /\ Behind(C, more, s)'
    <2>1. SUFFICES ASSUME ok
                   PROVE  (IsLast(p) => C = NoCursor /\ Whole(more, s, 0)') /\ Behind(C, more, s)'
      OBVIOUS
    <2>2. PICK e \in Nat, pos \in Nat :
            /\ e \in DOMAIN execs' /\ execs'[e] = s /\ S.rows = Stretch(e, 1, pos)
            /\ Read(p, C, e, s, pos, ExportPage)
      BY <1>2, <1>4, <2>1 DEF Reading
    <2>3. PICK l \in Nat \ {0} : l = ExportPage
      BY DEF ConstantsAssumption
    <2>4. s \in Sqls
      BY <1>4, Sizes
    <2>5. Gains(p, C, e, s) /\ Behind(C, more, s)' /\ (~p.truncated => Whole(more, s, 0)')
      BY <1>4, <2>2, <2>3, <2>4, ReadsOn
    <2> QED BY <2>5 DEF Gains
  <1>7. PICK W : W = [S EXCEPT !.rows = more]
    OBVIOUS
  <1>8. W.conn = c /\ W.tab = S.tab /\ W.sql = s /\ W.aborted = S.aborted
    BY <1>4, <1>5, <1>7 DEF Walk
  <1>9. \/ /\ ok /\ IsLast(p) /\ walk' = [walk EXCEPT ![w] = [W EXCEPT !.pc = "done"]]
           /\ queue' = Tail(queue) /\ tab' = Told(W, "done")
        \/ /\ ok /\ walk' = [walk EXCEPT ![w] = W] /\ UNCHANGED tab
           /\ queue' = Append(Tail(queue), QueryNext("rest", w, c, 0, ExportPage))
        \/ /\ walk' = [walk EXCEPT ![w].pc = "cancelled"]
           /\ queue' = Tail(queue) /\ tab' = Told(W, "cancelled")
        \/ /\ ~ok /\ walk' = [walk EXCEPT ![w] = StartOver(w)] /\ UNCHANGED tab
           /\ queue' = Append(Tail(queue), FirstPage(w, c, s))
    <2>1. PICK X : X = [walk[w] EXCEPT !.rows = @ \o p.rows] /\ X = W
      BY <1>4, <1>7
    <2>2. \/ /\ ok /\ IsLast(p)
             /\ walk' = [walk EXCEPT ![w] = [X EXCEPT !.pc = "done"]]
             /\ queue' = Tail(queue) /\ tab' = Told(X, "done")
          \/ /\ ok /\ walk' = [walk EXCEPT ![w] = X]
             /\ queue' = Append(Tail(queue), QueryNext("rest", w, X.conn, 0, ExportPage))
             /\ UNCHANGED tab
          \/ /\ walk' = [walk EXCEPT ![w].pc = "cancelled"]
             /\ queue' = Tail(queue) /\ tab' = Told(X, "cancelled")
          \/ /\ ~ok /\ walk' = [walk EXCEPT ![w] = StartOver(w)]
             /\ queue' = Append(Tail(queue), FirstPage(w, X.conn, X.sql))
             /\ UNCHANGED tab
      BY <1>1, <2>1 DEF RestAnswered
    <2> QED BY <1>8, <2>1, <2>2
  <1>10. CASE /\ ok /\ IsLast(p) /\ walk' = [walk EXCEPT ![w] = [W EXCEPT !.pc = "done"]]
              /\ queue' = Tail(queue) /\ tab' = Told(W, "done")
    <2>1. PICK V : V = [W EXCEPT !.pc = "done"]
      OBVIOUS
    <2>2. /\ V.pc = "done" /\ V.conn = c /\ V.tab = S.tab /\ V.rows = more /\ V.sql = s
          /\ V.skipped = 0 /\ V.pc # "asking"
      BY <1>4, <1>5, <1>7, <2>1 DEF Walk
    <2>3. WalkAt(V, C)'
      BY <1>5, <1>6, <1>10, <2>2 DEF WalkAt
    <2>4. V.tab = walk[w].tab /\ W.tab = V.tab /\ Ended("done") /\ V.tab # NoTab
      BY <1>4, <1>5, <1>8, <2>2 DEF Ended
    <2>5. walk' = [walk EXCEPT ![w] = V]
      BY <1>10, <2>1
    <2>6. Elsewhere(c) /\ Local(c)'
      BY <1>2, <1>10, <2>2, <2>3, <2>4, <2>5, WalkGoesOn
    <2> QED BY <1>2, <1>3, <1>10, <2>6, AnswerGoes
  <1>11. CASE /\ ok /\ walk' = [walk EXCEPT ![w] = W] /\ UNCHANGED tab
              /\ queue' = Append(Tail(queue), QueryNext("rest", w, c, 0, ExportPage))
    <2>1. /\ W.pc = "rest" /\ W.rows = more /\ W.open = FALSE /\ W.skipped = 0
          /\ W.pc # "asking"
      BY <1>4, <1>5, <1>7 DEF Walk
    <2>2. WalkAt(W, C)'
      BY <1>5, <1>6, <1>8, <1>11, <2>1 DEF WalkAt
    <2>3. W.tab = walk[w].tab /\ W.pc \in Through
      BY <1>4, <1>8, <2>1 DEF Through
    <2>4. Elsewhere(c) /\ Local(c)'
      BY <1>2, <1>8, <1>11, <2>1, <2>2, <2>3, WalkGoesOn
    <2>5. walk'[w] = W
      BY <1>2, <1>11 DEF JInv, IInv, Types
    <2>6. PICK q \in Requests : q = QueryNext("rest", w, c, 0, ExportPage)
      BY <1>2, <1>4, <1>8, <2>1, <2>5, WalkRequests DEF Allowed
    <2>7. q.conn = c /\ Fits(q)'
      BY <1>2, <1>8, <2>1, <2>5, <2>6, WalkFits
    <2> QED BY <1>2, <1>3, <1>11, <2>4, <2>6, <2>7, AnswerGoes
  <1>12. CASE /\ walk' = [walk EXCEPT ![w].pc = "cancelled"]
              /\ queue' = Tail(queue) /\ tab' = Told(W, "cancelled")
    <2>1. PICK V : V = [S EXCEPT !.pc = "cancelled"]
      OBVIOUS
    <2>2. V.pc = "cancelled" /\ V.conn = c /\ V.tab = S.tab /\ V.pc # "asking"
      BY <1>5, <2>1 DEF Walk
    <2>3. WalkAt(V, C)'
      BY <1>5, <2>2 DEF WalkAt
    <2>4. V.tab = walk[w].tab /\ W.tab = V.tab /\ Ended("cancelled") /\ V.tab # NoTab
      BY <1>4, <1>5, <1>8, <2>2 DEF Ended
    <2>5. walk' = [walk EXCEPT ![w] = V]
      BY <1>2, <1>4, <1>12, <2>1 DEF JInv, IInv, Types
    <2>6. Elsewhere(c) /\ Local(c)'
      BY <1>2, <1>12, <2>2, <2>3, <2>4, <2>5, WalkGoesOn
    <2> QED BY <1>2, <1>3, <1>12, <2>6, AnswerGoes
  <1>13. CASE /\ ~ok /\ walk' = [walk EXCEPT ![w] = StartOver(w)] /\ UNCHANGED tab
              /\ queue' = Append(Tail(queue), FirstPage(w, c, s))
    <2>1. PICK V : V = [S EXCEPT !.pc = "first", !.rows = <<>>]
      OBVIOUS
    <2>2. /\ V.pc = "first" /\ V.conn = c /\ V.tab = S.tab /\ V.rows = <<>> /\ V.open = FALSE
          /\ V.sql = s /\ V.skipped = 0 /\ V.pc # "asking"
      BY <1>4, <1>5, <2>1 DEF Walk
    <2>3. WalkAt(V, C)'
      BY <1>5, <2>2 DEF WalkAt
    <2>4. V.tab = walk[w].tab /\ C = NoCursor
      BY <1>2, <1>4, <1>13, <2>2
    <2>5. walk' = [walk EXCEPT ![w] = V]
      BY <1>4, <1>13, <2>1 DEF StartOver
    <2>6. Elsewhere(c) /\ Local(c)'
      BY <1>2, <1>13, <2>2, <2>3, <2>4, <2>5, WalkGoesOn
    <2>7. walk'[w] = V
      BY <1>2, <2>5 DEF JInv, IInv, Types
    <2>8. PICK q \in Requests : q = FirstPage(w, c, s)
      BY <1>2, <1>4, <2>2, <2>7, WalkRequests DEF Allowed
    <2>9. q.conn = c /\ Fits(q)'
      BY <1>2, <2>2, <2>7, <2>8, WalkFits
    <2> QED BY <1>2, <1>3, <1>13, <2>6, <2>8, <2>9, AnswerGoes
  <1> QED BY SMTT(30), <1>9, <1>10, <1>11, <1>12, <1>13

LEMMA AnswerKeeps ==
  ASSUME OwnConns, ConstantsAssumption, JInv, IInv', Answer PROVE JInv'
  <1>1. PICK ok, r, p :
          /\ ok \in BOOLEAN /\ r = Head(queue) /\ p = PageOf(r, ok) /\ Serve(r, ok)
          /\ \/ RunAnswered(r, ok, p)   \/ PageAnswered(r, ok, p)
             \/ FirstAnswered(r, ok, p) \/ MoreAnswered(r, ok, p)
             \/ RestAnswered(r, ok, p)  \/ ClosedAnswered(r, ok, p)
    BY DEF Answer
  <1>2. queue # <<>>
    BY DEF Answer
  <1>3. CASE RunAnswered(r, ok, p)
    BY <1>1, <1>2, <1>3, RunAnsweredKeeps
  <1>4. CASE PageAnswered(r, ok, p)
    BY <1>1, <1>2, <1>4, PageAnsweredKeeps
  <1>5. CASE FirstAnswered(r, ok, p)
    BY <1>1, <1>2, <1>5, FirstAnsweredKeeps
  <1>6. CASE MoreAnswered(r, ok, p)
    BY <1>1, <1>2, <1>6, MoreAnsweredKeeps
  <1>7. CASE RestAnswered(r, ok, p)
    BY <1>1, <1>2, <1>7, RestAnsweredKeeps
  <1>8. CASE ClosedAnswered(r, ok, p)
    BY <1>1, <1>2, <1>8, ClosedAnsweredKeeps
  <1> QED BY <1>1, <1>3, <1>4, <1>5, <1>6, <1>7, <1>8

LEMMA InitKeeps == ASSUME ConstantsAssumption, Init PROVE JInv
  <1>1. IInv
    BY InitHolds
  <1>2. ASSUME NEW W, W = Idle, NEW C PROVE WalkAt(W, C)
    <2>1. W.pc = "idle" /\ W.tab = NoTab
      BY <1>2 DEF Idle
    <2> QED BY <2>1 DEF WalkAt
  <1>3. ASSUME NEW T, T = EmptyTab PROVE Shows(T) /\ T.loading = FALSE /\ T.cursor = FALSE
    <2>1. /\ T.sql = NoSql /\ T.loading = FALSE /\ T.cursor = FALSE /\ T.pages = <<>>
          /\ T.shown.none
      BY <1>3 DEF EmptyTab, NoPage
    <2>2. T.sql \notin Sqls
      BY <2>1 DEF ConstantsAssumption
    <2> QED BY <2>1, <2>2 DEF Shows
  <1>4. ASSUME NEW c \in Conns PROVE Local(c)
    <2>1. cur[c] = NoCursor
      BY DEF Init
    <2>2. \A w \in Walkers : walk[w] = Idle /\ walk[w].pc = "idle"
      BY DEF Init, Idle
    <2>3. \A t \in Tabs : tab[t] = EmptyTab
      BY DEF Init
    <2>4. \A w \in Walkers : ~Busy(w) /\ WalkAt(walk[w], cur[c])
      BY <1>2, <2>2 DEF Busy, Working
    <2>5. \A t \in Tabs : Shows(tab[t]) /\ tab[t].loading = FALSE /\ tab[t].cursor = FALSE
      BY <1>3, <2>3
    <2> QED BY <2>1, <2>2, <2>4, <2>5 DEF Local
  <1>5. DOMAIN queue = {}
    BY DEF Init
  <1> QED BY <1>1, <1>4, <1>5 DEF JInv, OnePerConn

LEMMA JInvariance ==
  ASSUME OwnConns, ConstantsAssumption, JInv, [Next]_vars PROVE JInv'
  <1>1. IInv'
    BY Invariance DEF JInv
  <1>2. ASSUME NEW t \in Tabs, NEW s \in Sqls, Run(t, s) PROVE JInv'
    BY <1>1, <1>2, RunKeeps
  <1>3. ASSUME NEW t \in Tabs, NEW delta \in {-1, 1}, PageTurn(t, delta) PROVE JInv'
    BY <1>1, <1>3, PageTurnKeeps
  <1>4. ASSUME NEW t \in Tabs, Refresh(t) PROVE JInv'
    BY <1>1, <1>4, RefreshKeeps
  <1>5. ASSUME NEW w \in Walkers, NEW s \in Sqls, Backup(w, s) PROVE JInv'
    BY <1>1, <1>5, BackupKeeps
  <1>6. ASSUME NEW w \in Walkers, NEW t \in Tabs, Export(w, t) PROVE JInv'
    BY <1>1, <1>6, ExportKeeps
  <1>7. ASSUME NEW w \in Walkers, Cancel(w) PROVE JInv'
    BY <1>1, <1>7, CancelKeeps
  <1>10. ASSUME NEW w \in Walkers, Dismissed(w) PROVE JInv'
    BY <1>1, <1>10, DismissedKeeps
  <1>11. ASSUME NEW w \in Walkers, Picked(w) PROVE JInv'
    BY <1>1, <1>11, PickedKeeps
  <1>8. CASE Answer
    BY <1>1, <1>8, AnswerKeeps
  <1>9. CASE UNCHANGED vars
    <2>1. UNCHANGED <<tab, queue, cur, execs>> /\ UNCHANGED walk
      BY <1>9 DEF vars
    <2>2. \A w \in Walkers : Alike(walk'[w], walk[w])
      BY <2>1 DEF Alike
    <2> QED BY <1>1, <2>1, <2>2, NothingMoves
  <1> QED BY <1>2, <1>3, <1>4, <1>5, <1>6, <1>7, <1>8, <1>9, <1>10, <1>11 DEF Next

----------------------------------------------------------------------------
(* What the invariant says of the pages and of the walks.                    *)
LEMMA GoodIsPage ==
  ASSUME NEW p, NEW e, NEW s, NEW i, GoodPage(p, e, s, i)
  PROVE  IsPage(p, s, i) /\ \A k \in DOMAIN p.rows : p.rows[k].exec = e
  <1>1. /\ e \in DOMAIN execs /\ execs[e] = s
        /\ p.rows = Stretch(e, i * PageSize + 1, Least((i + 1) * PageSize, Rows[s]))
    BY DEF GoodPage, PageRows, From
  <1>2. IsPage(p, s, i)
    BY <1>1 DEF IsPage
  <1>3. PICK a, b : p.rows = Stretch(e, a, b)
    BY <1>1
  <1>4. p.rows = [k \in 1..(b - a + 1) |-> [exec |-> e, n |-> a + k - 1]]
    BY <1>3 DEF Stretch
  <1>5. \A k \in DOMAIN p.rows : p.rows[k].exec = e
    BY <1>4
  <1> QED BY <1>2, <1>5

LEMMA TabShows == ASSUME ConstantsAssumption, JInv, NEW t \in Tabs PROVE Shows(tab[t])
  BY DEF ConstantsAssumption, JInv, Local

LEMMA OwnPages == ASSUME ConstantsAssumption, JInv PROVE PageIsOwn /\ CacheIsOneExecution
  <1>1. ASSUME NEW t \in Tabs, ~tab[t].shown.none
        PROVE  IsPage(tab[t].shown, tab[t].sql, tab[t].offset)
    <2>1. PICK e \in DOMAIN execs : GoodPage(tab[t].shown, e, tab[t].sql, tab[t].offset)
      BY <1>1, TabShows DEF Shows
    <2> QED BY <2>1, GoodIsPage
  <1>2. ASSUME NEW t \in Tabs
        PROVE  \E e \in DOMAIN execs \cup {0} :
                 \A k \in DOMAIN tab[t].pages :
                   ~tab[t].pages[k].none =>
                     /\ IsPage(tab[t].pages[k], tab[t].sql, k - 1)
                     /\ \A i \in DOMAIN tab[t].pages[k].rows : tab[t].pages[k].rows[i].exec = e
    <2>1. PICK e \in DOMAIN execs \cup {0} :
            \A k \in DOMAIN tab[t].pages :
              ~tab[t].pages[k].none => GoodPage(tab[t].pages[k], e, tab[t].sql, k - 1)
      BY TabShows DEF Shows
    <2>2. ASSUME NEW k \in DOMAIN tab[t].pages, ~tab[t].pages[k].none
          PROVE  /\ IsPage(tab[t].pages[k], tab[t].sql, k - 1)
                 /\ \A i \in DOMAIN tab[t].pages[k].rows : tab[t].pages[k].rows[i].exec = e
      BY <2>1, <2>2, GoodIsPage
    <2> QED BY <2>2
  <1> QED BY <1>1, <1>2 DEF PageIsOwn, CacheIsOneExecution

LEMMA WholeWalks == ASSUME ConstantsAssumption, JInv PROVE WalkIsWhole
  <1>1. ASSUME NEW w \in Walkers, walk[w].pc = "done", walk[w].sql \in Reads
        PROVE  Whole(walk[w].rows, walk[w].sql, walk[w].skipped)
    <2>1. PICK c \in Conns : c = walk[w].conn
      BY DEF JInv, IInv, Types, Walk
    <2>2. WalkAt(walk[w], cur[c])
      BY <2>1 DEF JInv, Local, On
    <2> QED BY <1>1, <2>2 DEF WalkAt
  <1> QED BY <1>1 DEF WalkIsWhole, Whole

LEMMA ReadsInvariant == OwnConns /\ Spec => []JInv
  <1>1. ConstantsAssumption
    BY ConstantsAssumption
  <1>2. OwnConns /\ Init => JInv
    BY <1>1, InitKeeps
  <1>3. OwnConns /\ JInv /\ [Next]_vars => JInv'
    BY <1>1, JInvariance
  <1>4. SUFFICES ASSUME OwnConns PROVE Spec => []JInv
    OBVIOUS
  <1>5. Init => JInv
    BY <1>2, <1>4
  <1>6. JInv /\ [Next]_vars => JInv'
    BY <1>3, <1>4
  <1> QED BY <1>5, <1>6, PTL DEF Spec

(* When every tab has its connection to itself and the user waits for one    *)
(* read before the next, the grid never shows rows of another page, another  *)
(* statement or another tab's cursor: through page turns, refreshes, failed  *)
(* pages, exports that take the cursor over, and backups on the connection   *)
(* (nextPage, pageBy, refresh, App.tsx; query_core_next).                    *)
THEOREM PagesAreOwn == OwnConns /\ Spec => []PageIsOwn
  <1>1. JInv => PageIsOwn
    BY ConstantsAssumption, OwnPages
  <1> QED BY <1>1, ReadsInvariant, PTL

(* Under the same terms the pages a tab keeps come from one execution, each  *)
(* at its own index: a fresh run starts the cache over and a page is added   *)
(* only from the cursor that the cache was read through (run, App.tsx).      *)
THEOREM CacheOfOneExecution == OwnConns /\ Spec => []CacheIsOneExecution
  <1>1. JInv => CacheIsOneExecution
    BY ConstantsAssumption, OwnPages
  <1> QED BY <1>1, ReadsInvariant, PTL

(* Under the same terms a backup or an export of a plain read that says it   *)
(* is done has the rows once, in order, from one execution and to the last   *)
(* one: whether it read the result from the start, went on from the pages of *)
(* the tab, or lost the cursor on the way and started over (drainQuery,      *)
(* drainCursor).  They begin with the first row but for one case, which the  *)
(* code has: the tab holds only the last page, refreshed on its own, and     *)
(* `skipped` rows come before it (runExport).                                *)
THEOREM WalksAreWhole == OwnConns /\ Spec => []WalkIsWhole
  <1>1. JInv => WalkIsWhole
    BY ConstantsAssumption, WholeWalks
  <1> QED BY <1>1, ReadsInvariant, PTL
=============================================================================
