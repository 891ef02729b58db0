------------------------------- MODULE Paging -------------------------------
(***************************************************************************)
(* Turning the pages of a result, and reading it whole (issues 478, 479).  *)
(*                                                                         *)
(* The core keeps at most ONE open cursor per connection and query.next    *)
(* names only the connection.  The frontend keeps, per tab, the pages it   *)
(* fetched and whether a cursor was open behind the last of them           *)
(* (App.tsx, gridPaging.ts), and walks a cursor to its end to export,      *)
(* back up, transfer or compare (query.ts drainQuery, drainCursor).        *)
(*                                                                         *)
(* Requests are served in the order they are sent (module RpcService) and  *)
(* nothing but a request touches a cursor, so a request is served at the   *)
(* moment its answer is delivered: one step runs the core's handler and    *)
(* the code after the await, up to the next await.                         *)
(***************************************************************************)
EXTENDS Integers, SequencesExt, FiniteSets

CONSTANTS
  Tabs, Conns, ConnOf,      \* query tabs and the connection each is bound to
  Walkers, WalkConn,        \* reads to the end: exports, backups, transfers
  Sqls, Rows, Reads,        \* statements, rows of their results, plain reads
  PageSize, ExportPage,     \* rows per page of the grid and of a walk
  MaxExecs,                 \* bound: executions before the user stops asking
  Patient,                  \* the user waits for one read before the next
  CanFail,                  \* statements may fail at the server
  NoTab, NoSql

ASSUME ConstantsAssumption ==
  /\ ConnOf \in [Tabs -> Conns] /\ WalkConn \in [Walkers -> Conns]
  /\ Rows \in [Sqls -> Nat] /\ Reads \subseteq Sqls
  /\ PageSize \in Nat \ {0} /\ ExportPage \in Nat \ {0}
  /\ MaxExecs \in Nat /\ Patient \in BOOLEAN /\ CanFail \in BOOLEAN
  /\ NoTab \notin Tabs /\ NoSql \notin Sqls

VARIABLES
  tab,     \* results[id] of each tab
  walk,    \* each walker's loop
  queue,   \* requests not yet answered, oldest first
  cur,     \* the core's cursor of each connection
  execs,   \* statements the engine executed, in order
  asked    \* how often the user ran each statement

vars == <<tab, walk, queue, cur, execs, asked>>

(* A row is the execution it was read from and its number in that result.   *)
NoPage == [rows |-> <<>>, truncated |-> FALSE, cursor |-> FALSE, none |-> TRUE]
NoCursor == [exec |-> 0, pos |-> 0]

Least(a, b) == IF a <= b THEN a ELSE b
Left(s, pos) == IF Rows[s] > pos THEN Rows[s] - pos ELSE 0

----------------------------------------------------------------------------
(* The core: one page, and what becomes of the connection's cursor.         *)

PageFrom(e, s, pos, n, more, open) ==
  [rows |-> [k \in 1..n |-> [exec |-> e, n |-> pos + k]],
   truncated |-> more, cursor |-> open, none |-> FALSE]

(* A cursor is not peeked behind: a full page is taken for a truncated one. *)
CursorPage(e, s, pos, limit) ==
  LET n == Least(limit, Left(s, pos)) IN PageFrom(e, s, pos, n, n = limit, n = limit)
OffsetPage(e, s, pos, limit) ==
  PageFrom(e, s, pos, Least(limit, Left(s, pos)), Left(s, pos) > limit, FALSE)

Kept(page, e, pos) ==
  IF page.cursor THEN [exec |-> e, pos |-> pos + Len(page.rows)] ELSE NoCursor

(* The page a request is answered with; NoPage when it fails.               *)
PageOf(r, ok) ==
  LET e == Len(execs) + 1  c == cur[r.conn] IN
  IF ~ok \/ r.m = "cursorClose" THEN NoPage
  ELSE IF r.m = "next" THEN CursorPage(c.exec, execs[c.exec], c.pos, r.limit)
  ELSE IF r.keep THEN CursorPage(e, r.sql, 0, r.limit)
  ELSE OffsetPage(e, r.sql, r.offset, r.limit)

(* query.run: a cursor run drops the cursor of the connection first, and     *)
(* one that fails leaves none.                                              *)
ServeRun(r, ok) ==
  LET e == Len(execs) + 1 IN
  /\ ok \/ CanFail
  /\ execs' = Append(execs, r.sql)
  /\ cur' = IF r.keep THEN [cur EXCEPT ![r.conn] = Kept(PageOf(r, ok), e, 0)] ELSE cur

(* query.next: the cursor is taken; it goes back only if more may follow.    *)
ServeNext(r, ok) ==
  LET c == cur[r.conn] IN
  /\ ok => c # NoCursor
  /\ ok \/ CanFail \/ c = NoCursor
  /\ cur' = [cur EXCEPT ![r.conn] = Kept(PageOf(r, ok), c.exec, c.pos)]
  /\ UNCHANGED execs

ServeClose(r, ok) ==
  ok /\ cur' = [cur EXCEPT ![r.conn] = NoCursor] /\ UNCHANGED execs

Serve(r, ok) ==
  \/ r.m = "run" /\ ServeRun(r, ok)
  \/ r.m = "next" /\ ServeNext(r, ok)
  \/ r.m = "cursorClose" /\ ServeClose(r, ok)

Request(m, for, who, conn, sql, index, limit, offset, keep) ==
  [m |-> m, for |-> for, who |-> who, conn |-> conn, sql |-> sql, index |-> index,
   limit |-> limit, offset |-> offset, keep |-> keep]

RunQuery(for, who, conn, sql, index, limit, offset, keep) ==
  Request("run", for, who, conn, sql, index, limit, offset, keep)
QueryNext(for, who, conn, index, limit) ==
  Request("next", for, who, conn, NoSql, index, limit, 0, FALSE)
CloseCursor(who, conn) == Request("cursorClose", "closed", who, conn, NoSql, 0, 0, 0, FALSE)

----------------------------------------------------------------------------
(* A tab.                                                                   *)

EmptyTab == [sql |-> NoSql, loading |-> FALSE, offset |-> 0, cursor |-> FALSE,
             pages |-> <<>>, shown |-> NoPage]

Working(w) == walk[w].pc \in {"first", "more", "rest", "closing"}
Alone(c) == Patient =>
  /\ \A t \in Tabs : ConnOf[t] = c => ~tab[t].loading
  /\ \A w \in Walkers : walk[w].conn = c => ~Working(w)
MayAsk == Len(execs) + Len(queue) < MaxExecs

(* The save dialog of an export is native and modal: while one is up, the    *)
(* user reaches nothing behind it.  Answers still arrive.                   *)
NoDialog == \A w \in Walkers : walk[w].pc # "asking"

(* run(sql): a fresh run asks for a cursor.  The editor's key does not look  *)
(* at the tab's loading flag.                                               *)
Run(t, s) ==
  /\ MayAsk /\ Alone(ConnOf[t]) /\ NoDialog
  /\ tab' = [tab EXCEPT ![t].loading = TRUE, ![t].shown = NoPage]
  /\ queue' = Append(queue, RunQuery("run", t, ConnOf[t], s, 0, PageSize, 0, TRUE))
  /\ asked' = [asked EXCEPT ![s] = @ + 1]
  /\ UNCHANGED <<walk, cur, execs>>

(* The page at `index` re-read by running the statement; run() takes offset  *)
(* 0 for a fresh run, which asks for a cursor.                              *)
RerunTop(t, s, index) ==                                             \* mutant
  RunQuery("run", t, ConnOf[t], s, index, PageSize, 0, index = 0)
Rerun(t, s, index) ==
  RunQuery("run", t, ConnOf[t], s, index, PageSize, index * PageSize, index = 0)

RerunnableAny(s) == s # NoSql                                        \* mutant
Rerunnable(s) == s \in Reads

(* pageStep: memory, then the cursor behind the last page fetched, then a    *)
(* re-run of a plain read.                                                  *)
Held(t, index) == index + 1 \in DOMAIN tab[t].pages /\ ~tab[t].pages[index + 1].none
AtCursor(t, index) ==
  index = tab[t].offset + 1 /\ tab[t].cursor /\ index = Len(tab[t].pages)

Pager(t, index) == IF index > tab[t].offset THEN tab[t].shown.truncated ELSE index >= 0

PageTurn(t, delta) ==
  LET index == tab[t].offset + delta IN
  /\ MayAsk /\ Alone(ConnOf[t]) /\ NoDialog
  /\ ~tab[t].loading /\ ~tab[t].shown.none
  /\ Pager(t, index)
  /\ \/ /\ Held(t, index)
        /\ tab' = [tab EXCEPT ![t].shown = tab[t].pages[index + 1], ![t].offset = index]
        /\ UNCHANGED queue
     \/ /\ ~Held(t, index) /\ AtCursor(t, index)
        /\ tab' = [tab EXCEPT ![t].loading = TRUE]
        /\ queue' = Append(queue, QueryNext("page", t, ConnOf[t], index, PageSize))
     \/ /\ ~Held(t, index) /\ ~AtCursor(t, index) /\ Rerunnable(tab[t].sql)
        /\ tab' = [tab EXCEPT ![t].loading = TRUE, ![t].shown = NoPage]
        /\ queue' = Append(queue, Rerun(t, tab[t].sql, index))
  /\ UNCHANGED <<walk, cur, execs, asked>>

Upto(pages, index) ==
  [k \in 1..(IF index < Len(pages) THEN Len(pages) ELSE index + 1) |->
     IF k <= Len(pages) THEN pages[k] ELSE NoPage]
Put(pages, index, page) == [Upto(pages, index) EXCEPT ![index + 1] = page]

Refresh(t) ==
  /\ MayAsk /\ Alone(ConnOf[t]) /\ NoDialog
  /\ ~tab[t].loading /\ Rerunnable(tab[t].sql)
  /\ tab' = [tab EXCEPT ![t].loading = TRUE, ![t].shown = NoPage]
  /\ queue' = Append(queue, Rerun(t, tab[t].sql, tab[t].offset))
  /\ UNCHANGED <<walk, cur, execs, asked>>

(* run, after its await: the page cache starts over.                        *)
FreshCacheKeeps(t, index, page) == Put(tab[t].pages, index, page)    \* mutant
FreshCache(t, index, page) == Put(<<>>, index, page)

RunAnswered(r, ok, page) ==
  /\ r.for = "run"
  /\ tab' = [tab EXCEPT ![r.who] =
       IF ok THEN [sql |-> r.sql, loading |-> FALSE, offset |-> r.index,
                   cursor |-> page.cursor, pages |-> FreshCache(r.who, r.index, page),
                   shown |-> page]
             ELSE [@ EXCEPT !.loading = FALSE, !.shown = NoPage]]
  /\ queue' = Tail(queue)
  /\ UNCHANGED <<walk, asked>>

(* nextPage, after its await: a cursor that is gone falls back to a re-run.  *)
GaveUpWaits(t) == [tab EXCEPT ![t].cursor = FALSE]                   \* mutant
GaveUp(t) == [tab EXCEPT ![t].cursor = FALSE, ![t].loading = FALSE]

PageAnswered(r, ok, page) ==
  /\ r.for = "page"
  /\ LET t == r.who  s == tab[t].sql IN
     IF ok
     THEN /\ tab' = [tab EXCEPT ![t].loading = FALSE, ![t].shown = page, ![t].offset = r.index,
                                ![t].cursor = page.cursor,
                                ![t].pages = Put(@, r.index, page)]
          /\ queue' = Tail(queue)
     ELSE IF Rerunnable(s)
     THEN /\ tab' = [tab EXCEPT ![t].cursor = FALSE, ![t].loading = TRUE, ![t].shown = NoPage]
          /\ queue' = Append(Tail(queue), Rerun(t, s, r.index))
     ELSE /\ tab' = GaveUp(t)
          /\ queue' = Tail(queue)
  /\ UNCHANGED <<walk, asked>>

----------------------------------------------------------------------------
(* A walk to the end: drainQuery on its own (backup, transfer, compare), or  *)
(* an export of what a tab shows.  `end` is where a walk goes once its       *)
(* cursor is closed; `open` is page.cursor of the last page it read; `res`   *)
(* is the page the user asked to export, and `skipped` counts the rows of    *)
(* the result before it.                                                    *)

Idle == [pc |-> "idle", tab |-> NoTab, conn |-> CHOOSE c \in Conns : TRUE, sql |-> NoSql,
         rows |-> <<>>, open |-> FALSE, end |-> "idle", aborted |-> FALSE,
         res |-> NoPage, skipped |-> 0]
Ended(pc) == pc \in {"done", "failed", "cancelled"}

FirstPage(w, conn, sql) == RunQuery("first", w, conn, sql, 0, ExportPage, 0, TRUE)

Backup(w, s) ==
  /\ walk[w].pc = "idle" /\ s \in Reads
  /\ MayAsk /\ Alone(WalkConn[w]) /\ NoDialog
  /\ walk' = [walk EXCEPT ![w] = [Idle EXCEPT !.pc = "first", !.conn = WalkConn[w], !.sql = s]]
  /\ queue' = Append(queue, FirstPage(w, WalkConn[w], s))
  /\ UNCHANGED <<tab, cur, execs, asked>>

(* contiguousPages: the pages of the tab, if none is missing.                *)
Contiguous(pages) == pages # <<>> /\ \A k \in DOMAIN pages : ~pages[k].none
HeldRows(pages) == FlattenSeq([k \in DOMAIN pages |-> pages[k].rows])

(* An export stops the one before it.                                       *)
Aborting(w) == [v \in Walkers |->
  IF v # w /\ walk[v].tab # NoTab /\ Working(v) THEN [walk[v] EXCEPT !.aborted = TRUE]
                                               ELSE walk[v]]

(* runExport, up to its await: the page and the statement are read, and the  *)
(* user is asked for a file.                                                *)
Export(w, t) ==
  LET T == tab[t]  c == ConnOf[t] IN
  /\ walk[w].pc = "idle" /\ ~T.shown.none
  /\ MayAsk /\ Alone(c) /\ NoDialog
  /\ walk' = [walk EXCEPT ![w] = [Idle EXCEPT !.pc = "asking", !.tab = t, !.conn = c,
       !.sql = T.sql, !.res = T.shown, !.skipped = T.offset * PageSize]]
  /\ UNCHANGED <<tab, queue, cur, execs, asked>>

Dismissed(w) ==
  /\ walk[w].pc = "asking"
  /\ walk' = [walk EXCEPT ![w] = [Idle EXCEPT !.conn = walk[w].conn]]
  /\ UNCHANGED <<tab, queue, cur, execs, asked>>

(* ... and from there to its first request: the pages and the cursor are     *)
(* those the tab has NOW.                                                   *)
Picked(w) ==
  LET W == walk[w]  T == tab[W.tab]  last == T.pages[Len(T.pages)]
      held == Contiguous(T.pages)
      more == Rerunnable(W.sql) /\ (W.res.truncated \/ (held /\ Len(T.pages) > 1))
      Goes(pc, rows) == walk' = [Aborting(w) EXCEPT ![w] =
        [W EXCEPT !.pc = pc, !.rows = rows, !.res = NoPage, !.skipped = IF more THEN 0 ELSE @]] IN
  /\ W.pc = "asking"
  /\ \/ /\ ~more                                          \* the page on screen
        /\ Goes("done", W.res.rows) /\ UNCHANGED queue
     \/ /\ more /\ held /\ ~last.truncated                \* all of it is here
        /\ Goes("done", HeldRows(T.pages)) /\ UNCHANGED queue
     \/ /\ more /\ held /\ last.truncated /\ T.cursor      \* the rest is behind the cursor
        /\ Goes("rest", HeldRows(T.pages))
        /\ queue' = Append(queue, QueryNext("rest", w, W.conn, 0, ExportPage))
     \/ /\ more /\ (held => last.truncated /\ ~T.cursor)   \* from the start
        /\ Goes("first", <<>>)
        /\ queue' = Append(queue, FirstPage(w, W.conn, W.sql))
  /\ UNCHANGED <<tab, cur, execs, asked>>

(* The Cancel button; the walk looks at it between two pages.               *)
Cancel(w) ==
  /\ Working(w) /\ ~walk[w].aborted /\ NoDialog
  /\ walk' = [walk EXCEPT ![w].aborted = TRUE]
  /\ UNCHANGED <<tab, queue, cur, execs, asked>>

(* An export that ends says so to its tab: no cursor is left behind it.      *)
Told(W, pc) ==
  IF Ended(pc) /\ W.tab # NoTab THEN [tab EXCEPT ![W.tab].cursor = FALSE] ELSE tab

(* drainQuery's finally closes the cursor of the last page read, if open.    *)
Leave(w, W, end) ==
  IF W.open
  THEN /\ walk' = [walk EXCEPT ![w] = [W EXCEPT !.pc = "closing", !.end = end]]
       /\ queue' = Append(Tail(queue), CloseCursor(w, W.conn)) /\ UNCHANGED tab
  ELSE /\ walk' = [walk EXCEPT ![w] = [W EXCEPT !.pc = end]]
       /\ queue' = Tail(queue) /\ tab' = Told(W, end)

(* The rest of the result: through the cursor, or by a re-run at an offset.  *)
NextOf(w, W) ==
  IF W.open THEN QueryNext("more", w, W.conn, 0, ExportPage)
            ELSE RunQuery("more", w, W.conn, W.sql, 0, ExportPage, Len(W.rows), FALSE)

(* The walk stops at a page that is not truncated, or that is empty.         *)
IsLast(page) == ~page.truncated \/ page.rows = <<>>

(* drainQuery after an await: W is the walk with the page just read.         *)
Drained(w, page) ==
  LET W == [walk[w] EXCEPT !.rows = @ \o page.rows, !.open = page.cursor] IN
  IF IsLast(page) THEN Leave(w, W, "done")
  ELSE IF W.aborted THEN Leave(w, W, "cancelled")
  ELSE /\ walk' = [walk EXCEPT ![w] = [W EXCEPT !.pc = "more"]]
       /\ queue' = Append(Tail(queue), NextOf(w, W)) /\ UNCHANGED tab

Broken(w) == IF walk[w].aborted THEN "cancelled" ELSE "failed"

FirstAnswered(r, ok, page) ==
  /\ r.for = "first"
  /\ IF ok THEN Drained(r.who, page) ELSE Leave(r.who, walk[r.who], Broken(r.who))
  /\ UNCHANGED asked

MoreAnswered(r, ok, page) ==
  /\ r.for = "more"
  /\ IF ok THEN Drained(r.who, page) ELSE Leave(r.who, walk[r.who], Broken(r.who))
  /\ UNCHANGED asked

ClosedAnswered(r, ok, page) ==
  /\ r.for = "closed"
  /\ LET W == walk[r.who] IN
     /\ walk' = [walk EXCEPT ![r.who].pc = W.end, ![r.who].open = FALSE]
     /\ tab' = Told(W, W.end)
  /\ queue' = Tail(queue) /\ UNCHANGED asked

(* drainCursor after an await; an export whose cursor is gone reads the      *)
(* result again from the start.                                             *)
StartOverKeeps(w) == [walk[w] EXCEPT !.pc = "first"]                  \* mutant
StartOver(w) == [walk[w] EXCEPT !.pc = "first", !.rows = <<>>]

RestAnswered(r, ok, page) ==
  LET w == r.who  W == [walk[w] EXCEPT !.rows = @ \o page.rows] IN
  /\ r.for = "rest"
  /\ \/ /\ ok /\ IsLast(page)
        /\ walk' = [walk EXCEPT ![w] = [W EXCEPT !.pc = "done"]]
        /\ queue' = Tail(queue) /\ tab' = Told(W, "done")
     \/ /\ ok /\ ~IsLast(page) /\ ~W.aborted
        /\ walk' = [walk EXCEPT ![w] = W]
        /\ queue' = Append(Tail(queue), QueryNext("rest", w, W.conn, 0, ExportPage))
        /\ UNCHANGED tab
     \/ /\ W.aborted /\ (ok => ~IsLast(page))
        /\ walk' = [walk EXCEPT ![w].pc = "cancelled"]
        /\ queue' = Tail(queue) /\ tab' = Told(W, "cancelled")
     \/ /\ ~ok /\ ~W.aborted
        /\ walk' = [walk EXCEPT ![w] = StartOver(w)]
        /\ queue' = Append(Tail(queue), FirstPage(w, W.conn, W.sql))
        /\ UNCHANGED tab
  /\ UNCHANGED asked

----------------------------------------------------------------------------
(* The oldest request is served and the code that waits for it goes on.      *)
Answer ==
  /\ queue # <<>>
  /\ \E ok \in BOOLEAN :
       LET r == Head(queue)  page == PageOf(r, ok) IN
       /\ Serve(r, ok)
       /\ \/ RunAnswered(r, ok, page)   \/ PageAnswered(r, ok, page)
          \/ FirstAnswered(r, ok, page) \/ MoreAnswered(r, ok, page)
          \/ RestAnswered(r, ok, page)  \/ ClosedAnswered(r, ok, page)

Init ==
  /\ tab = [t \in Tabs |-> EmptyTab] /\ walk = [w \in Walkers |-> Idle]
  /\ queue = <<>> /\ cur = [c \in Conns |-> NoCursor]
  /\ execs = <<>> /\ asked = [s \in Sqls |-> 0]

Next ==
  \/ \E t \in Tabs, s \in Sqls : Run(t, s)
  \/ \E t \in Tabs, delta \in {-1, 1} : PageTurn(t, delta)
  \/ \E t \in Tabs : Refresh(t)
  \/ \E w \in Walkers, s \in Sqls : Backup(w, s)
  \/ \E w \in Walkers, t \in Tabs : Export(w, t)
  \/ \E w \in Walkers : Dismissed(w) \/ Picked(w) \/ Cancel(w)
  \/ Answer

Spec == Init /\ [][Next]_vars
(* Every call is answered (EveryCallAnswered of module RpcCore).             *)
FairSpec == Spec /\ WF_vars(Answer)

----------------------------------------------------------------------------
(* The rows of execution e numbered from..to.                               *)
Stretch(e, from, to) == [k \in 1..(to - from + 1) |-> [exec |-> e, n |-> from + k - 1]]
IsPage(page, s, index) ==
  \E e \in DOMAIN execs :
    /\ execs[e] = s
    /\ page.rows = Stretch(e, index * PageSize + 1, Least((index + 1) * PageSize, Rows[s]))

(* What the grid shows is the page the pager names, of the statement the tab *)
(* ran: never the rows of another tab's result (nextPage, pageBy, App.tsx).  *)
PageIsOwn ==
  \A t \in Tabs : ~tab[t].shown.none => IsPage(tab[t].shown, tab[t].sql, tab[t].offset)

(* "Pages of ONE execution are a consistent snapshot" (App.tsx, run): the    *)
(* pages a tab keeps to turn back to, and to export, come from one execution *)
(* and each sits at its own index.                                           *)
CacheIsOneExecution ==
  \A t \in Tabs : \E e \in DOMAIN execs \cup {0} :
    \A k \in DOMAIN tab[t].pages :
      ~tab[t].pages[k].none => /\ IsPage(tab[t].pages[k], tab[t].sql, k - 1)
                               /\ \A i \in DOMAIN tab[t].pages[k].rows :
                                    tab[t].pages[k].rows[i].exec = e

(* A walk that says it is done has the rows of its statement once, in order  *)
(* and from one execution, cursor lost or not, to the last one (drainQuery,  *)
(* drainCursor).  It has them from the first one, with one exception that is *)
(* the code's: "export all" of a tab that holds nothing but the last page,   *)
(* refreshed on its own, saves that page and leaves out the `skipped` rows   *)
(* before it (the condition of runExport, App.tsx).                          *)
WalkIsWhole ==
  \A w \in Walkers :
    walk[w].pc = "done" /\ walk[w].sql \in Reads =>
      \E e \in DOMAIN execs :
        /\ execs[e] = walk[w].sql
        /\ walk[w].rows = Stretch(e, walk[w].skipped + 1, Rows[walk[w].sql])

(* A statement that may write is executed only when the user ran it: no page *)
(* turn, refresh or export executes it again (rerunnable, gridPaging.ts).    *)
NoSilentRerun ==
  \A s \in Sqls \ Reads :
    Cardinality({k \in DOMAIN execs : execs[k] = s}) <= asked[s]

LoadingEnds == \A t \in Tabs : tab[t].loading ~> ~tab[t].loading
WalksEnd == \A w \in Walkers : Working(w) ~> ~Working(w)

(* A tab that is loading, and a walk that is under way, come to an end: no   *)
(* answer is dropped between the fallback, the restart and the close         *)
(* (nextPage, drainQuery, drainCursor).                                      *)
ReadsEnd == LoadingEnds /\ WalksEnd
====
