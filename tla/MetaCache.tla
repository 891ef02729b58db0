----------------------------- MODULE MetaCache -----------------------------
(***************************************************************************)
(* The introspection cache of the frontend (metaCache.ts): levels of the   *)
(* object tree and column names kept per saved connection, least recently  *)
(* used first out, marked stale by the DDL of the editor, written to local *)
(* storage some time later; and the columns the autocomplete offers, which *)
(* are seeded from it (App.tsx).                                           *)
(*                                                                         *)
(* Two entries stand for a connection's: "tree", the listing of a level,   *)
(* and "cols", the columns of one table.  The calls of all connections go  *)
(* through the one worker in order (RpcService): served from the head, and *)
(* answered from the head.                                                 *)
(***************************************************************************)
EXTENDS Naturals, Sequences, FiniteSets, SequencesExt, Subsequences

CONSTANTS
  Conns,      \* saved connections
  Hosts,      \* what a fingerprint tells apart: server, database, user
  NoHost,     \* of a connection that is not open, or was never cached
  Cap,        \* CACHE_CAP
  MaxVer,     \* bound: versions of a catalog
  MaxCalls,   \* bound: calls on their way
  MaxMoves    \* bound: moves of the user

ASSUME ConstantsAssumption ==
  /\ IsFiniteSet(Conns) /\ NoHost \notin Hosts \union Conns /\ Cap \in Nat \ {0}
  /\ MaxVer \in Nat /\ MaxCalls \in Nat /\ MaxMoves \in Nat

VARIABLES
  host,       \* connections(): the server each saved connection names
  sess,       \* openConns(): the server its session is connected to
  focus,      \* focusedDefId()
  cache,      \* per connection: fingerprint and entries
  lru,        \* its entries, least recently used first
  kv,         \* cache and lru as local storage has them
  names,      \* columnCache(): columns of the table offered, if any
  described,  \* describedColumns: open sessions whose table was asked for
  queue,      \* calls not yet answered, oldest first
  served,     \* how many of them the worker has executed
  catalog,    \* the server: version of what each entry would hold
  untold,     \* history: entries changed without a word to the cache
  moves

stored == <<cache, lru>>
offered == <<names, described>>
calls == <<queue, served>>
vars == <<host, sess, focus, stored, kv, offered, calls, catalog, untold, moves>>

Keys == {"tree", "cols"}
NoNames == [host |-> NoHost, ver |-> 0]
NoEntries == [k \in {} |-> 0]

(* A level grows with its objects and may outgrow the cache.                *)
SizeOf(k, ver) == IF k = "tree" THEN 1 + 2 * ver ELSE 1

EntriesOf(cc) == UNION {{<<c, k>> : k \in DOMAIN cc[c].e} : c \in Conns}

(* The sizes of the entries add up: as many cells as an entry is large.     *)
CellsOf(cc) ==
  UNION {{<<x, i>> : i \in 1..SizeOf(x[2], cc[x[1]].e[x[2]].ver)} : x \in EntriesOf(cc)}
TotalSize(cc) == Cardinality(CellsOf(cc))

----------------------------------------------------------------------------
(* metaCache.ts on a cache cc.                                              *)

(* openConn: another fingerprint drops what was kept.                       *)
OpenConn(cc, c, h) ==
  IF cc[c].fp = h THEN cc ELSE [cc EXCEPT ![c] = [fp |-> h, e |-> NoEntries]]

(* getEntry: a hit is used, and goes behind the others.                     *)
Others(c, k) == Only(lru, ToSet(lru) \ {<<c, k>>})
Touched(c, k) == Append(Others(c, k), <<c, k>>)

MarkStale(cc, c, ks) ==
  [cc EXCEPT ![c].e = [k \in DOMAIN @ |-> IF k \in ks THEN [@[k] EXCEPT !.stale = TRUE]
                                          ELSE @[k]]]

(* The cache with one more value; what is left when some are given up.       *)
Holding(c, k, x) ==
  [cache EXCEPT ![c].e = [y \in DOMAIN @ \union {k} |-> IF y = k THEN x ELSE @[y]]]
Without(cc, gone) ==
  [d \in Conns |-> [cc[d] EXCEPT !.e = [x \in {y \in DOMAIN @ : <<d, y>> \notin gone} |-> @[x]]]]
Newest(c, k, gone) == Append(Only(Others(c, k), ToSet(lru) \ gone), <<c, k>>)

(* putEntry: the entries given up, in order, until the rest fits.           *)
FirstOf(order, n) == {order[i] : i \in 1..n}
Left(cc, order, n) == TotalSize(Without(cc, FirstOf(order, n)))
VictimsOneFew(cc, order) ==                                       \* mutant
  FirstOf(order, CHOOSE n \in 0..Len(order) :
    /\ Left(cc, order, n) <= Cap + 1
    /\ \A m \in 0..(n - 1) : Left(cc, order, m) > Cap + 1)
Victims(cc, order) ==
  FirstOf(order, CHOOSE n \in 0..Len(order) :
    /\ Left(cc, order, n) <= Cap
    /\ \A m \in 0..(n - 1) : Left(cc, order, m) > Cap)

(* putEntry: a value too large alone is not kept, and what was there stays.  *)
Put(c, k, h, ver) ==
  IF cache[c].fp = NoHost \/ SizeOf(k, ver) > Cap THEN UNCHANGED stored
  ELSE LET with == Holding(c, k, [host |-> h, ver |-> ver, stale |-> FALSE])
           gone == Victims(with, Others(c, k))
       IN  cache' = Without(with, gone) /\ lru' = Newest(c, k, gone)

(* ddlTargets: DDL of a table makes the listing and its columns stale, of    *)
(* another object the listing, and of unknown shape everything.             *)
TargetsOnlyCols(ddl) == IF ddl = "table" THEN {"cols"} ELSE {"tree"}  \* mutant

Targets(ddl) ==
  IF ddl = "table" THEN {"tree", "cols"}
  ELSE IF ddl = "object" THEN {"tree"} ELSE Keys

(* What it may have changed at the server.                                  *)
Changes(ddl) == SUBSET (IF ddl = "object" THEN {"tree"} ELSE Keys) \ {{}}

----------------------------------------------------------------------------
Init ==
  /\ host \in [Conns -> Hosts] /\ sess = [c \in Conns |-> NoHost] /\ focus = NoHost
  /\ cache = [c \in Conns |-> [fp |-> NoHost, e |-> NoEntries]] /\ lru = <<>>
  /\ kv = stored
  /\ names = NoNames /\ described = {}
  /\ queue = <<>> /\ served = 0
  /\ catalog = [h \in Hosts |-> [k \in Keys |-> 0]]
  /\ untold = {} /\ moves = 0

Moves == moves < MaxMoves /\ moves' = moves + 1

Load(c, k) == [op |-> "load", c |-> c, key |-> k, keys |-> {}, ver |-> 0]
Ddl(c, ddl) == [op |-> ddl, c |-> c, key |-> "tree", keys |-> {}, ver |-> 0]

Sent(s) ==
  /\ Len(queue) + Len(s) <= MaxCalls
  /\ queue' = queue \o s /\ UNCHANGED served

(* The effect that seeds the autocomplete: of the cache, only what is not    *)
(* stale, and everything may be asked for again.                            *)
Seeded(c, cc) ==
  /\ described' = {}
  /\ names' = IF c # NoHost /\ "cols" \in DOMAIN cc[c].e /\ ~cc[c].e["cols"].stale
              THEN [host |-> cc[c].e["cols"].host, ver |-> cc[c].e["cols"].ver]
              ELSE NoNames

(* The tree of a connection shows what is cached and asks for it.           *)
Listed(c, cc) ==
  /\ lru' = IF "tree" \in DOMAIN cc[c].e THEN Touched(c, "tree")
            ELSE Only(lru, EntriesOf(cc))
  /\ Sent(<<Load(c, "tree")>>)

Quiet(c) == \A i \in DOMAIN queue : queue[i].c # c

(* onConnect.                                                               *)
Connect(c) ==
  /\ Moves /\ sess[c] = NoHost
  /\ LET cc == OpenConn(cache, c, host[c]) IN
       cache' = cc /\ Listed(c, cc) /\ Seeded(c, cc)
  /\ sess' = [sess EXCEPT ![c] = host[c]] /\ focus' = c
  /\ UNCHANGED <<host, kv, catalog, untold>>

(* disconnect waits for conn.close, behind every call of the session.       *)
Disconnect(c) ==
  /\ Moves /\ sess[c] # NoHost /\ Quiet(c)
  /\ sess' = [sess EXCEPT ![c] = NoHost]
  /\ IF focus = c THEN focus' = NoHost /\ Seeded(NoHost, cache)
                  ELSE UNCHANGED <<focus, offered>>
  /\ UNCHANGED <<host, stored, kv, calls, catalog, untold>>

Focus(c) ==
  /\ Moves /\ sess[c] # NoHost /\ focus # c
  /\ focus' = c /\ Seeded(c, cache)
  /\ UNCHANGED <<host, sess, stored, kv, calls, catalog, untold>>

(* The saved parameters are edited; not while a session uses them.          *)
EditConnection(c, h) ==
  /\ Moves /\ sess[c] = NoHost /\ h # host[c]
  /\ host' = [host EXCEPT ![c] = h]
  /\ UNCHANGED <<sess, focus, stored, kv, offered, calls, catalog, untold>>

(* The entries of other connections, or of this one, that an untold change  *)
(* of keys ks on server h makes wrong.                                      *)
Behind(h, ks, teller) ==
  {<<c, k>> : c \in {d \in Conns \ teller : cache[d].fp = h}, k \in ks}

Executed(i) == i <= served /\ queue[i].op # "load"

(* A session dies with its calls and another takes its place; the answers   *)
(* of what it had executed are lost, the invalidation with them.            *)
SessionReplaced(c) ==
  /\ Moves /\ sess[c] # NoHost
  /\ untold' = untold \union
       {<<c, k>> : k \in UNION {queue[i].keys : i \in {j \in DOMAIN queue :
                                  queue[j].c = c /\ Executed(j)}}}
  /\ queue' = Append(Only(queue, {q \in ToSet(queue) : q.c # c}), Load(c, "tree"))
  /\ Len(queue') <= MaxCalls
  /\ served' = Cardinality({i \in 1..served : queue[i].c # c})
  /\ lru' = IF "tree" \in DOMAIN cache[c].e THEN Touched(c, "tree") ELSE lru
  /\ IF focus = c THEN Seeded(c, cache) ELSE UNCHANGED offered
  /\ UNCHANGED <<host, sess, focus, cache, kv, catalog>>

(* The statement being written mentions the table.                          *)
Describe(c) ==
  /\ Moves /\ focus = c /\ c \notin described
  /\ described' = described \union {c} /\ Sent(<<Load(c, "cols")>>)
  /\ UNCHANGED <<host, sess, focus, stored, kv, names, catalog, untold>>

(* The table is opened: it is described whatever was before.                *)
OpenData(c) ==
  /\ Moves /\ sess[c] # NoHost
  /\ Sent(<<Load(c, "cols")>>)
  /\ UNCHANGED <<host, sess, focus, stored, kv, offered, catalog, untold>>

RunDdl(c, ddl) ==
  /\ Moves /\ sess[c] # NoHost
  /\ Sent(<<Ddl(c, ddl)>>)
  /\ UNCHANGED <<host, sess, focus, stored, kv, offered, catalog, untold>>

(* reloadTree: nothing cached is trusted any more, in any open connection.  *)
Refresh ==
  /\ Moves /\ focus # NoHost
  /\ LET open == {c \in Conns : sess[c] # NoHost}
         cc == [c \in Conns |-> IF c \in open THEN MarkStale(cache, c, Keys)[c] ELSE cache[c]]
         hits == {<<c, "tree">> : c \in open} \intersect EntriesOf(cache)
     IN  /\ cache' = cc /\ Seeded(focus, cc)
         /\ lru' = Only(lru, ToSet(lru) \ hits) \o Only(lru, hits)
         /\ \E s \in [1..Cardinality(open) -> {Load(c, "tree") : c \in open}] :
              IsInjective(s) /\ Sent(s)
  /\ UNCHANGED <<host, sess, focus, kv, catalog, untold>>

----------------------------------------------------------------------------
Bumped(h, ks) == [catalog EXCEPT ![h] = [k \in Keys |-> IF k \in ks THEN @[k] + 1 ELSE @[k]]]
CanBump(h, ks) == \A k \in ks : catalog[h][k] < MaxVer

(* The worker executes the next call.                                       *)
Serve ==
  /\ served < Len(queue) /\ served' = served + 1
  /\ LET q == queue[served + 1]
         h == sess[q.c]
     IN  IF q.op = "load"
         THEN /\ queue' = [queue EXCEPT ![served + 1].ver = catalog[h][q.key]]
              /\ UNCHANGED <<catalog, untold>>
         ELSE \E ks \in Changes(q.op) \union {{}} :
                /\ CanBump(h, ks) /\ catalog' = Bumped(h, ks)
                /\ queue' = [queue EXCEPT ![served + 1].keys = ks]
                /\ untold' = untold \union Behind(h, ks, {q.c})
  /\ UNCHANGED <<host, sess, focus, stored, kv, offered, moves>>

(* A level of the tree, or rememberColumns.                                 *)
Answered ==
  /\ served > 0 /\ Head(queue).op = "load"
  /\ LET q == Head(queue)
         h == sess[q.c]
     IN  /\ Put(q.c, q.key, h, q.ver)
         /\ untold' = IF q.ver = catalog[h][q.key] /\ SizeOf(q.key, q.ver) <= Cap
                      THEN untold \ {<<q.c, q.key>>} ELSE untold
         /\ IF q.key = "cols"
            THEN /\ described' = described \union {q.c}
                 /\ names' = IF q.c = focus THEN [host |-> h, ver |-> q.ver] ELSE names
            ELSE UNCHANGED offered
  /\ queue' = Tail(queue) /\ served' = served - 1
  /\ UNCHANGED <<host, sess, focus, kv, catalog, moves>>

ForgetNothing(c, ks) == UNCHANGED offered                         \* mutant

(* forgetColumns.                                                           *)
ForgetColumns(c, ks) ==
  IF c = focus /\ "cols" \in ks /\ names # NoNames
  THEN names' = NoNames /\ described' = described \ {c}
  ELSE UNCHANGED offered

(* The end of run: the levels open in the trees are listed again and the     *)
(* cache is told.                                                           *)
DdlAnswered ==
  /\ served > 0 /\ Head(queue).op # "load"
  /\ LET q == Head(queue) IN
       /\ cache' = MarkStale(cache, q.c, Targets(q.op)) /\ UNCHANGED lru
       /\ ForgetColumns(q.c, Targets(q.op))
       /\ \E again \in {<<>>, <<Load(q.c, "tree")>>} :
            /\ Len(queue) - 1 + Len(again) <= MaxCalls
            /\ queue' = Tail(queue) \o again
  /\ served' = served - 1
  /\ UNCHANGED <<host, sess, focus, kv, catalog, untold, moves>>

(* Another program, a tool of this one, or the rollback of a DDL.           *)
ChangedUnseen(h, ks) ==
  /\ Moves /\ ks # {} /\ CanBump(h, ks) /\ catalog' = Bumped(h, ks)
  /\ untold' = untold \union Behind(h, ks, {})
  /\ UNCHANGED <<host, sess, focus, stored, kv, offered, calls>>

(* flush, half a second after a change and when the page is hidden.         *)
Flush ==
  /\ kv # stored /\ kv' = stored
  /\ UNCHANGED <<host, sess, focus, stored, offered, calls, catalog, untold, moves>>

(* The program ends and starts again with what was stored.  The marks it     *)
(* had not written yet are lost.                                            *)
Restart ==
  /\ Moves
  /\ cache' = kv[1] /\ lru' = kv[2] /\ kv' = kv
  /\ untold' = untold
       \union {x \in EntriesOf(kv[1]) :
                 x \notin EntriesOf(cache) \/ cache[x[1]].e[x[2]] # kv[1][x[1]].e[x[2]]}
       \union UNION {Behind(sess[queue[i].c], queue[i].keys, {}) : i \in 1..served}
  /\ sess' = [c \in Conns |-> NoHost] /\ focus' = NoHost
  /\ names' = NoNames /\ described' = {} /\ queue' = <<>> /\ served' = 0
  /\ UNCHANGED <<host, catalog>>

Next ==
  \/ \E c \in Conns :
       \/ Connect(c) \/ Disconnect(c) \/ Focus(c) \/ SessionReplaced(c)
       \/ Describe(c) \/ OpenData(c)
       \/ \E h \in Hosts : EditConnection(c, h)
       \/ \E ddl \in {"table", "object", "unclear"} : RunDdl(c, ddl)
  \/ Refresh \/ Serve \/ Answered \/ DdlAnswered \/ Flush \/ Restart
  \/ \E h \in Hosts, ks \in SUBSET Keys : ChangedUnseen(h, ks)

Spec == Init /\ [][Next]_vars

----------------------------------------------------------------------------
(* metaCache.ts:16: the cache never holds more than its cap, and the order   *)
(* of use names exactly what it holds.                                      *)
TypeOK ==
  /\ TotalSize(cache) <= Cap /\ TotalSize(kv[1]) <= Cap
  /\ IsInjective(lru) /\ ToSet(lru) = EntriesOf(cache)
  /\ focus \in Conns \union {NoHost} /\ described \subseteq Conns
  /\ served \in 0..Len(queue) /\ Len(queue) <= MaxCalls
  /\ sess \in [Conns -> Hosts \union {NoHost}] /\ host \in [Conns -> Hosts]

(* Executed DDL of the connection whose answer is on its way.               *)
Coming(c, k) == \E i \in 1..served : queue[i].c = c /\ k \in queue[i].keys

(* metaCache.ts:11-14: an entry not marked stale is what its server has, as  *)
(* far as DDL of the editor goes, whatever loads were on their way when it   *)
(* ran, and it is of the server the connection is open to.                  *)
FreshIsTrue ==
  \A c \in Conns :
    /\ sess[c] # NoHost => cache[c].fp = sess[c]
    /\ \A k \in DOMAIN cache[c].e :
         LET x == cache[c].e[k] IN
         /\ x.host = cache[c].fp
         /\ ~x.stale /\ <<c, k>> \notin untold /\ ~Coming(c, k) => x.ver = catalog[x.host][k]

(* App.tsx:1361: the columns the autocomplete offers are those of the        *)
(* focused connection, and never those a DDL of the editor changed.         *)
NamesAreTrue ==
  names # NoNames =>
    /\ focus # NoHost /\ names.host = sess[focus]
    /\ <<focus, "cols">> \notin untold /\ ~Coming(focus, "cols") =>
         names.ver = catalog[names.host]["cols"]
=============================================================================
