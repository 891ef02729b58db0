--------------------------- MODULE MetaCacheProofs ---------------------------
(* That no entry of the cache that looks current, and no column offered, is  *)
(* older than a DDL of the editor, for any number of connections, servers    *)
(* and calls; which entries are given up for want of room does not matter    *)
(* to that.  And that those given up are enough: the cache stays within its  *)
(* cap, in memory and as stored.                                             *)
EXTENDS MetaCache, SequenceFacts

Ddls == {"table", "object", "unclear"}
Request == [op : Ddls \union {"load"}, c : Conns, key : Keys, keys : SUBSET Keys, ver : Nat]
Entry == [host : Hosts, ver : Nat, stale : BOOLEAN]
Entries == UNION {[K -> Entry] : K \in SUBSET Keys}
Caches == [Conns -> [fp : Hosts \union {NoHost}, e : Entries]]

Types ==
  /\ host \in [Conns -> Hosts] /\ sess \in [Conns -> Hosts \union {NoHost}]
  /\ focus \in Conns \union {NoHost}
  /\ cache \in Caches /\ kv[1] \in Caches
  /\ queue \in Seq(Request) /\ served \in 0..Len(queue)
  /\ catalog \in [Hosts -> [Keys -> Nat]]

(* A call is of a connection that is open, and so is the one in focus.       *)
Attached ==
  /\ \A i \in DOMAIN queue : sess[queue[i].c] # NoHost
  /\ focus # NoHost => sess[focus] # NoHost
(* What a statement may change the cache is told of; a load changes nothing. *)
Told ==
  \A i \in DOMAIN queue :
    queue[i].keys \subseteq IF queue[i].op = "load" THEN {} ELSE Targets(queue[i].op)
(* An entry is of the server its cache is of, in memory and as stored.       *)
OfServer(cc) == \A c \in Conns, k \in Keys : k \in DOMAIN cc[c].e => cc[c].e[k].host = cc[c].fp
Ours == \A c \in Conns : sess[c] # NoHost => cache[c].fp = sess[c]

(* Among the calls executed after the i-th there is a DDL that changed k.    *)
ComingAfter(i, c, k) ==
  \E j \in DOMAIN queue : i < j /\ j <= served /\ queue[j].c = c /\ k \in queue[j].keys
IsLoad(i, c, k) == i <= served /\ queue[i].op = "load" /\ queue[i].c = c /\ queue[i].key = k
(* The answer to a load is what the server has, or something will tell.      *)
LoadsAreTrue ==
  \A i \in DOMAIN queue, c \in Conns, k \in Keys : IsLoad(i, c, k) =>
    /\ queue[i].ver <= catalog[sess[c]][k]
    /\ \A j \in DOMAIN queue : i < j /\ IsLoad(j, c, k) => queue[i].ver <= queue[j].ver
    /\ \/ queue[i].ver = catalog[sess[c]][k] \/ <<c, k>> \in untold
       \/ ComingAfter(i, c, k)

Excused(c, k) == <<c, k>> \in untold \/ ComingAfter(0, c, k)
Fresh ==
  \A c \in Conns, k \in Keys : k \in DOMAIN cache[c].e =>
    cache[c].e[k].stale \/ Excused(c, k) \/ cache[c].e[k].ver = catalog[cache[c].e[k].host][k]
Named ==
  names # NoNames =>
    /\ focus # NoHost /\ names.host = sess[focus]
    /\ Excused(focus, "cols") \/ names.ver = catalog[names.host]["cols"]

IInv == /\ Types /\ Attached /\ Told /\ OfServer(cache) /\ OfServer(kv[1]) /\ Ours
        /\ LoadsAreTrue /\ Fresh /\ Named

----------------------------------------------------------------------------
(* What the operations of metaCache.ts do to a cache.                        *)

LEMMA CacheIs ==
  ASSUME NEW cc \in Caches, NEW c \in Conns
  PROVE  /\ cc[c] \in [fp : Hosts \union {NoHost}, e : Entries]
         /\ cc[c].fp \in Hosts \union {NoHost} /\ DOMAIN cc[c].e \subseteq Keys
         /\ cc[c].e \in [DOMAIN cc[c].e -> Entry]
         /\ \A k \in DOMAIN cc[c].e : cc[c].e[k] \in Entry
  <1>1. cc[c] \in [fp : Hosts \union {NoHost}, e : Entries]
    BY DEF Caches
  <1>2. cc[c].fp \in Hosts \union {NoHost} /\ cc[c].e \in Entries
    BY <1>1
  <1>3. PICK K \in SUBSET Keys : cc[c].e \in [K -> Entry]
    BY <1>2 DEF Entries
  <1> QED BY <1>1, <1>2, <1>3

LEMMA EntriesAre ==
  ASSUME NEW D, D \subseteq Keys, NEW f \in [D -> Entry] PROVE f \in Entries
  BY DEF Entries

Becomes(cc, c, h, f) == [cc EXCEPT ![c] = [fp |-> h, e |-> f]]
LEMMA CacheAt ==
  ASSUME NEW cc \in Caches, NEW c \in Conns, NEW h \in Hosts \union {NoHost}, NEW f \in Entries
  PROVE  /\ Becomes(cc, c, h, f) \in Caches
         /\ Becomes(cc, c, h, f)[c].fp = h /\ Becomes(cc, c, h, f)[c].e = f
         /\ \A d \in Conns \ {c} : Becomes(cc, c, h, f)[d] = cc[d]
  <1>1. [fp |-> h, e |-> f] \in [fp : Hosts \union {NoHost}, e : Entries]
    OBVIOUS
  <1> QED BY <1>1 DEF Caches, Becomes

(* The entries of new are entries of old, stale if they were.                *)
Carried(old, new) ==
  \A c \in Conns, k \in Keys : k \in DOMAIN new[c].e =>
    /\ k \in DOMAIN old[c].e
    /\ new[c].e[k].host = old[c].e[k].host /\ new[c].e[k].ver = old[c].e[k].ver
    /\ old[c].e[k].stale => new[c].e[k].stale

LEMMA OpenConnFacts ==
  ASSUME NEW cc \in Caches, NEW c \in Conns, NEW h \in Hosts, OfServer(cc),
         NEW new, new = OpenConn(cc, c, h)
  PROVE  /\ new \in Caches /\ Carried(cc, new) /\ OfServer(new) /\ new[c].fp = h
         /\ \A d \in Conns \ {c} : new[d] = cc[d]
  <1>1. CASE cc[c].fp = h
    BY <1>1 DEF OpenConn, Carried
  <1>2. CASE cc[c].fp # h
    <2>1. NoEntries \in Entries /\ DOMAIN NoEntries = {}
      <3>1. NoEntries \in [{} -> Entry]
        BY DEF NoEntries
      <3> QED BY <3>1, EntriesAre
    <2>2. new = Becomes(cc, c, h, NoEntries)
      BY <1>2 DEF OpenConn, Becomes
    <2>3. /\ new \in Caches /\ new[c].fp = h /\ new[c].e = NoEntries
          /\ \A d \in Conns \ {c} : new[d] = cc[d]
      BY <2>1, <2>2, CacheAt
    <2> QED BY <2>1, <2>3 DEF Carried, OfServer
  <1> QED BY <1>1, <1>2

LEMMA MarkStaleFacts ==
  ASSUME NEW cc \in Caches, NEW c \in Conns, NEW ks, OfServer(cc),
         NEW new, new = MarkStale(cc, c, ks)
  PROVE  /\ new \in Caches /\ Carried(cc, new) /\ OfServer(new)
         /\ \A d \in Conns : new[d].fp = cc[d].fp
         /\ \A d \in Conns \ {c} : new[d] = cc[d]
         /\ \A k \in DOMAIN new[c].e : k \in ks => new[c].e[k].stale
  <1> DEFINE D == DOMAIN cc[c].e
             f == [k \in D |-> IF k \in ks THEN [cc[c].e[k] EXCEPT !.stale = TRUE] ELSE cc[c].e[k]]
  <1>1. /\ cc[c].fp \in Hosts \union {NoHost} /\ D \subseteq Keys
        /\ cc[c] \in [fp : Hosts \union {NoHost}, e : Entries]
        /\ \A k \in D : cc[c].e[k] \in Entry
    BY CacheIs
  <1>2. \A k \in D : /\ f[k] \in Entry /\ f[k].host = cc[c].e[k].host /\ f[k].ver = cc[c].e[k].ver
                     /\ (cc[c].e[k].stale => f[k].stale) /\ (k \in ks => f[k].stale)
    BY <1>1 DEF Entry
  <1>3. f \in Entries /\ DOMAIN f = D
    <2>1. f \in [D -> Entry]
      BY <1>2
    <2> QED BY <1>1, <2>1, EntriesAre
  <1>4. new = Becomes(cc, c, cc[c].fp, f)
    <2>1. new = [cc EXCEPT ![c].e = f]
      BY DEF MarkStale
    <2> HIDE DEF f
    <2>2. PICK r \in [fp : Hosts \union {NoHost}, e : Entries] : r = cc[c]
      BY <1>1
    <2>3. [r EXCEPT !.e = f] = [fp |-> r.fp, e |-> f]
      OBVIOUS
    <2>4. [cc EXCEPT ![c].e = f] = [cc EXCEPT ![c] = [cc[c] EXCEPT !.e = f]]
      BY DEF Caches
    <2> QED BY <2>1, <2>2, <2>3, <2>4 DEF Becomes
  <1> HIDE DEF f
  <1>5. /\ new \in Caches /\ new[c].fp = cc[c].fp /\ new[c].e = f
        /\ \A d \in Conns \ {c} : new[d] = cc[d]
    BY <1>1, <1>3, <1>4, CacheAt
  <1>6. OfServer(new)
    <2>1. ASSUME NEW d \in Conns, NEW k \in Keys, k \in DOMAIN new[d].e
          PROVE  new[d].e[k].host = new[d].fp
      <3>1. CASE d = c
        BY <1>2, <1>3, <1>5, <2>1, <3>1 DEF OfServer
      <3>2. CASE d # c
        BY <1>5, <2>1, <3>2 DEF OfServer
      <3> QED BY <3>1, <3>2
    <2> QED BY <2>1 DEF OfServer
  <1>7. Carried(cc, new)
    <2>1. ASSUME NEW d \in Conns, NEW k \in Keys, k \in DOMAIN new[d].e
          PROVE  /\ k \in DOMAIN cc[d].e
                 /\ new[d].e[k].host = cc[d].e[k].host /\ new[d].e[k].ver = cc[d].e[k].ver
                 /\ cc[d].e[k].stale => new[d].e[k].stale
      <3>1. CASE d = c
        BY <1>2, <1>3, <1>5, <2>1, <3>1
      <3>2. CASE d # c
        BY <1>5, <2>1, <3>2
      <3> QED BY <3>1, <3>2
    <2> QED BY <2>1 DEF Carried
  <1> QED BY <1>2, <1>3, <1>5, <1>6, <1>7

(* Some entries are given up.                                                *)
LEMMA WithoutFacts ==
  ASSUME NEW w \in Caches, NEW gone
  PROVE  /\ Without(w, gone) \in Caches
         /\ \A d \in Conns : Without(w, gone)[d].fp = w[d].fp
         /\ \A d \in Conns : \A x \in DOMAIN Without(w, gone)[d].e :
              x \in DOMAIN w[d].e /\ Without(w, gone)[d].e[x] = w[d].e[x]
  <1>1. ASSUME NEW d \in Conns
        PROVE  /\ Without(w, gone)[d] \in [fp : Hosts \union {NoHost}, e : Entries]
               /\ Without(w, gone)[d].fp = w[d].fp
               /\ \A x \in DOMAIN Without(w, gone)[d].e :
                    x \in DOMAIN w[d].e /\ Without(w, gone)[d].e[x] = w[d].e[x]
    <2> DEFINE D == {y \in DOMAIN w[d].e : <<d, y>> \notin gone}
               f == [x \in D |-> w[d].e[x]]
    <2>1. PICK r \in [fp : Hosts \union {NoHost}, e : Entries] : r = w[d]
      BY CacheIs
    <2>2. D \subseteq Keys /\ D \subseteq DOMAIN w[d].e /\ f \in [D -> Entry]
      BY CacheIs
    <2>3. f \in Entries /\ DOMAIN f = D /\ \A x \in D : f[x] = w[d].e[x]
      BY <2>2, EntriesAre
    <2>4. Without(w, gone)[d] = [r EXCEPT !.e = f]
      BY <2>1 DEF Without
    <2> HIDE DEF f, D
    <2>5. [r EXCEPT !.e = f] = [fp |-> r.fp, e |-> f]
      OBVIOUS
    <2>6. [fp |-> r.fp, e |-> f] \in [fp : Hosts \union {NoHost}, e : Entries]
      BY <2>3
    <2> QED BY <2>1, <2>2, <2>3, <2>4, <2>5, <2>6
  <1>2. Without(w, gone) \in Caches
    <2>1. Without(w, gone) = [d \in Conns |-> Without(w, gone)[d]]
      BY DEF Without
    <2> QED BY <1>1, <2>1 DEF Caches
  <1> QED BY <1>1, <1>2

(* A listing or the columns of a table arrive.                               *)
LEMMA PutFacts ==
  ASSUME cache \in Caches, OfServer(cache), NEW c \in Conns, NEW k \in Keys,
         NEW h \in Hosts, cache[c].fp = h, h # NoHost, NEW ver \in Nat, Put(c, k, h, ver)
  PROVE  /\ cache' \in Caches /\ OfServer(cache)'
         /\ \A d \in Conns : cache'[d].fp = cache[d].fp
         /\ \A d \in Conns, x \in Keys : x \in DOMAIN cache'[d].e =>
              \/ d = c /\ x = k /\ cache'[d].e[x].ver = ver /\ SizeOf(k, ver) <= Cap
              \/ /\ x \in DOMAIN cache[d].e /\ cache'[d].e[x] = cache[d].e[x]
                 /\ d = c /\ x = k => ~(SizeOf(k, ver) <= Cap)
  <1>1. CASE SizeOf(k, ver) > Cap
    <2>0. UNCHANGED cache
      BY <1>1 DEF Put, stored
    <2>1. UNCHANGED cache /\ ~(SizeOf(k, ver) <= Cap)
      BY <1>1, <2>0, ConstantsAssumption DEF SizeOf
    <2> QED BY <2>1 DEF OfServer
  <1>2. CASE ~(SizeOf(k, ver) > Cap)
    <2>0. SizeOf(k, ver) <= Cap
      BY <1>2, ConstantsAssumption DEF SizeOf
    <2> DEFINE new == [host |-> h, ver |-> ver, stale |-> FALSE]
               D == DOMAIN cache[c].e \union {k}
               f == [x \in D |-> IF x = k THEN new ELSE cache[c].e[x]]
    <2>1. new \in Entry /\ new.ver = ver /\ new.host = h
      BY DEF Entry
    <2> HIDE DEF new
    <2>2. D \subseteq Keys /\ f \in [D -> Entry]
      BY <2>1, CacheIs
    <2>3. f \in Entries /\ DOMAIN f = D
      BY <2>2, EntriesAre
    <2>4. \A x \in D : IF x = k THEN f[x] = new ELSE x \in DOMAIN cache[c].e /\ f[x] = cache[c].e[x]
      OBVIOUS
    <2>5. PICK w : w = [cache EXCEPT ![c].e = f]
      OBVIOUS
    <2>6. \E gone : cache' = Without(w, gone)
      <3>1. w = Holding(c, k, new)
        BY <2>5 DEF Holding
      <3> QED BY <1>2, <3>1 DEF Put, new
    <2> HIDE DEF f
    <2>7. PICK r \in [fp : Hosts \union {NoHost}, e : Entries] : r = cache[c]
      BY CacheIs
    <2>8. [r EXCEPT !.e = f] = [fp |-> r.fp, e |-> f]
      OBVIOUS
    <2>9. w = Becomes(cache, c, h, f)
      <3>1. w = [cache EXCEPT ![c] = [cache[c] EXCEPT !.e = f]]
        BY <2>5 DEF Caches
      <3> QED BY <2>7, <2>8, <3>1 DEF Becomes
    <2>10. /\ w \in Caches /\ w[c].fp = h /\ w[c].e = f
           /\ \A d \in Conns \ {c} : w[d] = cache[d]
      BY <2>3, <2>9, CacheAt
    <2>11. /\ cache' \in Caches /\ \A d \in Conns : cache'[d].fp = w[d].fp
           /\ \A d \in Conns : \A x \in DOMAIN cache'[d].e :
                x \in DOMAIN w[d].e /\ cache'[d].e[x] = w[d].e[x]
      BY <2>6, <2>10, WithoutFacts
    <2>12. ASSUME NEW d \in Conns, NEW x \in Keys, x \in DOMAIN cache'[d].e
           PROVE  /\ cache'[d].e[x].host = cache'[d].fp
                  /\ \/ d = c /\ x = k /\ cache'[d].e[x].ver = ver
                     \/ /\ x \in DOMAIN cache[d].e /\ cache'[d].e[x] = cache[d].e[x]
                        /\ ~(d = c /\ x = k)
      <3>1. x \in DOMAIN w[d].e /\ cache'[d].e[x] = w[d].e[x] /\ cache'[d].fp = w[d].fp
        BY <2>11, <2>12
      <3>2. CASE d # c
        BY <2>10, <3>1, <3>2 DEF OfServer
      <3>3. CASE d = c /\ x = k
        BY <2>1, <2>3, <2>4, <2>10, <3>1, <3>3
      <3>4. CASE d = c /\ x # k
        BY <2>3, <2>4, <2>10, <3>1, <3>4 DEF OfServer
      <3> QED BY <3>2, <3>3, <3>4
    <2>13. \A d \in Conns : cache'[d].fp = cache[d].fp
      BY <2>10, <2>11
    <2>14. OfServer(cache)'
      BY <2>12 DEF OfServer
    <2> QED BY <2>0, <2>11, <2>12, <2>13, <2>14
  <1> QED BY <1>1, <1>2

----------------------------------------------------------------------------
(* What a step leaves of the calls under way, and what follows.              *)

LEMMA QueueIs ==
  ASSUME Types
  PROVE  /\ Len(queue) \in Nat /\ DOMAIN queue = 1..Len(queue) /\ served \in Nat
         /\ \A i \in DOMAIN queue : queue[i] \in Request /\ queue[i].c \in Conns /\ i \in Nat \ {0}
         /\ \A i \in 1..served : i \in DOMAIN queue
  <1>1. Len(queue) \in Nat /\ DOMAIN queue = 1..Len(queue) /\ served \in Nat /\ served <= Len(queue)
    BY LenProperties DEF Types
  <1>2. \A i \in DOMAIN queue : queue[i] \in Request
    BY ElementOfSeq, <1>1 DEF Types
  <1> QED BY <1>1, <1>2 DEF Request

(* The calls executed so far are as they were.                               *)
SameExecuted ==
  served' = served /\ \A i \in 1..served : i \in DOMAIN queue' /\ queue'[i] = queue[i]

LEMMA ComingStays ==
  ASSUME Types, Types', SameExecuted, NEW n \in Nat, NEW c, NEW k
  PROVE  ComingAfter(n, c, k) <=> ComingAfter(n, c, k)'
  <1>1. \A j \in Nat : n < j /\ j <= served => j \in 1..served
    BY QueueIs
  <1>2. DOMAIN queue \subseteq Nat /\ DOMAIN queue' \subseteq Nat
    <2>1. DOMAIN queue' = 1..Len(queue')
      BY LenProperties DEF Types
    <2> QED BY <2>1, QueueIs
  <1>3. \A i \in 1..served : i \in DOMAIN queue
    BY QueueIs
  <1> QED BY <1>1, <1>2, <1>3 DEF ComingAfter, SameExecuted

LEMMA ExcusedStays ==
  ASSUME Types, Types', SameExecuted, untold \subseteq untold', NEW c, NEW k
  PROVE  Excused(c, k) => Excused(c, k)'
  <1>1. PICK n \in Nat : n = 0
    OBVIOUS
  <1>2. ComingAfter(n, c, k) <=> ComingAfter(n, c, k)'
    BY ComingStays
  <1> QED BY <1>1, <1>2 DEF Excused

LEMMA LoadsStay ==
  ASSUME Types, Types', LoadsAreTrue, SameExecuted, UNCHANGED catalog, untold \subseteq untold',
         \A i \in 1..served : sess'[queue[i].c] = sess[queue[i].c]
  PROVE  LoadsAreTrue'
  <1> SUFFICES ASSUME NEW i \in DOMAIN queue', NEW c \in Conns, NEW k \in Keys, IsLoad(i, c, k)'
               PROVE  /\ queue'[i].ver <= catalog'[sess'[c]][k]
                      /\ \A j \in DOMAIN queue' :
                           i < j /\ IsLoad(j, c, k)' => queue'[i].ver <= queue'[j].ver
                      /\ \/ queue'[i].ver = catalog'[sess'[c]][k] \/ <<c, k>> \in untold'
                         \/ ComingAfter(i, c, k)'
    BY DEF LoadsAreTrue
  <1>1. DOMAIN queue' \subseteq Nat \ {0}
    <2>1. DOMAIN queue' = 1..Len(queue')
      BY LenProperties DEF Types
    <2> QED BY <2>1
  <1>2. \A j \in DOMAIN queue' : IsLoad(j, c, k)' =>
          j \in 1..served /\ j \in DOMAIN queue /\ IsLoad(j, c, k) /\ queue'[j] = queue[j]
    <2>1. \A j \in DOMAIN queue' : IsLoad(j, c, k)' => j \in 1..served
      BY <1>1, QueueIs DEF IsLoad, SameExecuted
    <2> QED BY <2>1, QueueIs DEF IsLoad, SameExecuted
  <1>3. i \in 1..served /\ i \in DOMAIN queue /\ IsLoad(i, c, k) /\ queue'[i] = queue[i] /\ i \in Nat
    BY <1>1, <1>2
  <1>4. sess'[c] = sess[c]
    BY <1>3 DEF IsLoad
  <1>5. ComingAfter(i, c, k) <=> ComingAfter(i, c, k)'
    BY <1>3, ComingStays
  <1>6. /\ queue[i].ver <= catalog[sess[c]][k]
        /\ \A j \in DOMAIN queue : i < j /\ IsLoad(j, c, k) => queue[i].ver <= queue[j].ver
        /\ \/ queue[i].ver = catalog[sess[c]][k] \/ <<c, k>> \in untold
           \/ ComingAfter(i, c, k)
    BY <1>3 DEF LoadsAreTrue
  <1> QED BY <1>2, <1>3, <1>4, <1>5, <1>6

LEMMA FreshStays ==
  ASSUME Fresh, Carried(cache, cache'), UNCHANGED catalog,
         \A c \in Conns, k \in Keys : Excused(c, k) => Excused(c, k)'
  PROVE  Fresh'
  <1> SUFFICES ASSUME NEW c \in Conns, NEW k \in Keys, k \in DOMAIN cache'[c].e
               PROVE  \/ cache'[c].e[k].stale \/ Excused(c, k)'
                      \/ cache'[c].e[k].ver = catalog'[cache'[c].e[k].host][k]
    BY DEF Fresh
  <1>1. /\ k \in DOMAIN cache[c].e
        /\ cache'[c].e[k].host = cache[c].e[k].host /\ cache'[c].e[k].ver = cache[c].e[k].ver
        /\ cache[c].e[k].stale => cache'[c].e[k].stale
    BY DEF Carried
  <1>2. cache[c].e[k].stale \/ Excused(c, k) \/ cache[c].e[k].ver = catalog[cache[c].e[k].host][k]
    BY <1>1 DEF Fresh
  <1> QED BY <1>1, <1>2

LEMMA NamedStays ==
  ASSUME Named, Types, UNCHANGED <<names, focus, catalog>>, focus # NoHost => sess'[focus] = sess[focus],
         \A c \in Conns : Excused(c, "cols") => Excused(c, "cols")'
  PROVE  Named'
  <1>1. PICK f : f = focus
    OBVIOUS
  <1>2. names # NoNames => f \in Conns /\ names.host = sess[f] /\ sess'[f] = sess[f]
          /\ (Excused(f, "cols")' \/ names.ver = catalog[names.host]["cols"])
    BY <1>1 DEF Named, Types
  <1> QED BY <1>1, <1>2 DEF Named

(* The columns of the connection in focus are taken from the cache.          *)
LEMMA NamedSeeded ==
  ASSUME ConstantsAssumption, Fresh', OfServer(cache)', Ours', NEW c \in Conns \union {NoHost}, focus' = c,
         c # NoHost => sess'[c] # NoHost, NEW cc, cc = cache', Seeded(c, cc)
  PROVE  Named'
  <1>1. CASE names' = NoNames
    BY <1>1 DEF Named
  <1>2. CASE names' # NoNames
    <2>1. /\ c # NoHost /\ "cols" \in DOMAIN cc[c].e /\ ~cc[c].e["cols"].stale
          /\ names' = [host |-> cc[c].e["cols"].host, ver |-> cc[c].e["cols"].ver]
      BY <1>2 DEF Seeded
    <2>2. c \in Conns /\ "cols" \in Keys
      BY <2>1 DEF Keys
    <2>3. cc[c].e["cols"].host = sess'[c]
      BY <2>1, <2>2 DEF OfServer, Ours
    <2>4. Excused(c, "cols")' \/ cc[c].e["cols"].ver = catalog'[cc[c].e["cols"].host]["cols"]
      BY <2>1, <2>2 DEF Fresh
    <2>5. Named' = (names' # NoNames =>
                      /\ c # NoHost /\ names'.host = sess'[c]
                      /\ Excused(c, "cols")' \/ names'.ver = catalog'[names'.host]["cols"])
      BY DEF Named
    <2> QED BY <2>1, <2>3, <2>4, <2>5
  <1> QED BY <1>1, <1>2

LEMMA Appended ==
  ASSUME Types, Told, NEW s \in Seq(Request), queue' = queue \o s, served' = served,
         \A i \in DOMAIN s : s[i].keys = {} /\ sess'[s[i].c] # NoHost,
         \A i \in DOMAIN queue : sess'[queue[i].c] # NoHost
  PROVE  /\ SameExecuted /\ queue' \in Seq(Request) /\ served' \in 0..Len(queue') /\ Told'
         /\ \A i \in DOMAIN queue' : sess'[queue'[i].c] # NoHost
  <1>1. /\ queue' \in Seq(Request) /\ Len(queue') = Len(queue) + Len(s)
        /\ \A i \in 1..(Len(queue) + Len(s)) :
             queue'[i] = IF i <= Len(queue) THEN queue[i] ELSE s[i - Len(queue)]
    BY ConcatProperties DEF Types
  <1>2. Len(queue) \in Nat /\ Len(s) \in Nat /\ DOMAIN s = 1..Len(s)
        /\ DOMAIN queue' = 1..Len(queue') /\ DOMAIN queue = 1..Len(queue)
        /\ served \in 0..Len(queue)
    BY <1>1, LenProperties DEF Types
  <1>3. \A i \in DOMAIN queue' : \/ i \in DOMAIN queue /\ queue'[i] = queue[i]
                                 \/ \E j \in DOMAIN s : queue'[i] = s[j]
    <2> SUFFICES ASSUME NEW i \in 1..(Len(queue) + Len(s)), ~(i <= Len(queue))
                 PROVE  \E j \in DOMAIN s : queue'[i] = s[j]
      BY <1>1, <1>2
    <2>1. i - Len(queue) \in DOMAIN s
      BY <1>2
    <2> QED BY <1>1, <2>1
  <1>4. SameExecuted
    BY <1>1, <1>2 DEF SameExecuted
  <1>5. Told'
    BY <1>3 DEF Told
  <1> QED BY <1>1, <1>2, <1>3, <1>4, <1>5

(* A step that executes nothing, hears nothing and learns nothing.           *)
LEMMA CalmStep ==
  ASSUME ConstantsAssumption, IInv, cache' \in Caches, Carried(cache, cache'), OfServer(cache)', Ours',
         kv'[1] \in Caches, OfServer(kv'[1]),
         host' \in [Conns -> Hosts], sess' \in [Conns -> Hosts \union {NoHost}],
         NEW f \in Conns \union {NoHost}, focus' = f, f # NoHost => sess'[f] # NoHost,
         \A i \in DOMAIN queue : sess'[queue[i].c] = sess[queue[i].c],
         NEW s \in Seq(Request), queue' = queue \o s, served' = served,
         \A i \in DOMAIN s : s[i].keys = {} /\ sess'[s[i].c] # NoHost,
         UNCHANGED <<catalog, untold>>,
         \/ UNCHANGED names /\ f = focus /\ (f # NoHost => sess'[f] = sess[f])
         \/ \E cc : cc = cache' /\ Seeded(f, cc)
  PROVE  IInv'
  <1>0. Types /\ Told /\ Attached /\ LoadsAreTrue /\ Fresh /\ Named
    BY DEF IInv
  <1>1. /\ SameExecuted /\ queue' \in Seq(Request) /\ served' \in 0..Len(queue') /\ Told'
        /\ \A i \in DOMAIN queue' : sess'[queue'[i].c] # NoHost
    <2>1. \A i \in DOMAIN queue : sess'[queue[i].c] # NoHost
      BY <1>0 DEF Attached
    <2> QED BY <1>0, <2>1, Appended
  <1>2. Types'
    BY <1>0, <1>1 DEF Types
  <1>3. Attached'
    BY <1>1 DEF Attached
  <1>4. LoadsAreTrue'
    <2>1. \A i \in 1..served : sess'[queue[i].c] = sess[queue[i].c]
      BY <1>0, QueueIs
    <2> QED BY <1>0, <1>1, <1>2, <2>1, LoadsStay
  <1>5. \A c, k : Excused(c, k) => Excused(c, k)'
    BY <1>0, <1>1, <1>2, ExcusedStays
  <1>6. Fresh'
    BY <1>0, <1>5, FreshStays
  <1>7. Named'
    <2>1. CASE UNCHANGED names /\ f = focus /\ (f # NoHost => sess'[f] = sess[f])
      BY <1>0, <1>5, <2>1, NamedStays
    <2>2. CASE \E cc : cc = cache' /\ Seeded(f, cc)
      BY <1>6, <2>2, NamedSeeded
    <2> QED BY <2>1, <2>2
  <1> QED BY <1>1, <1>2, <1>3, <1>4, <1>6, <1>7 DEF IInv

LEMMA CallsAre ==
  /\ \A c \in Conns, k \in Keys : /\ Load(c, k) \in Request /\ Load(c, k).keys = {}
                                  /\ Load(c, k).c = c
  /\ \A c \in Conns, d \in Ddls : /\ Ddl(c, d) \in Request /\ Ddl(c, d).keys = {} /\ Ddl(c, d).c = c
  /\ "tree" \in Keys /\ "cols" \in Keys
  BY DEF Load, Ddl, Request, Ddls, Keys

LEMMA NoMore ==
  ASSUME Types PROVE queue = queue \o <<>> /\ <<>> \in Seq(Request) /\ DOMAIN <<>> = {}
  <1>1. queue \in Seq(Request) /\ <<>> \in Seq(Request) /\ DOMAIN <<>> = {}
    BY DEF Types
  <1>2. \A q \in Seq(Request) : q \o <<>> = q
    BY ConcatEmptySeq
  <1> QED BY <1>1, <1>2

LEMMA One == \A q \in Request : <<q>> \in Seq(Request) /\ \A i \in DOMAIN <<q>> : <<q>>[i] = q
  OBVIOUS

LEMMA CarriedSame == \A cc : Carried(cc, cc)
  BY DEF Carried

LEMMA ConnectStep == ASSUME ConstantsAssumption, IInv, NEW c \in Conns, Connect(c) PROVE IInv'
  <1>1. PICK h \in Hosts : h = host[c]
    BY DEF IInv, Types
  <1>2. PICK cc : cc = OpenConn(cache, c, h)
    OBVIOUS
  <1>3. /\ sess[c] = NoHost /\ cache' = cc /\ Listed(c, cc) /\ Seeded(c, cc)
        /\ sess' = [sess EXCEPT ![c] = h] /\ focus' = c
        /\ UNCHANGED <<host, kv, catalog, untold>>
    BY <1>1, <1>2 DEF Connect
  <1>4. /\ cc \in Caches /\ Carried(cache, cc) /\ OfServer(cc) /\ cc[c].fp = h
        /\ \A d \in Conns \ {c} : cc[d] = cache[d]
    <2>1. PICK old \in Caches : old = cache
      BY DEF IInv, Types
    <2>2. OfServer(old) /\ cc = OpenConn(old, c, h)
      BY <1>2, <2>1 DEF IInv
    <2>3. /\ cc \in Caches /\ Carried(old, cc) /\ OfServer(cc) /\ cc[c].fp = h
          /\ \A d \in Conns \ {c} : cc[d] = old[d]
      BY <2>2, OpenConnFacts
    <2> QED BY <2>1, <2>3
  <1>5. /\ sess' \in [Conns -> Hosts \union {NoHost}] /\ sess'[c] = h /\ h # NoHost
        /\ \A d \in Conns \ {c} : sess'[d] = sess[d]
    BY <1>1, <1>3 DEF IInv, Types, ConstantsAssumption
  <1>6. Ours' /\ OfServer(cache)'
    BY <1>3, <1>4, <1>5 DEF IInv, Ours, OfServer
  <1>7. \A i \in DOMAIN queue : sess'[queue[i].c] = sess[queue[i].c]
    BY <1>3, <1>5, QueueIs DEF IInv, Attached
  <1>8. PICK r \in Request : r = Load(c, "tree") /\ r.keys = {} /\ r.c = c
    BY CallsAre
  <1>9. PICK s \in Seq(Request) : s = <<r>> /\ \A i \in DOMAIN s : s[i] = r
    BY One
  <1>10. queue' = queue \o s /\ served' = served
    BY <1>3, <1>8, <1>9 DEF Listed, Sent
  <1>11. kv'[1] \in Caches /\ OfServer(kv'[1]) /\ host' \in [Conns -> Hosts]
    BY <1>3 DEF IInv, Types
  <1>12. \A i \in DOMAIN s : s[i].keys = {} /\ sess'[s[i].c] # NoHost
    BY <1>5, <1>8, <1>9
  <1>13. PICK f \in Conns \union {NoHost} : f = c
    OBVIOUS
  <1>14. focus' = f /\ (f # NoHost => sess'[f] # NoHost) /\ (\E x : x = cache' /\ Seeded(f, x))
         /\ UNCHANGED <<catalog, untold>> /\ cache' \in Caches /\ Carried(cache, cache')
    BY <1>3, <1>4, <1>5, <1>13
  <1> QED BY <1>5, <1>6, <1>7, <1>10, <1>11, <1>12, <1>14, CalmStep

LEMMA DisconnectStep ==
  ASSUME ConstantsAssumption, IInv, NEW c \in Conns, Disconnect(c) PROVE IInv'
  <1>1. /\ sess' = [sess EXCEPT ![c] = NoHost] /\ Quiet(c)
        /\ IF focus = c THEN focus' = NoHost /\ Seeded(NoHost, cache) ELSE UNCHANGED <<focus, offered>>
        /\ UNCHANGED <<host, cache, kv, queue, served, catalog, untold>>
    BY DEF Disconnect, stored, calls
  <1>2. /\ sess' \in [Conns -> Hosts \union {NoHost}] /\ sess'[c] = NoHost
        /\ \A d \in Conns \ {c} : sess'[d] = sess[d]
    BY <1>1 DEF IInv, Types
  <1>3. cache' \in Caches /\ OfServer(cache)' /\ Ours' /\ Carried(cache, cache')
    BY <1>1, <1>2, CarriedSame DEF IInv, Types, Ours, OfServer
  <1>4. \A i \in DOMAIN queue : sess'[queue[i].c] = sess[queue[i].c]
    BY <1>1, <1>2, QueueIs DEF IInv, Quiet
  <1>5. PICK s \in Seq(Request) : s = <<>> /\ queue = queue \o s /\ DOMAIN s = {}
    BY NoMore DEF IInv
  <1>6. kv'[1] \in Caches /\ OfServer(kv'[1]) /\ host' \in [Conns -> Hosts]
    BY <1>1 DEF IInv, Types
  <1>7. PICK f \in Conns \union {NoHost} : f = focus'
    <2>1. focus \in Conns \union {NoHost}
      BY DEF IInv, Types
    <2> QED BY <1>1, <2>1
  <1>8. /\ f # NoHost => sess'[f] # NoHost
        /\ \/ UNCHANGED names /\ f = focus /\ (f # NoHost => sess'[f] = sess[f])
           \/ \E cc : cc = cache' /\ Seeded(f, cc)
    <2>1. CASE focus = c
      BY <1>1, <1>7, <2>1
    <2>2. CASE focus # c
      BY <1>1, <1>2, <1>7, <2>2 DEF IInv, Attached, offered
    <2> QED BY <2>1, <2>2
  <1>9. queue' = queue \o s /\ served' = served /\ UNCHANGED <<catalog, untold>>
    BY <1>1, <1>5
  <1> QED BY <1>2, <1>3, <1>4, <1>5, <1>6, <1>7, <1>8, <1>9, CalmStep

LEMMA FocusStep == ASSUME ConstantsAssumption, IInv, NEW c \in Conns, Focus(c) PROVE IInv'
  <1>1. /\ sess[c] # NoHost /\ focus' = c /\ Seeded(c, cache)
        /\ UNCHANGED <<host, sess, cache, kv, queue, served, catalog, untold>>
    BY DEF Focus, stored, calls
  <1>2. /\ cache' \in Caches /\ OfServer(cache)' /\ Ours' /\ Carried(cache, cache')
        /\ sess' \in [Conns -> Hosts \union {NoHost}]
    BY <1>1, CarriedSame DEF IInv, Types, Ours, OfServer
  <1>3. PICK s \in Seq(Request) : s = <<>> /\ queue = queue \o s /\ DOMAIN s = {}
    BY NoMore DEF IInv
  <1>4. kv'[1] \in Caches /\ OfServer(kv'[1]) /\ host' \in [Conns -> Hosts]
    BY <1>1 DEF IInv, Types
  <1>5. PICK f \in Conns \union {NoHost} : f = c
    OBVIOUS
  <1>6. focus' = f /\ (f # NoHost => sess'[f] # NoHost) /\ \E cc : cc = cache' /\ Seeded(f, cc)
    BY <1>1, <1>5
  <1>7. /\ queue' = queue \o s /\ served' = served /\ UNCHANGED <<catalog, untold>>
        /\ \A i \in DOMAIN queue : sess'[queue[i].c] = sess[queue[i].c]
    BY <1>1, <1>3
  <1> QED BY <1>2, <1>3, <1>4, <1>5, <1>6, <1>7, CalmStep

LEMMA EditConnectionStep ==
  ASSUME ConstantsAssumption, IInv, NEW c \in Conns, NEW h \in Hosts, EditConnection(c, h) PROVE IInv'
  <1>1. /\ host' = [host EXCEPT ![c] = h]
        /\ UNCHANGED <<sess, focus, names, cache, kv, queue, served, catalog, untold>>
    BY DEF EditConnection, stored, calls, offered
  <1>2. /\ cache' \in Caches /\ OfServer(cache)' /\ Ours' /\ Carried(cache, cache')
        /\ sess' \in [Conns -> Hosts \union {NoHost}]
    BY <1>1, CarriedSame DEF IInv, Types, Ours, OfServer
  <1>3. PICK s \in Seq(Request) : s = <<>> /\ queue = queue \o s /\ DOMAIN s = {}
    BY NoMore DEF IInv
  <1>4. kv'[1] \in Caches /\ OfServer(kv'[1]) /\ host' \in [Conns -> Hosts]
    BY <1>1 DEF IInv, Types
  <1>5. PICK f \in Conns \union {NoHost} : f = focus
    BY DEF IInv, Types
  <1>6. focus' = f /\ (f # NoHost => sess'[f] # NoHost) /\ UNCHANGED names /\ f = focus
        /\ (f # NoHost => sess'[f] = sess[f])
    BY <1>1, <1>5 DEF IInv, Attached
  <1>7. /\ queue' = queue \o s /\ served' = served /\ UNCHANGED <<catalog, untold>>
        /\ \A i \in DOMAIN queue : sess'[queue[i].c] = sess[queue[i].c]
    BY <1>1, <1>3
  <1> QED BY <1>2, <1>3, <1>4, <1>5, <1>6, <1>7, CalmStep

(* A call is sent and nothing else that matters here changes; or nothing is. *)
LEMMA SendStep ==
  ASSUME ConstantsAssumption, IInv, NEW s \in Seq(Request), queue' = queue \o s, served' = served,
         \A i \in DOMAIN s : s[i].keys = {} /\ sess[s[i].c] # NoHost,
         kv'[1] \in Caches, OfServer(kv'[1]),
         UNCHANGED <<host, sess, focus, names, cache, catalog, untold>>
  PROVE  IInv'
  <1>1. /\ cache' \in Caches /\ OfServer(cache)' /\ Ours' /\ Carried(cache, cache')
        /\ sess' \in [Conns -> Hosts \union {NoHost}] /\ host' \in [Conns -> Hosts]
    BY CarriedSame DEF IInv, Types, Ours, OfServer
  <1>2. PICK f \in Conns \union {NoHost} : f = focus
    BY DEF IInv, Types
  <1>3. focus' = f /\ (f # NoHost => sess'[f] # NoHost) /\ UNCHANGED names /\ f = focus
        /\ (f # NoHost => sess'[f] = sess[f])
    BY <1>2 DEF IInv, Attached
  <1>4. \A i \in DOMAIN queue : sess'[queue[i].c] = sess[queue[i].c]
    OBVIOUS
  <1>5. \A i \in DOMAIN s : s[i].keys = {} /\ sess'[s[i].c] # NoHost
    OBVIOUS
  <1> QED BY <1>1, <1>2, <1>3, <1>4, <1>5, CalmStep

LEMMA CallStep ==
  ASSUME ConstantsAssumption, IInv, NEW c \in Conns,
         Describe(c) \/ OpenData(c) \/ \E d \in Ddls : RunDdl(c, d)
  PROVE  IInv'
  <1>1. PICK r \in Request : queue' = queue \o <<r>> /\ r.c = c /\ r.keys = {} /\ served' = served
    <2>1. CASE Describe(c) \/ OpenData(c)
      <3>1. PICK r \in Request : r = Load(c, "cols") /\ r.c = c /\ r.keys = {}
        BY CallsAre
      <3> QED BY <2>1, <3>1 DEF Describe, OpenData, Sent
    <2>2. ASSUME NEW d \in Ddls, RunDdl(c, d)
          PROVE  \E r \in Request :
                   queue' = queue \o <<r>> /\ r.c = c /\ r.keys = {} /\ served' = served
      <3>1. PICK r \in Request : r = Ddl(c, d) /\ r.c = c /\ r.keys = {}
        BY CallsAre
      <3> QED BY <2>2, <3>1 DEF RunDdl, Sent
    <2> QED BY <2>1, <2>2
  <1>2. /\ UNCHANGED <<host, sess, focus, names, cache, kv, catalog, untold>>
        /\ sess[c] # NoHost
    BY DEF Describe, OpenData, RunDdl, stored, offered, IInv, Attached, ConstantsAssumption
  <1>3. PICK s \in Seq(Request) : s = <<r>> /\ \A i \in DOMAIN s : s[i] = r
    BY One
  <1>4. kv'[1] \in Caches /\ OfServer(kv'[1])
    BY <1>2 DEF IInv, Types
  <1>5. queue' = queue \o s /\ \A i \in DOMAIN s : s[i].keys = {} /\ sess[s[i].c] # NoHost
    BY <1>1, <1>2, <1>3
  <1> QED BY <1>1, <1>2, <1>4, <1>5, SendStep

LEMMA FlushStep == ASSUME ConstantsAssumption, IInv, Flush \/ UNCHANGED vars PROVE IInv'
  <1>1. /\ UNCHANGED <<host, sess, focus, names, cache, queue, served, catalog, untold>>
        /\ kv' = stored \/ kv' = kv
    BY DEF Flush, vars, stored, offered, calls
  <1>2. PICK s \in Seq(Request) : s = <<>> /\ queue = queue \o s /\ DOMAIN s = {}
    BY NoMore DEF IInv
  <1>3. kv'[1] \in Caches /\ OfServer(kv'[1])
    <2>1. kv'[1] = cache \/ kv'[1] = kv[1]
      BY <1>1 DEF stored
    <2> QED BY <2>1 DEF IInv, Types
  <1>4. queue' = queue \o s /\ served' = served
    BY <1>1, <1>2
  <1> QED BY <1>1, <1>2, <1>3, <1>4, SendStep

(* Everything cached of the open connections is stale.                       *)
LEMMA RefreshStep == ASSUME ConstantsAssumption, IInv, Refresh PROVE IInv'
  <1>1. PICK open : open = {c \in Conns : sess[c] # NoHost}
    OBVIOUS
  <1>2. PICK cc : cc = [c \in Conns |-> IF c \in open THEN MarkStale(cache, c, Keys)[c] ELSE cache[c]]
    OBVIOUS
  <1>3. /\ focus # NoHost /\ cache' = cc /\ Seeded(focus, cc)
        /\ UNCHANGED <<host, sess, focus, kv, catalog, untold>>
        /\ \E s \in [1..Cardinality(open) -> {Load(c, "tree") : c \in open}] : Sent(s)
    BY <1>1, <1>2 DEF Refresh
  <1>4. PICK old \in Caches : old = cache /\ OfServer(old)
    BY DEF IInv, Types
  <1>5. ASSUME NEW c \in Conns
        PROVE  /\ cc[c] \in [fp : Hosts \union {NoHost}, e : Entries] /\ cc[c].fp = old[c].fp
               /\ \A k \in Keys : k \in DOMAIN cc[c].e =>
                    /\ k \in DOMAIN old[c].e /\ cc[c].e[k].host = cc[c].fp
                    /\ cc[c].e[k].host = old[c].e[k].host /\ cc[c].e[k].ver = old[c].e[k].ver
                    /\ old[c].e[k].stale => cc[c].e[k].stale
    <2>1. CASE c \in open
      <3>1. PICK new : new = MarkStale(old, c, Keys)
        OBVIOUS
      <3>2. new \in Caches /\ Carried(old, new) /\ OfServer(new) /\ new[c].fp = old[c].fp
        BY <1>4, <3>1, MarkStaleFacts
      <3>3. cc[c] = new[c]
        BY <1>2, <1>4, <2>1, <3>1
      <3>4. new[c] \in [fp : Hosts \union {NoHost}, e : Entries]
        BY <3>2, CacheIs
      <3> QED BY <3>2, <3>3, <3>4 DEF Carried, OfServer
    <2>2. CASE c \notin open
      <3>1. cc[c] = old[c]
        BY <1>2, <1>4, <2>2
      <3> QED BY <1>4, <3>1, CacheIs DEF OfServer
    <2> QED BY <2>1, <2>2
  <1>6. cache' \in Caches /\ Carried(cache, cache') /\ OfServer(cache)' /\ Ours'
    <2>1. cc \in Caches
      <3>1. cc = [c \in Conns |-> cc[c]]
        BY <1>2
      <3> QED BY <1>5, <3>1 DEF Caches
    <2>2. Carried(old, cc) /\ OfServer(cc)
      BY <1>5 DEF Carried, OfServer
    <2>3. Ours'
      BY <1>3, <1>4, <1>5 DEF IInv, Ours
    <2> QED BY <1>3, <1>4, <2>1, <2>2, <2>3 DEF OfServer
  <1>7. PICK s : /\ s \in [1..Cardinality(open) -> {Load(c, "tree") : c \in open}] /\ Sent(s)
    BY <1>3
  <1>8. s \in Seq(Request) /\ \A i \in DOMAIN s : s[i].keys = {} /\ sess[s[i].c] # NoHost
    <2>1. {Load(c, "tree") : c \in open} \subseteq Request
      BY <1>1, CallsAre
    <2>2. PICK n \in Nat : n = Cardinality(open)
      <3>1. IsFiniteSet(open)
        BY <1>1, FS_Subset DEF ConstantsAssumption
      <3> QED BY <3>1, FS_CardinalityType
    <2>3. s \in [1..n -> Request]
      BY <1>7, <2>1, <2>2
    <2>4. s \in Seq(Request)
      BY <2>3
    <2>5. ASSUME NEW i \in 1..n PROVE s[i].keys = {} /\ sess[s[i].c] # NoHost
      <3>1. PICK c \in open : s[i] = Load(c, "tree")
        BY <1>7, <2>2, <2>5
      <3> QED BY <1>1, <3>1, CallsAre
    <2> QED BY <2>3, <2>4, <2>5
  <1>9. PICK f \in Conns \union {NoHost} : f = focus
    BY DEF IInv, Types
  <1>10. focus' = f /\ (f # NoHost => sess'[f] # NoHost) /\ \E x : x = cache' /\ Seeded(f, x)
    BY <1>3, <1>9 DEF IInv, Attached
  <1>11. /\ kv'[1] \in Caches /\ OfServer(kv'[1]) /\ host' \in [Conns -> Hosts]
         /\ sess' \in [Conns -> Hosts \union {NoHost}] /\ UNCHANGED <<catalog, untold>>
         /\ \A i \in DOMAIN queue : sess'[queue[i].c] = sess[queue[i].c]
    BY <1>3 DEF IInv, Types
  <1>12. queue' = queue \o s /\ served' = served
    BY <1>7 DEF Sent
  <1>13. \A i \in DOMAIN s : s[i].keys = {} /\ sess'[s[i].c] # NoHost
    BY <1>3, <1>8
  <1> QED BY <1>6, <1>8, <1>10, <1>11, <1>12, <1>13, CalmStep

----------------------------------------------------------------------------
(* The catalog of a server changes.                                          *)

LEMMA BumpedFacts ==
  ASSUME Types, NEW h \in Hosts, NEW ks
  PROVE  /\ Bumped(h, ks) \in [Hosts -> [Keys -> Nat]]
         /\ \A g \in Hosts, k \in Keys :
              /\ catalog[g][k] \in Nat /\ Bumped(h, ks)[g][k] \in Nat
              /\ catalog[g][k] <= Bumped(h, ks)[g][k]
              /\ ~(g = h /\ k \in ks) => Bumped(h, ks)[g][k] = catalog[g][k]
  <1> DEFINE f == [k \in Keys |-> IF k \in ks THEN catalog[h][k] + 1 ELSE catalog[h][k]]
  <1>1. \A g \in Hosts : catalog[g] \in [Keys -> Nat]
    BY DEF Types
  <1>2. Bumped(h, ks) = [catalog EXCEPT ![h] = f]
    BY DEF Bumped
  <1>3. f \in [Keys -> Nat] /\ \A k \in Keys : catalog[h][k] <= f[k] /\ (k \notin ks => f[k] = catalog[h][k])
    BY <1>1
  <1> HIDE DEF f
  <1>4. /\ Bumped(h, ks) \in [Hosts -> [Keys -> Nat]] /\ Bumped(h, ks)[h] = f
        /\ \A g \in Hosts \ {h} : Bumped(h, ks)[g] = catalog[g]
    BY <1>2, <1>3 DEF Types
  <1> QED BY <1>1, <1>3, <1>4

(* What is wrong now is excused: heard of later, or never.                   *)
LEMMA Changed ==
  ASSUME IInv, NEW h \in Hosts, NEW ks, catalog' = Bumped(h, ks),
         UNCHANGED <<cache, names, focus, sess>>,
         \A c \in Conns, k \in Keys : cache[c].fp = h /\ k \in ks => Excused(c, k)',
         \A c \in Conns, k \in Keys : Excused(c, k) => Excused(c, k)'
  PROVE  Fresh' /\ Named'
  <1>1. \A g \in Hosts, k \in Keys : ~(g = h /\ k \in ks) => catalog'[g][k] = catalog[g][k]
    BY BumpedFacts DEF IInv
  <1>2. Fresh'
    <2> SUFFICES ASSUME NEW c \in Conns, NEW k \in Keys, k \in DOMAIN cache[c].e,
                        ~Excused(c, k)', ~cache[c].e[k].stale
                 PROVE  cache[c].e[k].ver = catalog'[cache[c].e[k].host][k]
      BY DEF Fresh
    <2>1. cache[c].e[k].host \in Hosts /\ cache[c].e[k].host = cache[c].fp
      <3>1. cache[c].e[k] \in Entry
        BY CacheIs DEF IInv, Types
      <3> QED BY <3>1 DEF Entry, IInv, OfServer
    <2>2. cache[c].e[k].ver = catalog[cache[c].e[k].host][k]
      BY DEF IInv, Fresh
    <2> QED BY <1>1, <2>1, <2>2
  <1>3. Named'
    <2>1. PICK f : f = focus
      OBVIOUS
    <2>2. names # NoNames =>
            /\ f \in Conns /\ names.host = sess[f] /\ sess[f] \in Hosts /\ cache[f].fp = sess[f]
            /\ (Excused(f, "cols") \/ names.ver = catalog[names.host]["cols"])
            /\ f # NoHost
      BY <2>1 DEF IInv, Types, Named, Attached, Ours
    <2>3. "cols" \in Keys
      BY DEF Keys
    <2>4. names # NoNames => (Excused(f, "cols")' \/ names.ver = catalog'[names.host]["cols"])
      BY <1>1, <2>2, <2>3
    <2>5. Named' = (names' # NoNames =>
                      /\ focus' # NoHost /\ names'.host = sess'[focus']
                      /\ Excused(focus, "cols")' \/ names'.ver = catalog'[names'.host]["cols"])
      BY DEF Named
    <2>6. names' = names /\ focus' = f /\ sess' = sess
      BY <2>1
    <2>7. Excused(f, "cols")' => Excused(focus, "cols")'
      BY <2>6 DEF Excused, ComingAfter
    <2> QED BY <2>2, <2>4, <2>5, <2>6, <2>7
  <1> QED BY <1>2, <1>3

LEMMA ChangedUnseenStep ==
  ASSUME ConstantsAssumption, IInv, NEW h \in Hosts, NEW ks \in SUBSET Keys, ChangedUnseen(h, ks)
  PROVE  IInv'
  <1>1. /\ catalog' = Bumped(h, ks) /\ untold' = untold \union Behind(h, ks, {})
        /\ UNCHANGED <<host, sess, focus, cache, kv, names, queue, served>>
    BY DEF ChangedUnseen, stored, offered, calls
  <1>2. Types'
    BY <1>1, BumpedFacts DEF IInv, Types
  <1>3. Attached' /\ Told' /\ OfServer(cache)' /\ OfServer(kv[1])' /\ Ours' /\ SameExecuted
    <2>1. \A i \in 1..served : i \in DOMAIN queue
      BY QueueIs DEF IInv
    <2> QED BY <1>1, <2>1 DEF IInv, Attached, Told, OfServer, Ours, SameExecuted
  <1>4. \A c, k : Excused(c, k) => Excused(c, k)'
    BY <1>1, <1>2, <1>3, ExcusedStays DEF IInv
  <1>5. \A c \in Conns, k \in Keys : cache[c].fp = h /\ k \in ks => <<c, k>> \in untold'
    BY <1>1 DEF Behind
  <1>6. Fresh' /\ Named'
    <2>1. \A c \in Conns, k \in Keys : cache[c].fp = h /\ k \in ks => Excused(c, k)'
      BY <1>5 DEF Excused
    <2> QED BY <1>1, <1>4, <2>1, Changed
  <1>7. LoadsAreTrue'
    <2> SUFFICES ASSUME NEW i \in DOMAIN queue, NEW c \in Conns, NEW k \in Keys, IsLoad(i, c, k)'
                 PROVE  /\ queue[i].ver <= catalog'[sess[c]][k]
                        /\ \A j \in DOMAIN queue : i < j /\ IsLoad(j, c, k)' => queue[i].ver <= queue[j].ver
                        /\ \/ queue[i].ver = catalog'[sess[c]][k] \/ <<c, k>> \in untold'
                           \/ ComingAfter(i, c, k)'
      BY <1>1 DEF LoadsAreTrue
    <2>1. IsLoad(i, c, k) /\ \A j : IsLoad(j, c, k)' => IsLoad(j, c, k)
      BY <1>1 DEF IsLoad
    <2>2. sess[c] \in Hosts /\ cache[c].fp = sess[c] /\ queue[i].ver \in Nat
      BY <2>1, QueueIs DEF IInv, Types, Attached, IsLoad, Ours, Request
    <2>3. /\ queue[i].ver <= catalog[sess[c]][k]
          /\ \A j \in DOMAIN queue : i < j /\ IsLoad(j, c, k) => queue[i].ver <= queue[j].ver
          /\ \/ queue[i].ver = catalog[sess[c]][k] \/ <<c, k>> \in untold
             \/ ComingAfter(i, c, k)
      BY <2>1 DEF IInv, LoadsAreTrue
    <2>4. ComingAfter(i, c, k) => ComingAfter(i, c, k)'
      BY <1>1 DEF ComingAfter
    <2>5. /\ catalog[sess[c]][k] \in Nat /\ catalog'[sess[c]][k] \in Nat
          /\ catalog[sess[c]][k] <= catalog'[sess[c]][k]
          /\ ~(sess[c] = h /\ k \in ks) => catalog'[sess[c]][k] = catalog[sess[c]][k]
      <3>1. PICK g \in Hosts : g = sess[c]
        BY <2>2
      <3> QED BY <1>1, <3>1, BumpedFacts DEF IInv
    <2>6. queue[i].ver <= catalog'[sess[c]][k]
      BY <2>2, <2>3, <2>5
    <2> QED BY <1>1, <1>5, <2>1, <2>2, <2>3, <2>4, <2>5, <2>6
  <1> QED BY <1>2, <1>3, <1>6, <1>7 DEF IInv

----------------------------------------------------------------------------
(* The worker executes the next call.                                        *)

LEMMA NextExecuted ==
  ASSUME Types, NEW n \in DOMAIN queue, n = served + 1, NEW r \in Request,
         queue' = [queue EXCEPT ![n] = r], served' = n, r.c = queue[n].c, r.op = queue[n].op,
         r.key = queue[n].key
  PROVE  /\ queue' \in Seq(Request) /\ served' \in 0..Len(queue') /\ DOMAIN queue' = DOMAIN queue
         /\ queue'[n] = r /\ \A i \in DOMAIN queue : i # n => queue'[i] = queue[i]
         /\ \A i \in DOMAIN queue : queue'[i].c = queue[i].c /\ queue'[i].op = queue[i].op
         /\ \A m \in Nat : \A c, k : ComingAfter(m, c, k) => ComingAfter(m, c, k)'
         /\ \A i \in DOMAIN queue : \A c, k : IsLoad(i, c, k)' => i = n \/ (i <= served /\ IsLoad(i, c, k))
  <1>1. /\ Len(queue) \in Nat /\ DOMAIN queue = 1..Len(queue) /\ served \in Nat
        /\ \A i \in DOMAIN queue : queue[i] \in Request
    BY QueueIs
  <1>2. queue' \in Seq(Request) /\ Len(queue') = Len(queue) /\ DOMAIN queue' = DOMAIN queue
    BY <1>1, ExceptSeq DEF Types
  <1>3. queue'[n] = r /\ \A i \in DOMAIN queue : i # n => queue'[i] = queue[i]
    BY <1>1
  <1>4. n \in Nat /\ n <= Len(queue)
    BY <1>1
  <1>5. ASSUME NEW m \in Nat, NEW c, NEW k, ComingAfter(m, c, k) PROVE ComingAfter(m, c, k)'
    <2>1. PICK j \in DOMAIN queue : m < j /\ j <= served /\ queue[j].c = c /\ k \in queue[j].keys
      BY <1>5 DEF ComingAfter
    <2>2. j # n /\ j <= served' /\ j \in DOMAIN queue' /\ queue'[j] = queue[j]
      BY <1>1, <1>2, <1>3, <2>1
    <2> QED BY <2>1, <2>2 DEF ComingAfter
  <1>6. ASSUME NEW i \in DOMAIN queue, NEW c, NEW k, IsLoad(i, c, k)', i # n
        PROVE  i <= served /\ IsLoad(i, c, k)
    BY <1>1, <1>3, <1>6 DEF IsLoad
  <1> QED BY <1>1, <1>2, <1>3, <1>4, <1>5, <1>6

LEMMA ServeLoad ==
  ASSUME ConstantsAssumption, IInv, Serve, queue[served + 1].op = "load" PROVE IInv'
  <1>1. PICK n \in DOMAIN queue : n = served + 1
    BY QueueIs DEF IInv, Types, Serve
  <1>2. PICK q \in Request : q = queue[n] /\ q.c \in Conns /\ q.key \in Keys
    BY QueueIs DEF IInv, Request
  <1>3. PICK h \in Hosts : h = sess[q.c]
    BY <1>2 DEF IInv, Types, Attached
  <1>4. PICK v \in Nat : v = catalog[h][q.key]
    BY <1>2, <1>3, BumpedFacts DEF IInv
  <1>5. PICK r : r = [q EXCEPT !.ver = v]
    OBVIOUS
  <1>6. /\ r \in Request /\ r.c = q.c /\ r.op = q.op /\ r.key = q.key /\ r.keys = q.keys
        /\ r.ver = v
    BY <1>5 DEF Request
  <1>7. /\ queue' = [queue EXCEPT ![n] = r] /\ served' = n
        /\ UNCHANGED <<host, sess, focus, cache, kv, names, catalog, untold>>
    <2>1. queue' = [queue EXCEPT ![n].ver = v] /\ served' = n
      BY <1>1, <1>2, <1>3, <1>4 DEF Serve
    <2>2. [queue EXCEPT ![n].ver = v] = [queue EXCEPT ![n] = r]
      BY <1>2, <1>5
    <2> QED BY <1>1, <2>1, <2>2 DEF Serve, stored, offered
  <1>8. /\ queue' \in Seq(Request) /\ served' \in 0..Len(queue') /\ DOMAIN queue' = DOMAIN queue
        /\ queue'[n] = r /\ \A i \in DOMAIN queue : i # n => queue'[i] = queue[i]
        /\ \A i \in DOMAIN queue : queue'[i].c = queue[i].c /\ queue'[i].op = queue[i].op
        /\ \A m \in Nat : \A c, k : ComingAfter(m, c, k) => ComingAfter(m, c, k)'
        /\ \A i \in DOMAIN queue : \A c, k : IsLoad(i, c, k)' => i = n \/ (i <= served /\ IsLoad(i, c, k))
    BY <1>1, <1>2, <1>6, <1>7, NextExecuted DEF IInv
  <1>9. Types' /\ Attached' /\ OfServer(cache)' /\ OfServer(kv[1])' /\ Ours'
    BY <1>7, <1>8 DEF IInv, Types, Attached, OfServer, Ours
  <1>10. Told'
    <2>1. \A i \in DOMAIN queue : queue'[i].keys = queue[i].keys
      BY <1>2, <1>6, <1>8
    <2> QED BY <1>8, <2>1 DEF IInv, Told
  <1>11. Fresh' /\ Named'
    <2>1. PICK zero \in Nat : zero = 0
      OBVIOUS
    <2>2. \A c, k : ComingAfter(zero, c, k) => ComingAfter(zero, c, k)'
      BY <1>8
    <2>3. \A c, k : Excused(c, k) => Excused(c, k)'
      BY <1>7, <2>1, <2>2 DEF Excused
    <2>4. Carried(cache, cache')
      BY <1>7, CarriedSame
    <2>5. Fresh'
      BY <1>7, <2>3, <2>4, FreshStays DEF IInv
    <2>6. Named'
      BY <1>7, <2>3, NamedStays DEF IInv
    <2> QED BY <2>5, <2>6
  <1>12. LoadsAreTrue'
    <2> SUFFICES ASSUME NEW i \in DOMAIN queue, NEW c \in Conns, NEW k \in Keys, IsLoad(i, c, k)'
                 PROVE  /\ queue'[i].ver <= catalog[sess[c]][k]
                        /\ \A j \in DOMAIN queue : i < j /\ IsLoad(j, c, k)' => queue'[i].ver <= queue'[j].ver
                        /\ \/ queue'[i].ver = catalog[sess[c]][k] \/ <<c, k>> \in untold
                           \/ ComingAfter(i, c, k)'
      BY <1>7, <1>8 DEF LoadsAreTrue
    <2>1. CASE i = n
      <3>1. q.c = c /\ q.key = k
        BY <1>6, <1>8, <2>1 DEF IsLoad
      <3>2. queue'[i].ver = catalog[sess[c]][k]
        BY <1>3, <1>4, <1>6, <1>8, <2>1, <3>1
      <3>3. \A j \in DOMAIN queue : ~(i < j /\ IsLoad(j, c, k)')
        BY <1>7, <2>1, QueueIs DEF IsLoad, IInv
      <3> QED BY <1>4, <3>1, <3>2, <3>3, <1>3
    <2>2. CASE i # n
      <3>1. i <= served /\ IsLoad(i, c, k) /\ queue'[i] = queue[i] /\ i \in Nat
        BY <1>8, <2>2, QueueIs DEF IInv
      <3>2. /\ queue[i].ver <= catalog[sess[c]][k]
            /\ \A j \in DOMAIN queue : i < j /\ IsLoad(j, c, k) => queue[i].ver <= queue[j].ver
            /\ \/ queue[i].ver = catalog[sess[c]][k] \/ <<c, k>> \in untold
               \/ ComingAfter(i, c, k)
        BY <3>1 DEF IInv, LoadsAreTrue
      <3>3. ComingAfter(i, c, k) => ComingAfter(i, c, k)'
        BY <1>8, <3>1
      <3>4. ASSUME NEW j \in DOMAIN queue, i < j, IsLoad(j, c, k)'
            PROVE  queue'[i].ver <= queue'[j].ver
        <4>1. CASE j = n
          <5>1. q.c = c /\ q.key = k
            BY <1>6, <1>8, <3>4, <4>1 DEF IsLoad
          <5> QED BY <1>3, <1>4, <1>6, <1>8, <3>1, <3>2, <4>1, <5>1
        <4>2. CASE j # n
          BY <1>8, <3>1, <3>2, <3>4, <4>2
        <4> QED BY <4>1, <4>2
      <3> QED BY <3>1, <3>2, <3>3, <3>4
    <2> QED BY <2>1, <2>2
  <1> QED BY <1>9, <1>10, <1>11, <1>12 DEF IInv

LEMMA ServeDdl ==
  ASSUME ConstantsAssumption, IInv, Serve, queue[served + 1].op # "load" PROVE IInv'
  <1>1. PICK n \in DOMAIN queue : n = served + 1
    BY QueueIs DEF IInv, Types, Serve
  <1>2. PICK q \in Request : q = queue[n] /\ q.c \in Conns
    BY QueueIs DEF IInv
  <1>3. PICK h \in Hosts : h = sess[q.c] /\ h # NoHost
    BY <1>2 DEF IInv, Types, Attached
  <1>4. PICK ks \in Changes(q.op) \union {{}} :
          /\ catalog' = Bumped(h, ks) /\ queue' = [queue EXCEPT ![n].keys = ks]
          /\ untold' = untold \union Behind(h, ks, {q.c})
    BY <1>1, <1>2, <1>3 DEF Serve
  <1>5. ks \subseteq Keys /\ ks \subseteq Targets(q.op)
    BY <1>4 DEF Changes, Targets, Keys
  <1>6. PICK r : r = [q EXCEPT !.keys = ks]
    OBVIOUS
  <1>7. r \in Request /\ r.c = q.c /\ r.op = q.op /\ r.key = q.key /\ r.keys = ks
    BY <1>5, <1>6 DEF Request
  <1>8. /\ queue' = [queue EXCEPT ![n] = r] /\ served' = n
        /\ UNCHANGED <<host, sess, focus, cache, kv, names>>
    <2>1. [queue EXCEPT ![n].keys = ks] = [queue EXCEPT ![n] = r]
      BY <1>2, <1>6
    <2> QED BY <1>1, <1>4, <2>1 DEF Serve, stored, offered
  <1>9. /\ queue' \in Seq(Request) /\ served' \in 0..Len(queue') /\ DOMAIN queue' = DOMAIN queue
        /\ queue'[n] = r /\ \A i \in DOMAIN queue : i # n => queue'[i] = queue[i]
        /\ \A i \in DOMAIN queue : queue'[i].c = queue[i].c /\ queue'[i].op = queue[i].op
        /\ \A m \in Nat : \A c, k : ComingAfter(m, c, k) => ComingAfter(m, c, k)'
        /\ \A i \in DOMAIN queue : \A c, k : IsLoad(i, c, k)' => i = n \/ (i <= served /\ IsLoad(i, c, k))
    BY <1>1, <1>2, <1>7, <1>8, NextExecuted DEF IInv
  <1>10. Types' /\ Attached' /\ OfServer(cache)' /\ OfServer(kv[1])' /\ Ours'
    <2>1. catalog' \in [Hosts -> [Keys -> Nat]]
      BY <1>4, BumpedFacts DEF IInv
    <2> QED BY <1>8, <1>9, <2>1 DEF IInv, Types, Attached, OfServer, Ours
  <1>11. Told'
    <2>1. r.op # "load" /\ r.keys \subseteq Targets(r.op)
      BY <1>1, <1>2, <1>5, <1>7
    <2>2. \A i \in DOMAIN queue : i # n => queue'[i] = queue[i]
      BY <1>9
    <2> QED BY <1>9, <2>1, <2>2 DEF IInv, Told
  (* What the statement changed is heard of by its connection, and by no     *)
  (* other of the same server.                                               *)
  <1>12. ASSUME NEW c \in Conns, NEW k \in Keys, cache[c].fp = h, k \in ks, NEW m \in Nat, m < n
         PROVE  <<c, k>> \in untold' \/ ComingAfter(m, c, k)'
    <2>1. CASE c # q.c
      BY <1>4, <1>12, <2>1 DEF Behind
    <2>2. CASE c = q.c
      <3>1. /\ n \in DOMAIN queue' /\ n <= served' /\ queue'[n].c = c /\ k \in queue'[n].keys
            /\ m < n
        BY <1>7, <1>8, <1>9, <1>12, <2>2, QueueIs DEF IInv
      <3> QED BY <3>1 DEF ComingAfter
    <2> QED BY <2>1, <2>2
  <1>13. Fresh' /\ Named'
    <2>1. PICK zero \in Nat : zero = 0 /\ zero < n
      BY QueueIs DEF IInv
    <2>2. \A c, k : ComingAfter(zero, c, k) => ComingAfter(zero, c, k)'
      BY <1>9
    <2>3. \A c, k : Excused(c, k) => Excused(c, k)'
      BY <1>4, <2>1, <2>2 DEF Excused
    <2>4. \A c \in Conns, k \in Keys : cache[c].fp = h /\ k \in ks => Excused(c, k)'
      BY <1>12, <2>1 DEF Excused
    <2> QED BY <1>4, <1>8, <2>3, <2>4, Changed
  <1>14. LoadsAreTrue'
    <2> SUFFICES ASSUME NEW i \in DOMAIN queue, NEW c \in Conns, NEW k \in Keys, IsLoad(i, c, k)'
                 PROVE  /\ queue'[i].ver <= catalog'[sess[c]][k]
                        /\ \A j \in DOMAIN queue : i < j /\ IsLoad(j, c, k)' => queue'[i].ver <= queue'[j].ver
                        /\ \/ queue'[i].ver = catalog'[sess[c]][k] \/ <<c, k>> \in untold'
                           \/ ComingAfter(i, c, k)'
      BY <1>8, <1>9 DEF LoadsAreTrue
    <2>1. \A j \in DOMAIN queue : IsLoad(j, c, k)' => j # n
      BY <1>1, <1>2, <1>7, <1>9 DEF IsLoad
    <2>2. i <= served /\ IsLoad(i, c, k) /\ queue'[i] = queue[i] /\ i \in Nat /\ i < n
      BY <1>1, <1>9, <2>1, QueueIs DEF IInv
    <2>3. /\ queue[i].ver <= catalog[sess[c]][k]
          /\ \A j \in DOMAIN queue : i < j /\ IsLoad(j, c, k) => queue[i].ver <= queue[j].ver
          /\ \/ queue[i].ver = catalog[sess[c]][k] \/ <<c, k>> \in untold
             \/ ComingAfter(i, c, k)
      BY <2>2 DEF IInv, LoadsAreTrue
    <2>4. ComingAfter(i, c, k) => ComingAfter(i, c, k)'
      BY <1>9, <2>2
    <2>5. PICK g \in Hosts : g = sess[c] /\ cache[c].fp = g
      BY <2>2 DEF IInv, Types, Attached, IsLoad, Ours
    <2>6. /\ catalog[g][k] \in Nat /\ catalog'[g][k] \in Nat /\ catalog[g][k] <= catalog'[g][k]
          /\ ~(g = h /\ k \in ks) => catalog'[g][k] = catalog[g][k]
      BY <1>4, BumpedFacts DEF IInv
    <2>7. queue[i].ver \in Nat
      BY QueueIs DEF IInv, Request
    <2>8. queue'[i].ver <= catalog'[sess[c]][k]
      BY <2>2, <2>3, <2>5, <2>6, <2>7
    <2>9. \A j \in DOMAIN queue : i < j /\ IsLoad(j, c, k)' => queue'[i].ver <= queue'[j].ver
      BY <1>9, <2>1, <2>2, <2>3
    <2>10. g = h /\ k \in ks => <<c, k>> \in untold' \/ ComingAfter(i, c, k)'
      BY <1>12, <2>2, <2>5
    <2>11. <<c, k>> \in untold => <<c, k>> \in untold'
      BY <1>4
    <2> QED BY <2>2, <2>3, <2>4, <2>5, <2>6, <2>8, <2>9, <2>10, <2>11
  <1> QED BY <1>10, <1>11, <1>13, <1>14 DEF IInv

----------------------------------------------------------------------------
(* The oldest call is answered.                                              *)

LEMMA HeadGone ==
  ASSUME Types, served > 0, NEW s \in Seq(Request), queue' = Tail(queue) \o s, served' = served - 1
  PROVE  /\ queue' \in Seq(Request) /\ served' \in 0..Len(queue') /\ 1 \in DOMAIN queue
         /\ \A i \in 1..served' : i + 1 \in DOMAIN queue /\ queue'[i] = queue[i + 1] /\ i + 1 <= served
         /\ \A i \in DOMAIN queue' : \/ i + 1 \in DOMAIN queue /\ queue'[i] = queue[i + 1]
                                     \/ \E j \in DOMAIN s : queue'[i] = s[j]
         /\ \A i \in DOMAIN queue' : \A c, k : IsLoad(i, c, k)' => i \in 1..served' /\ IsLoad(i + 1, c, k)
         /\ \A m \in Nat : \A c, k : ComingAfter(m + 1, c, k) => ComingAfter(m, c, k)'
  <1> DEFINE n == Len(queue)
  <1>1. /\ n \in Nat /\ DOMAIN queue = 1..n /\ served \in 1..n /\ Head(queue) = queue[1]
    <2>1. served \in 1..n
      BY QueueIs DEF Types
    <2> QED BY <2>1, QueueIs
  <1>2. /\ Tail(queue) \in Seq(Request) /\ Len(Tail(queue)) = n - 1
        /\ \A i \in 1..(n - 1) : Tail(queue)[i] = queue[i + 1]
    <2>1. queue \in Seq(Request) /\ queue # <<>>
      BY <1>1 DEF Types
    <2> QED BY <2>1, HeadTailProperties
  <1>3. PICK t \in Seq(Request) : t = Tail(queue)
    BY <1>2
  <1>4. Len(s) \in Nat /\ DOMAIN s = 1..Len(s)
    BY LenProperties
  <1>5. /\ queue' \in Seq(Request) /\ Len(queue') = (n - 1) + Len(s)
        /\ \A i \in 1..((n - 1) + Len(s)) : queue'[i] = IF i <= n - 1 THEN t[i] ELSE s[i - (n - 1)]
    BY <1>2, <1>3, ConcatProperties
  <1>6. DOMAIN queue' = 1..Len(queue')
    BY <1>5, LenProperties
  <1> HIDE DEF n
  <1>7. \A i \in 1..(n - 1) : i \in DOMAIN queue' /\ i + 1 \in DOMAIN queue /\ queue'[i] = queue[i + 1]
    BY <1>1, <1>2, <1>3, <1>4, <1>5, <1>6
  <1>8. ASSUME NEW i \in DOMAIN queue'
        PROVE  \/ i + 1 \in DOMAIN queue /\ queue'[i] = queue[i + 1]
               \/ \E j \in DOMAIN s : queue'[i] = s[j]
    <2>1. CASE i <= n - 1
      BY <1>1, <1>5, <1>6, <1>7, <2>1
    <2>2. CASE ~(i <= n - 1)
      <3>1. i - (n - 1) \in DOMAIN s
        BY <1>1, <1>4, <1>5, <1>6, <2>2
      <3> QED BY <1>5, <1>6, <2>2, <3>1
    <2> QED BY <2>1, <2>2
  <1>9. \A i \in 1..served' : i \in 1..(n - 1) /\ i + 1 <= served
    BY <1>1
  <1>10. ASSUME NEW i \in DOMAIN queue', NEW c, NEW k, IsLoad(i, c, k)'
         PROVE  i \in 1..served' /\ IsLoad(i + 1, c, k)
    <2>1. i \in 1..served'
      BY <1>1, <1>5, <1>6, <1>10 DEF IsLoad
    <2> QED BY <1>7, <1>9, <1>10, <2>1 DEF IsLoad
  <1>11. ASSUME NEW m \in Nat, NEW c, NEW k, ComingAfter(m + 1, c, k)
         PROVE  ComingAfter(m, c, k)'
    <2>1. PICK j \in DOMAIN queue : m + 1 < j /\ j <= served /\ queue[j].c = c /\ k \in queue[j].keys
      BY <1>11 DEF ComingAfter
    <2>2. j - 1 \in 1..(n - 1) /\ m < j - 1 /\ j - 1 <= served' /\ (j - 1) + 1 = j
      BY <1>1, <2>1
    <2>3. j - 1 \in DOMAIN queue' /\ queue'[j - 1] = queue[j]
      BY <1>7, <2>2
    <2> QED BY <2>1, <2>2, <2>3 DEF ComingAfter
  <1>12. served' \in 0..Len(queue')
    BY <1>1, <1>4, <1>5
  <1> QED BY <1>1, <1>5, <1>7, <1>8, <1>9, <1>10, <1>11, <1>12

(* The loads that wait are still true, unless a mark of theirs is dropped.   *)
LEMMA LoadsShift ==
  ASSUME Types, LoadsAreTrue, served > 0, NEW s \in Seq(Request), queue' = Tail(queue) \o s,
         served' = served - 1, UNCHANGED <<catalog, sess>>,
         \A i \in DOMAIN queue, c \in Conns, k \in Keys :
           1 < i /\ IsLoad(i, c, k) /\ <<c, k>> \in untold =>
             <<c, k>> \in untold' \/ queue[i].ver = catalog[sess[c]][k]
  PROVE  LoadsAreTrue'
  <1>1. /\ \A i \in 1..served' : i + 1 \in DOMAIN queue /\ queue'[i] = queue[i + 1] /\ i + 1 <= served
        /\ \A i \in DOMAIN queue' : \A c, k : IsLoad(i, c, k)' => i \in 1..served' /\ IsLoad(i + 1, c, k)
        /\ \A m \in Nat : \A c, k : ComingAfter(m + 1, c, k) => ComingAfter(m, c, k)'
    BY HeadGone
  <1> SUFFICES ASSUME NEW i \in DOMAIN queue', NEW c \in Conns, NEW k \in Keys, IsLoad(i, c, k)'
               PROVE  /\ queue'[i].ver <= catalog'[sess'[c]][k]
                      /\ \A j \in DOMAIN queue' :
                           i < j /\ IsLoad(j, c, k)' => queue'[i].ver <= queue'[j].ver
                      /\ \/ queue'[i].ver = catalog'[sess'[c]][k] \/ <<c, k>> \in untold'
                         \/ ComingAfter(i, c, k)'
    BY DEF LoadsAreTrue
  <1>2. i \in Nat /\ i \in 1..served' /\ i + 1 \in DOMAIN queue /\ IsLoad(i + 1, c, k)
        /\ queue'[i] = queue[i + 1] /\ 1 < i + 1
    BY <1>1
  <1>3. /\ queue[i + 1].ver <= catalog[sess[c]][k]
        /\ \A j \in DOMAIN queue : i + 1 < j /\ IsLoad(j, c, k) => queue[i + 1].ver <= queue[j].ver
        /\ \/ queue[i + 1].ver = catalog[sess[c]][k] \/ <<c, k>> \in untold
           \/ ComingAfter(i + 1, c, k)
    BY <1>2 DEF LoadsAreTrue
  <1>4. ASSUME NEW j \in DOMAIN queue', i < j, IsLoad(j, c, k)'
        PROVE  queue'[i].ver <= queue'[j].ver
    <2>1. j \in 1..served' /\ j + 1 \in DOMAIN queue /\ IsLoad(j + 1, c, k) /\ queue'[j] = queue[j + 1]
      BY <1>1, <1>4
    <2>2. i + 1 < j + 1
      BY <1>2, <1>4, <2>1
    <2> QED BY <1>2, <1>3, <2>1, <2>2
  <1>5. ComingAfter(i + 1, c, k) => ComingAfter(i, c, k)'
    BY <1>1, <1>2
  <1> QED BY <1>2, <1>3, <1>4, <1>5

(* What was excused by a call after the head still is.                       *)
LEMMA ExcusedShift ==
  ASSUME Types, served > 0, NEW s \in Seq(Request), queue' = Tail(queue) \o s, served' = served - 1,
         NEW c, NEW k, Excused(c, k), ~(queue[1].c = c /\ k \in queue[1].keys)
  PROVE  <<c, k>> \in untold \/ ComingAfter(0, c, k)'
  <1>1. CASE <<c, k>> \in untold
    BY <1>1
  <1>2. CASE ComingAfter(0, c, k)
    <2>1. PICK j \in DOMAIN queue : 0 < j /\ j <= served /\ queue[j].c = c /\ k \in queue[j].keys
      BY <1>2 DEF ComingAfter
    <2>2. 0 + 1 < j
      BY <2>1, QueueIs
    <2>3. ComingAfter(0 + 1, c, k)
      BY <2>1, <2>2 DEF ComingAfter
    <2>4. PICK zero \in Nat : zero = 0
      OBVIOUS
    <2>5. ComingAfter(zero + 1, c, k) => ComingAfter(zero, c, k)'
      BY HeadGone
    <2> QED BY <2>3, <2>4, <2>5
  <1> QED BY <1>1, <1>2 DEF Excused

LEMMA AnsweredStep == ASSUME ConstantsAssumption, IInv, Answered PROVE IInv'
  <1>1. /\ served > 0 /\ Head(queue) = queue[1] /\ 1 \in DOMAIN queue /\ queue[1] \in Request
    <2>1. served > 0 /\ 1 \in DOMAIN queue /\ queue[1] \in Request /\ queue # <<>>
      BY QueueIs DEF IInv, Types, Answered
    <2> QED BY <2>1
  <1>2. PICK q \in Request : q = queue[1]
    BY <1>1
  <1>3. q.c \in Conns /\ q.key \in Keys /\ q.ver \in Nat /\ q.op = "load" /\ q.keys = {}
    <2>1. q.op = "load"
      BY <1>1, <1>2 DEF Answered
    <2> QED BY <1>1, <1>2, <2>1 DEF Request, IInv, Told
  <1>4. PICK h \in Hosts : h = sess[q.c] /\ h # NoHost /\ cache[q.c].fp = h
    BY <1>1, <1>2, <1>3 DEF IInv, Types, Attached, Ours
  <1>5. /\ Put(q.c, q.key, h, q.ver)
        /\ untold' = IF q.ver = catalog[h][q.key] /\ SizeOf(q.key, q.ver) <= Cap
                     THEN untold \ {<<q.c, q.key>>} ELSE untold
        /\ \/ q.key = "cols" /\ q.c = focus /\ names' = [host |-> h, ver |-> q.ver]
           \/ ~(q.key = "cols" /\ q.c = focus) /\ names' = names
        /\ queue' = Tail(queue) /\ served' = served - 1
        /\ UNCHANGED <<host, sess, focus, kv, catalog>>
    BY <1>1, <1>2, <1>4 DEF Answered, offered
  <1>6. PICK s \in Seq(Request) : s = <<>> /\ DOMAIN s = {} /\ queue' = Tail(queue) \o s
    <2>1. Tail(queue) \in Seq(Request)
      BY <1>1, HeadTailProperties DEF IInv, Types
    <2>2. Tail(queue) \o <<>> = Tail(queue)
      BY <2>1, ConcatEmptySeq
    <2> QED BY <1>5, <2>2, NoMore DEF IInv
  <1>7. /\ queue' \in Seq(Request) /\ served' \in 0..Len(queue')
        /\ \A i \in DOMAIN queue' : i + 1 \in DOMAIN queue /\ queue'[i] = queue[i + 1]
    BY <1>1, <1>5, <1>6, HeadGone DEF IInv
  <1>8. /\ cache' \in Caches /\ OfServer(cache)'
        /\ \A d \in Conns : cache'[d].fp = cache[d].fp
        /\ \A d \in Conns, x \in Keys : x \in DOMAIN cache'[d].e =>
             \/ d = q.c /\ x = q.key /\ cache'[d].e[x].ver = q.ver /\ SizeOf(q.key, q.ver) <= Cap
             \/ /\ x \in DOMAIN cache[d].e /\ cache'[d].e[x] = cache[d].e[x]
                /\ d = q.c /\ x = q.key => ~(SizeOf(q.key, q.ver) <= Cap)
    BY <1>3, <1>4, <1>5, PutFacts DEF IInv, Types
  <1>9. Types' /\ Attached' /\ Told' /\ OfServer(cache)' /\ OfServer(kv[1])' /\ Ours'
    <2>1. Types'
      BY <1>5, <1>7, <1>8 DEF IInv, Types
    <2>2. Attached' /\ Told'
      BY <1>5, <1>7, <1>6, <1>1, HeadGone DEF IInv, Attached, Told
    <2>3. OfServer(kv[1])'
      BY <1>5 DEF IInv, OfServer
    <2>4. Ours'
      BY <1>5, <1>8 DEF IInv, Ours
    <2> QED BY <1>8, <2>1, <2>2, <2>3, <2>4
  (* The answer: what the server has, unless something is still to tell.     *)
  <1>10. /\ IsLoad(1, q.c, q.key)
         /\ \A j \in DOMAIN queue : 1 < j /\ IsLoad(j, q.c, q.key) =>
              q.ver <= queue[j].ver /\ queue[j].ver <= catalog[h][q.key]
         /\ \/ q.ver = catalog[h][q.key] \/ <<q.c, q.key>> \in untold
            \/ ComingAfter(1, q.c, q.key)
    <2>1. IsLoad(1, q.c, q.key)
      BY <1>1, <1>2, <1>3, QueueIs DEF IsLoad, IInv
    <2> QED BY <1>1, <1>2, <1>3, <1>4, <2>1 DEF IInv, LoadsAreTrue
  <1>11. \A c, k : ComingAfter(0, c, k) => ComingAfter(0, c, k)'
    <2> SUFFICES ASSUME NEW c, NEW k, ComingAfter(0, c, k) PROVE ComingAfter(0, c, k)'
      OBVIOUS
    <2>1. PICK zero \in Nat : zero = 0
      OBVIOUS
    <2>2. ComingAfter(zero + 1, c, k)
      <3>1. PICK j \in DOMAIN queue : 0 < j /\ j <= served /\ queue[j].c = c /\ k \in queue[j].keys
        BY DEF ComingAfter
      <3>2. j # 1
        BY <1>2, <1>3, <3>1
      <3>3. zero + 1 < j
        BY <2>1, <3>1, <3>2, QueueIs DEF IInv
      <3> QED BY <3>1, <3>3 DEF ComingAfter
    <2>3. ComingAfter(zero + 1, c, k) => ComingAfter(zero, c, k)'
      BY <1>1, <1>5, <1>6, HeadGone DEF IInv
    <2> QED BY <2>1, <2>2, <2>3
  <1>12. \A c, k : Excused(c, k) =>
           \/ Excused(c, k)'
           \/ /\ c = q.c /\ k = q.key /\ q.ver = catalog[h][q.key]
              /\ SizeOf(q.key, q.ver) <= Cap
    BY <1>5, <1>11 DEF Excused
  <1>13. q.ver = catalog[h][q.key] \/ Excused(q.c, q.key)'
    <2>1. CASE <<q.c, q.key>> \in untold
      BY <1>5, <2>1 DEF Excused
    <2>2. CASE ComingAfter(1, q.c, q.key)
      <3>1. ComingAfter(0, q.c, q.key)
        BY <2>2, QueueIs DEF ComingAfter, IInv
      <3> QED BY <1>11, <3>1 DEF Excused
    <2> QED BY <1>10, <2>1, <2>2
  <1>14. Fresh'
    <2> SUFFICES ASSUME NEW c \in Conns, NEW k \in Keys, k \in DOMAIN cache'[c].e
                 PROVE  \/ cache'[c].e[k].stale \/ Excused(c, k)'
                        \/ cache'[c].e[k].ver = catalog'[cache'[c].e[k].host][k]
      BY DEF Fresh
    <2>1. CASE c = q.c /\ k = q.key /\ cache'[c].e[k].ver = q.ver /\ SizeOf(q.key, q.ver) <= Cap
      <3>1. cache'[c].e[k].host = h
        BY <1>4, <1>8, <2>1 DEF OfServer
      <3> QED BY <1>5, <1>13, <2>1, <3>1
    <2>2. CASE /\ k \in DOMAIN cache[c].e /\ cache'[c].e[k] = cache[c].e[k]
               /\ c = q.c /\ k = q.key => ~(SizeOf(q.key, q.ver) <= Cap)
      <3>1. cache[c].e[k].stale \/ Excused(c, k) \/ cache[c].e[k].ver = catalog[cache[c].e[k].host][k]
        BY <2>2 DEF IInv, Fresh
      <3> QED BY <1>5, <1>12, <2>2, <3>1
    <2> QED BY <1>8, <2>1, <2>2
  <1>15. Named'
    <2>1. PICK f : f = focus
      OBVIOUS
    <2>2. Named' = (names' # NoNames =>
                      /\ focus' # NoHost /\ names'.host = sess'[focus']
                      /\ Excused(focus, "cols")' \/ names'.ver = catalog'[names'.host]["cols"])
      BY DEF Named
    <2>3. Excused(f, "cols")' => Excused(focus, "cols")'
      BY <1>5, <2>1 DEF Excused, ComingAfter
    <2>4. CASE q.key = "cols" /\ q.c = focus /\ names' = [host |-> h, ver |-> q.ver]
      <3>1. Excused(f, "cols")' \/ q.ver = catalog'[h]["cols"]
        BY <1>5, <1>13, <2>1, <2>4
      <3>2. f # NoHost /\ h = sess'[f] /\ focus' = f
        BY <1>3, <1>4, <1>5, <2>1, <2>4 DEF ConstantsAssumption, IInv, Types, Attached
      <3> QED BY <2>2, <2>3, <2>4, <3>1, <3>2
    <2>5. CASE ~(q.key = "cols" /\ q.c = focus) /\ names' = names
      <3>1. names # NoNames =>
              /\ f # NoHost /\ names.host = sess[f]
              /\ (Excused(f, "cols") \/ names.ver = catalog[names.host]["cols"])
        BY <2>1 DEF IInv, Named
      <3>2. Excused(f, "cols") => Excused(f, "cols")'
        BY <1>12, <2>1, <2>5
      <3> QED BY <1>5, <2>1, <2>2, <2>3, <2>5, <3>1, <3>2
    <2> QED BY <1>5, <2>4, <2>5
  <1>16. LoadsAreTrue'
    <2>1. ASSUME NEW i \in DOMAIN queue, NEW c \in Conns, NEW k \in Keys,
                 1 < i, IsLoad(i, c, k), <<c, k>> \in untold, <<c, k>> \notin untold'
          PROVE  queue[i].ver = catalog[sess[c]][k]
      <3>1. c = q.c /\ k = q.key /\ q.ver = catalog[h][q.key]
        BY <1>5, <2>1
      <3>2. q.ver <= queue[i].ver /\ queue[i].ver <= q.ver /\ queue[i].ver \in Nat
        BY <1>10, <2>1, <3>1, QueueIs DEF IInv, Request
      <3> QED BY <1>3, <1>4, <3>1, <3>2
    <2> QED BY <1>1, <1>5, <1>6, <2>1, LoadsShift DEF IInv
  <1> QED BY <1>9, <1>14, <1>15, <1>16 DEF IInv

(* The editor has run a DDL: what it may have changed is marked.             *)
LEMMA DdlAnsweredStep == ASSUME ConstantsAssumption, IInv, DdlAnswered PROVE IInv'
  <1>1. /\ served > 0 /\ Head(queue) = queue[1] /\ 1 \in DOMAIN queue /\ queue[1] \in Request
    <2>1. served > 0 /\ 1 \in DOMAIN queue /\ queue[1] \in Request /\ queue # <<>>
      BY QueueIs DEF IInv, Types, DdlAnswered
    <2> QED BY <2>1
  <1>2. PICK q \in Request : q = queue[1] /\ q.op # "load"
    BY <1>1 DEF DdlAnswered
  <1>3. PICK ks : ks = Targets(q.op)
    OBVIOUS
  <1>4. q.c \in Conns /\ q.keys \subseteq ks /\ sess[q.c] # NoHost
    BY <1>1, <1>2, <1>3 DEF Request, IInv, Told, Attached
  <1>5. /\ cache' = MarkStale(cache, q.c, ks)
        /\ \/ q.c = focus /\ "cols" \in ks /\ names' = NoNames
           \/ names' = names /\ (names # NoNames => ~(q.c = focus /\ "cols" \in ks))
        /\ served' = served - 1 /\ UNCHANGED <<host, sess, focus, kv, catalog, untold>>
    BY <1>1, <1>2, <1>3 DEF DdlAnswered, ForgetColumns, offered
  <1>6. PICK s \in Seq(Request) : /\ queue' = Tail(queue) \o s
                                  /\ \A i \in DOMAIN s : s[i].keys = {} /\ s[i].c = q.c
    <2>1. PICK r \in Request : r = Load(q.c, "tree") /\ r.keys = {} /\ r.c = q.c
      BY <1>4, CallsAre
    <2>2. PICK z \in Seq(Request) : z = <<>> /\ DOMAIN z = {}
      BY NoMore DEF IInv
    <2>3. PICK o \in Seq(Request) : o = <<r>> /\ \A i \in DOMAIN o : o[i] = r
      BY One
    <2>4. queue' = Tail(queue) \o z \/ queue' = Tail(queue) \o o
      BY <1>1, <1>2, <2>1, <2>2, <2>3 DEF DdlAnswered
    <2>5. CASE queue' = Tail(queue) \o z
      BY <2>2, <2>5
    <2>6. CASE queue' = Tail(queue) \o o
      BY <2>1, <2>3, <2>6
    <2> QED BY <2>4, <2>5, <2>6
  <1>7. /\ queue' \in Seq(Request) /\ served' \in 0..Len(queue')
        /\ \A i \in DOMAIN queue' : \/ i + 1 \in DOMAIN queue /\ queue'[i] = queue[i + 1]
                                    \/ \E j \in DOMAIN s : queue'[i] = s[j]
    BY <1>1, <1>5, <1>6, HeadGone DEF IInv
  <1>8. /\ cache' \in Caches /\ OfServer(cache)' /\ Carried(cache, cache')
        /\ \A d \in Conns : cache'[d].fp = cache[d].fp
        /\ \A k \in DOMAIN cache'[q.c].e : k \in ks => cache'[q.c].e[k].stale
    <2>1. PICK old \in Caches : old = cache /\ OfServer(old)
      BY DEF IInv, Types
    <2>2. PICK new : new = MarkStale(old, q.c, ks)
      OBVIOUS
    <2>3. /\ new \in Caches /\ Carried(old, new) /\ OfServer(new)
          /\ \A d \in Conns : new[d].fp = old[d].fp
          /\ \A k \in DOMAIN new[q.c].e : k \in ks => new[q.c].e[k].stale
      BY <1>4, <2>1, <2>2, MarkStaleFacts
    <2>4. cache' = new
      BY <1>5, <2>1, <2>2
    <2> QED BY <2>1, <2>3, <2>4 DEF OfServer
  <1>9. Types' /\ OfServer(kv[1])' /\ Ours'
    <2>1. queue' \in Seq(Request) /\ served' \in 0..Len(queue')
      BY <1>7
    <2>2. Types'
      BY <1>5, <1>8, <2>1 DEF IInv, Types
    <2>3. OfServer(kv[1])'
      BY <1>5 DEF IInv, OfServer
    <2>4. Ours'
      BY <1>5, <1>8 DEF IInv, Ours
    <2> QED BY <2>2, <2>3, <2>4
  <1>10. Attached' /\ Told'
    <2>1. \A i \in DOMAIN queue' : sess[queue'[i].c] # NoHost
      BY <1>4, <1>6, <1>7 DEF IInv, Attached
    <2>2. Told'
      BY <1>6, <1>7 DEF IInv, Told
    <2> QED BY <1>5, <2>1, <2>2 DEF IInv, Attached
  <1>11. \A c, k : Excused(c, k) /\ ~(c = q.c /\ k \in ks) => Excused(c, k)'
    <2> SUFFICES ASSUME NEW c, NEW k, Excused(c, k), ~(c = q.c /\ k \in ks) PROVE Excused(c, k)'
      OBVIOUS
    <2>1. ~(queue[1].c = c /\ k \in queue[1].keys)
      BY <1>2, <1>4
    <2>2. <<c, k>> \in untold \/ ComingAfter(0, c, k)'
      BY <1>1, <1>5, <1>6, <2>1, ExcusedShift DEF IInv
    <2> QED BY <1>5, <2>2 DEF Excused
  <1>12. Fresh'
    <2> SUFFICES ASSUME NEW c \in Conns, NEW k \in Keys, k \in DOMAIN cache'[c].e
                 PROVE  \/ cache'[c].e[k].stale \/ Excused(c, k)'
                        \/ cache'[c].e[k].ver = catalog'[cache'[c].e[k].host][k]
      BY DEF Fresh
    <2>1. CASE c = q.c /\ k \in ks
      BY <1>8, <2>1
    <2>2. CASE ~(c = q.c /\ k \in ks)
      <3>1. /\ k \in DOMAIN cache[c].e
            /\ cache'[c].e[k].host = cache[c].e[k].host /\ cache'[c].e[k].ver = cache[c].e[k].ver
            /\ cache[c].e[k].stale => cache'[c].e[k].stale
        BY <1>8 DEF Carried
      <3>2. cache[c].e[k].stale \/ Excused(c, k) \/ cache[c].e[k].ver = catalog[cache[c].e[k].host][k]
        BY <3>1 DEF IInv, Fresh
      <3> QED BY <1>5, <1>11, <2>2, <3>1, <3>2
    <2> QED BY <2>1, <2>2
  <1>13. Named'
    <2>1. PICK f : f = focus
      OBVIOUS
    <2>2. Named' = (names' # NoNames =>
                      /\ focus' # NoHost /\ names'.host = sess'[focus']
                      /\ Excused(focus, "cols")' \/ names'.ver = catalog'[names'.host]["cols"])
      BY DEF Named
    <2>3. Excused(f, "cols")' => Excused(focus, "cols")'
      BY <1>5, <2>1 DEF Excused, ComingAfter
    <2>4. CASE names' = NoNames
      BY <2>2, <2>4
    <2>5. CASE names' = names /\ names' # NoNames
      <3>1. /\ f # NoHost /\ names.host = sess[f]
            /\ (Excused(f, "cols") \/ names.ver = catalog[names.host]["cols"])
            /\ ~(q.c = f /\ "cols" \in ks)
        BY <1>5, <2>1, <2>5 DEF IInv, Named
      <3>2. Excused(f, "cols") => Excused(f, "cols")'
        BY <1>11, <3>1
      <3> QED BY <1>5, <2>1, <2>2, <2>3, <2>5, <3>1, <3>2
    <2> QED BY <1>5, <2>4, <2>5
  <1>14. LoadsAreTrue'
    BY <1>1, <1>5, <1>6, LoadsShift DEF IInv
  <1> QED BY <1>8, <1>9, <1>10, <1>12, <1>13, <1>14 DEF IInv

----------------------------------------------------------------------------
(* The program starts again with what it had stored.                         *)
LEMMA RestartStep == ASSUME ConstantsAssumption, IInv, Restart PROVE IInv'
  <1>1. PICK old \in Caches : old = cache
    BY DEF IInv, Types
  <1>2. PICK new \in Caches : new = kv[1] /\ OfServer(new)
    BY DEF IInv, Types
  <1>3. /\ cache' = new /\ kv' = kv /\ queue' = <<>> /\ served' = 0
        /\ sess' = [c \in Conns |-> NoHost] /\ focus' = NoHost /\ names' = NoNames
        /\ UNCHANGED <<host, catalog>>
    BY <1>2 DEF Restart
  <1>4. untold' = untold
          \union {x \in EntriesOf(new) :
                    x \notin EntriesOf(old) \/ old[x[1]].e[x[2]] # new[x[1]].e[x[2]]}
          \union UNION {Behind(sess[queue[i].c], queue[i].keys, {}) : i \in 1..served}
    BY <1>1, <1>2 DEF Restart
  <1>5. <<>> \in Seq(Request) /\ Len(<<>>) = 0 /\ DOMAIN <<>> = {}
    OBVIOUS
  <1>6. Types'
    <2>1. sess' \in [Conns -> Hosts \union {NoHost}]
      BY <1>3
    <2>2. queue' \in Seq(Request) /\ served' \in 0..Len(queue')
      BY <1>3, <1>5
    <2> QED BY <1>2, <1>3, <2>1, <2>2 DEF IInv, Types
  <1>7. Attached' /\ Told' /\ LoadsAreTrue'
    <2>1. DOMAIN queue' = {} /\ focus' = NoHost
      BY <1>3, <1>5
    <2> QED BY <2>1 DEF Attached, Told, LoadsAreTrue
  <1>8. OfServer(cache)' /\ OfServer(kv[1])' /\ Ours' /\ Named'
    <2>1. OfServer(cache)'
      BY <1>2, <1>3 DEF OfServer
    <2>2. OfServer(kv[1])'
      BY <1>3 DEF IInv, OfServer
    <2>3. Ours'
      BY <1>3 DEF Ours
    <2>4. Named'
      BY <1>3 DEF Named
    <2> QED BY <2>1, <2>2, <2>3, <2>4
  <1>9. Fresh'
    <2> SUFFICES ASSUME NEW c \in Conns, NEW k \in Keys, k \in DOMAIN new[c].e,
                        <<c, k>> \notin untold', ~new[c].e[k].stale
                 PROVE  new[c].e[k].ver = catalog[new[c].e[k].host][k]
      BY <1>3 DEF Fresh, Excused
    <2>1. <<c, k>> \in EntriesOf(new)
      BY DEF EntriesOf
    <2>2. <<c, k>> \in EntriesOf(old) /\ old[c].e[k] = new[c].e[k]
      <3>1. ~(<<c, k>> \notin EntriesOf(old) \/ old[c].e[k] # new[c].e[k])
        BY <1>4, <2>1
      <3> QED BY <3>1
    <2>3. k \in DOMAIN old[c].e
      BY <2>2 DEF EntriesOf
    <2>4. <<c, k>> \notin untold
      BY <1>4
    <2>5. ~ComingAfter(0, c, k)
      <3> SUFFICES ASSUME NEW j \in DOMAIN queue, 0 < j, j <= served, queue[j].c = c,
                          k \in queue[j].keys
                   PROVE  FALSE
        BY DEF ComingAfter
      <3>1. old[c].fp = sess[c]
        BY <1>1 DEF IInv, Attached, Ours
      <3>2. <<c, k>> \in Behind(sess[queue[j].c], queue[j].keys, {})
        BY <1>1, <3>1 DEF Behind
      <3>3. j \in 1..served
        BY QueueIs DEF IInv
      <3> QED BY <1>4, <3>2, <3>3
    <2>6. old[c].e[k].stale \/ Excused(c, k) \/ old[c].e[k].ver = catalog[old[c].e[k].host][k]
      BY <1>1, <2>3 DEF IInv, Fresh
    <2> QED BY <2>2, <2>4, <2>5, <2>6 DEF Excused
  <1> QED BY <1>6, <1>7, <1>8, <1>9 DEF IInv

(* A session dies with its calls; another takes its place.                   *)
LEMMA SessionReplacedStep ==
  ASSUME ConstantsAssumption, IInv, NEW c \in Conns, SessionReplaced(c) PROVE IInv'
  <1> DEFINE n == Len(queue)
             T == {q \in ToSet(queue) : q.c # c}
             kept == Only(queue, T)
             L == Len(kept)
  <1>1. /\ n \in Nat /\ DOMAIN queue = 1..n /\ queue \in Seq(Request) /\ served \in 0..n
        /\ \A i \in 1..n : queue[i] \in T <=> queue[i].c # c
    <2>1. \A i \in DOMAIN queue : queue[i] \in ToSet(queue)
      BY DEF ToSet
    <2> QED BY <2>1, QueueIs DEF IInv, Types
  <1>2. kept \in Seq(Request) /\ Picks(kept, queue, T, n)
    BY <1>1, OnlyPicks
  <1>3. L \in Nat
    BY <1>2, LenProperties
  <1>4. PICK r \in Request : r = Load(c, "tree") /\ r.keys = {} /\ r.c = c
    BY CallsAre
  <1>5. /\ sess[c] # NoHost /\ queue' = Append(kept, r)
        /\ served' = Cardinality({i \in 1..served : queue[i].c # c})
        /\ (focus = c /\ Seeded(c, cache)) \/ UNCHANGED names
        /\ UNCHANGED <<host, sess, focus, cache, kv, catalog>>
    BY <1>4 DEF SessionReplaced, offered
  <1>6. untold' = untold \union
          {<<c, k>> : k \in UNION {queue[i].keys : i \in {j \in DOMAIN queue :
                                     queue[j].c = c /\ Executed(j)}}}
    BY DEF SessionReplaced
  <1> HIDE DEF T, kept, L
  <1>7. PICK p \in [1..L -> 1..n] :
          /\ \A i \in 1..L : kept[i] = queue[p[i]] /\ queue[p[i]] \in T
          /\ \A i, j \in 1..L : i < j => p[i] < p[j]
          /\ \A k \in 1..n : queue[k] \in T => \E i \in 1..L : p[i] = k
    BY <1>2 DEF Picks, L
  <1>8. served' \in 0..L /\ \A i \in 1..L : i <= served' <=> p[i] <= served
    <2>1. {i \in 1..served : queue[i].c # c} = {k \in 1..served : \E i \in 1..L : p[i] = k}
      <3>1. 1..served \subseteq 1..n
        BY <1>1
      <3>2. \A k \in 1..n : queue[k].c # c => \E i \in 1..L : p[i] = k
        BY <1>1, <1>7
      <3>3. \A i \in 1..L : p[i] \in 1..n /\ queue[p[i]].c # c
        BY <1>1, <1>7
      <3> HIDE DEF n
      <3> QED BY <3>1, <3>2, <3>3
    <2>2. PICK K : K = {k \in 1..served : \E i \in 1..L : p[i] = k}
      OBVIOUS
    <2>3. PICK m \in 0..n : m = served
      BY <1>1
    <2>4. K \subseteq 1..m /\ \A k \in 1..m : k \in K <=> \E i \in 1..L : p[i] = k
      BY <2>2, <2>3
    <2>5. Cardinality(K) \in 0..L /\ \A i \in 1..L : i <= Cardinality(K) <=> p[i] <= m
      <3>1. /\ L \in Nat /\ n \in Nat /\ p \in [1..L -> 1..n] /\ m \in 0..n
            /\ \A i, j \in 1..L : i < j => p[i] < p[j]
        BY <1>1, <1>3, <1>7, <2>3
      <3> HIDE DEF n
      <3> QED BY <2>4, <3>1, PicksUpTo
    <2> QED BY <1>5, <2>1, <2>2, <2>3, <2>5
  <1>9. /\ queue' \in Seq(Request) /\ DOMAIN queue' = 1..(L + 1) /\ Len(queue') = L + 1
        /\ queue'[L + 1] = r /\ \A i \in 1..L : queue'[i] = queue[p[i]] /\ queue[p[i]].c # c
    <2>1. /\ queue' \in Seq(Request) /\ Len(queue') = L + 1 /\ queue'[L + 1] = r
          /\ \A i \in 1..L : queue'[i] = kept[i]
      BY <1>2, <1>5, AppendProperties DEF L
    <2> QED BY <1>1, <1>3, <1>7, <2>1, LenProperties
  <1>10. Types' /\ OfServer(cache)' /\ OfServer(kv[1])' /\ Ours'
    <2>1. served' \in 0..Len(queue')
      BY <1>3, <1>8, <1>9
    <2>2. Types'
      BY <1>5, <1>9, <2>1 DEF IInv, Types
    <2>3. Ours' /\ OfServer(cache)' /\ OfServer(kv[1])'
      BY <1>5 DEF IInv, OfServer, Ours
    <2> QED BY <2>2, <2>3
  <1>11. \A i \in DOMAIN queue' : \/ queue'[i] = r
                                  \/ \E j \in DOMAIN queue : queue'[i] = queue[j]
    <2>1. \A i \in 1..L : p[i] \in DOMAIN queue
      BY <1>1, <1>7
    <2> QED BY <1>3, <1>9, <2>1
  <1>12. Attached' /\ Told'
    <2>1. \A i \in DOMAIN queue' : sess[queue'[i].c] # NoHost
      BY <1>4, <1>5, <1>11 DEF IInv, Attached
    <2>2. Told'
      BY <1>4, <1>11 DEF IInv, Told
    <2> QED BY <1>5, <2>1, <2>2 DEF IInv, Attached
  (* Of another connection nothing is lost.                                  *)
  <1>13. ASSUME NEW d, d # c, NEW k, NEW m \in Nat, NEW m2 \in Nat, ComingAfter(m, d, k),
                \A i \in 1..L : m < p[i] => m2 < i
         PROVE  ComingAfter(m2, d, k)'
    <2>1. PICK j \in DOMAIN queue : m < j /\ j <= served /\ queue[j].c = d /\ k \in queue[j].keys
      BY <1>13 DEF ComingAfter
    <2>2. PICK i \in 1..L : p[i] = j
      BY <1>1, <1>7, <1>13, <2>1
    <2>3. m2 < i /\ i <= served' /\ i \in DOMAIN queue' /\ queue'[i] = queue[j]
      BY <1>3, <1>8, <1>9, <1>13, <2>1, <2>2
    <2> QED BY <2>1, <2>3 DEF ComingAfter
  <1>14. \A d \in Conns, k \in Keys : Excused(d, k) => Excused(d, k)'
    <2> SUFFICES ASSUME NEW d \in Conns, NEW k \in Keys, Excused(d, k) PROVE Excused(d, k)'
      OBVIOUS
    <2>1. CASE <<d, k>> \in untold
      BY <1>6, <2>1 DEF Excused
    <2>2. CASE d # c /\ ComingAfter(0, d, k)
      <3>1. PICK zero \in Nat : zero = 0 /\ ComingAfter(zero, d, k)
        BY <2>2
      <3>2. \A i \in 1..L : zero < i
        BY <3>1
      <3>3. ComingAfter(zero, d, k)'
        BY <1>13, <2>2, <3>1, <3>2
      <3> QED BY <3>1, <3>3 DEF Excused
    <2>3. CASE d = c /\ ComingAfter(0, d, k)
      <3>1. PICK j \in DOMAIN queue : j <= served /\ queue[j].c = c /\ k \in queue[j].keys
        BY <2>3 DEF ComingAfter
      <3>2. Executed(j)
        BY <3>1 DEF Executed, IInv, Told
      <3> QED BY <1>6, <2>3, <3>1, <3>2 DEF Excused
    <2> QED BY <2>1, <2>2, <2>3 DEF Excused
  <1>15. Fresh' /\ Named'
    <2>1. Fresh'
      BY <1>5, <1>14, CarriedSame, FreshStays DEF IInv
    <2>2. CASE focus = c /\ Seeded(c, cache)
      <3>1. PICK cc : cc = cache' /\ Seeded(c, cc)
        BY <1>5, <2>2
      <3>2. PICK f \in Conns \union {NoHost} : f = c
        OBVIOUS
      <3>3. focus' = f /\ sess'[f] # NoHost /\ Seeded(f, cc)
        BY <1>5, <2>2, <3>1, <3>2
      <3> QED BY <1>10, <2>1, <3>1, <3>3, NamedSeeded
    <2>3. CASE UNCHANGED names
      <3>1. \A d \in Conns : Excused(d, "cols") => Excused(d, "cols")'
        BY <1>14 DEF Keys
      <3> QED BY <1>5, <2>1, <2>3, <3>1, NamedStays DEF IInv
    <2> QED BY <1>5, <2>1, <2>2, <2>3
  <1>16. LoadsAreTrue'
    <2> SUFFICES ASSUME NEW i \in DOMAIN queue', NEW d \in Conns, NEW k \in Keys, IsLoad(i, d, k)'
                 PROVE  /\ queue'[i].ver <= catalog'[sess'[d]][k]
                        /\ \A j \in DOMAIN queue' :
                             i < j /\ IsLoad(j, d, k)' => queue'[i].ver <= queue'[j].ver
                        /\ \/ queue'[i].ver = catalog'[sess'[d]][k] \/ <<d, k>> \in untold'
                           \/ ComingAfter(i, d, k)'
      BY DEF LoadsAreTrue
    <2>1. ASSUME NEW j \in DOMAIN queue', IsLoad(j, d, k)'
          PROVE  /\ j \in 1..L /\ p[j] \in DOMAIN queue /\ IsLoad(p[j], d, k)
                 /\ queue'[j] = queue[p[j]] /\ d # c
      <3>1. j \in 1..L
        BY <1>3, <1>8, <1>9, <2>1 DEF IsLoad
      <3>2. p[j] \in 1..n /\ p[j] <= served /\ queue'[j] = queue[p[j]]
        BY <1>7, <1>8, <1>9, <2>1, <3>1 DEF IsLoad
      <3> QED BY <1>1, <1>9, <2>1, <3>1, <3>2 DEF IsLoad
    <2>2. /\ i \in 1..L /\ p[i] \in DOMAIN queue /\ IsLoad(p[i], d, k)
          /\ queue'[i] = queue[p[i]] /\ d # c
      BY <2>1
    <2>3. /\ queue[p[i]].ver <= catalog[sess[d]][k]
          /\ \A j \in DOMAIN queue : p[i] < j /\ IsLoad(j, d, k) => queue[p[i]].ver <= queue[j].ver
          /\ \/ queue[p[i]].ver = catalog[sess[d]][k] \/ <<d, k>> \in untold
             \/ ComingAfter(p[i], d, k)
      BY <2>2 DEF IInv, LoadsAreTrue
    <2>4. ASSUME NEW j \in DOMAIN queue', i < j, IsLoad(j, d, k)'
          PROVE  queue'[i].ver <= queue'[j].ver
      <3>1. j \in 1..L /\ p[j] \in DOMAIN queue /\ IsLoad(p[j], d, k) /\ queue'[j] = queue[p[j]]
        BY <2>1, <2>4
      <3>2. p[i] < p[j]
        BY <1>7, <2>2, <2>4, <3>1
      <3> QED BY <2>2, <2>3, <3>1, <3>2
    <2>5. ComingAfter(p[i], d, k) => ComingAfter(i, d, k)'
      <3>1. p[i] \in Nat /\ i \in Nat
        BY <1>7, <2>2
      <3>2. ASSUME NEW j \in 1..L, p[i] < p[j] PROVE i < j
        <4>1. p[j] \in 1..n /\ p[i] \in 1..n
          BY <1>7, <2>2
        <4>2. i \in 1..L /\ (j < i => p[j] < p[i]) /\ ~(p[j] < p[i])
          BY <1>7, <2>2, <3>2, <4>1
        <4>3. j # i
          BY <3>2, <4>1
        <4> QED BY <1>3, <4>2, <4>3
      <3>3. PICK m \in Nat : m = p[i]
        BY <3>1
      <3> QED BY <1>13, <2>2, <3>1, <3>2, <3>3
    <2> QED BY <1>5, <1>6, <2>2, <2>3, <2>4, <2>5
  <1> QED BY <1>10, <1>12, <1>15, <1>16 DEF IInv

----------------------------------------------------------------------------
LEMMA InitIInv == ASSUME ConstantsAssumption, Init PROVE IInv
  <1>1. NoEntries \in Entries /\ DOMAIN NoEntries = {}
    <2>1. NoEntries \in [{} -> Entry]
      BY DEF NoEntries
    <2> QED BY <2>1, EntriesAre
  <1>2. cache \in Caches /\ kv[1] = cache /\ \A c \in Conns : cache[c].e = NoEntries
    <2>1. [fp |-> NoHost, e |-> NoEntries] \in [fp : Hosts \union {NoHost}, e : Entries]
      BY <1>1
    <2> QED BY <2>1 DEF Init, Caches, stored
  <1>3. OfServer(cache) /\ OfServer(kv[1]) /\ Fresh
    BY <1>1, <1>2 DEF OfServer, Fresh
  <1>4. queue \in Seq(Request) /\ Len(queue) = 0 /\ DOMAIN queue = {} /\ served = 0
    <2>1. <<>> \in Seq(Request) /\ Len(<<>>) = 0 /\ DOMAIN <<>> = {}
      OBVIOUS
    <2> QED BY <2>1 DEF Init
  <1>5. catalog \in [Hosts -> [Keys -> Nat]]
    <2>1. [k \in Keys |-> 0] \in [Keys -> Nat]
      OBVIOUS
    <2> QED BY <2>1 DEF Init
  <1>6. Types
    <2>1. host \in [Conns -> Hosts] /\ sess \in [Conns -> Hosts \union {NoHost}] /\ focus = NoHost
      BY DEF Init
    <2>2. served \in 0..Len(queue)
      BY <1>4
    <2> QED BY <1>2, <1>4, <1>5, <2>1, <2>2 DEF Types
  <1>7. Attached /\ Told /\ Ours /\ LoadsAreTrue /\ Named
    <2>1. Attached /\ Told /\ LoadsAreTrue
      BY <1>4 DEF Init, Attached, Told, LoadsAreTrue
    <2>2. Ours /\ Named
      BY DEF Init, Ours, Named
    <2> QED BY <2>1, <2>2
  <1> QED BY <1>2, <1>3, <1>6, <1>7 DEF IInv

LEMMA NextIInv == ASSUME ConstantsAssumption, IInv, [Next]_vars PROVE IInv'
  <1>1. ASSUME NEW c \in Conns, Connect(c) \/ Disconnect(c) \/ Focus(c) \/ SessionReplaced(c)
        PROVE  IInv'
    BY <1>1, ConnectStep, DisconnectStep, FocusStep, SessionReplacedStep
  <1>2. ASSUME NEW c \in Conns, Describe(c) \/ OpenData(c) PROVE IInv'
    BY <1>2, CallStep
  <1>3. ASSUME NEW c \in Conns, NEW d \in Ddls, RunDdl(c, d) PROVE IInv'
    BY <1>3, CallStep
  <1>4. ASSUME NEW c \in Conns, NEW h \in Hosts, EditConnection(c, h) PROVE IInv'
    BY <1>4, EditConnectionStep
  <1>5. CASE Refresh
    BY <1>5, RefreshStep
  <1>6. CASE Serve
    BY <1>6, ServeLoad, ServeDdl
  <1>7. CASE Answered \/ DdlAnswered
    BY <1>7, AnsweredStep, DdlAnsweredStep
  <1>8. CASE Flush \/ UNCHANGED vars
    BY <1>8, FlushStep
  <1>9. CASE Restart
    BY <1>9, RestartStep
  <1>10. ASSUME NEW h \in Hosts, NEW ks \in SUBSET Keys, ChangedUnseen(h, ks) PROVE IInv'
    BY <1>10, ChangedUnseenStep
  <1> QED BY <1>1, <1>2, <1>3, <1>4, <1>5, <1>6, <1>7, <1>8, <1>9, <1>10 DEF Next, Ddls

LEMMA Invariance == Spec => []IInv
  <1>1. Init => IInv
    BY ConstantsAssumption, InitIInv
  <1>2. IInv /\ [Next]_vars => IInv'
    BY ConstantsAssumption, NextIInv
  <1> QED BY <1>1, <1>2, PTL DEF Spec

LEMMA ComingIs == ASSUME Types, NEW c, NEW k PROVE ComingAfter(0, c, k) => Coming(c, k)
  BY QueueIs DEF ComingAfter, Coming

(* metaCache.ts:11-14: an entry the cache does not call stale is of the       *)
(* server its connection is open to and is what that server has, whatever    *)
(* loads were on their way when a DDL of the editor ran, as soon as the       *)
(* editor has heard of that DDL.                                             *)
THEOREM FreshEntriesAreTrue == Spec => []FreshIsTrue
  <1>1. ASSUME IInv PROVE FreshIsTrue
    <2>1. ASSUME NEW c \in Conns PROVE sess[c] # NoHost => cache[c].fp = sess[c]
      BY <1>1 DEF IInv, Ours
    <2>2. ASSUME NEW c \in Conns, NEW k \in DOMAIN cache[c].e
          PROVE  /\ cache[c].e[k].host = cache[c].fp
                 /\ ~cache[c].e[k].stale /\ <<c, k>> \notin untold /\ ~Coming(c, k) =>
                      cache[c].e[k].ver = catalog[cache[c].e[k].host][k]
      <3>1. k \in Keys
        BY <1>1, <2>2, CacheIs DEF IInv, Types
      <3>2. cache[c].e[k].host = cache[c].fp
        BY <1>1, <3>1 DEF IInv, OfServer
      <3>3. cache[c].e[k].stale \/ Excused(c, k) \/ cache[c].e[k].ver = catalog[cache[c].e[k].host][k]
        BY <1>1, <3>1 DEF IInv, Fresh
      <3> QED BY <1>1, <3>2, <3>3, ComingIs DEF IInv, Excused
    <2> QED BY <2>1, <2>2 DEF FreshIsTrue
  <1> QED BY <1>1, Invariance, PTL

(* App.tsx:1361: the columns offered while a statement is written are those  *)
(* of the server of the connection in focus, and never those a DDL of the    *)
(* editor has changed, once that is answered.                                *)
THEOREM OfferedNamesAreTrue == Spec => []NamesAreTrue
  <1>1. ASSUME IInv PROVE NamesAreTrue
    <2>1. names # NoNames =>
            /\ focus # NoHost /\ names.host = sess[focus]
            /\ (Excused(focus, "cols") \/ names.ver = catalog[names.host]["cols"])
      BY <1>1 DEF IInv, Named
    <2>2. Excused(focus, "cols") => <<focus, "cols">> \in untold \/ Coming(focus, "cols")
      BY <1>1, ComingIs DEF IInv, Excused
    <2> QED BY <2>1, <2>2 DEF NamesAreTrue
  <1> QED BY <1>1, Invariance, PTL

----------------------------------------------------------------------------
(* The cache within its cap, and the order of use.                           *)
Orders(o, E) ==
  /\ o \in Seq(E) /\ \A i, j \in DOMAIN o : o[i] = o[j] => i = j
  /\ \A x \in E : \E i \in DOMAIN o : o[i] = x

LEMMA OrdersIs == ASSUME NEW E, NEW o, Orders(o, E) PROVE IsInjective(o) /\ ToSet(o) = E
  <1>1. DOMAIN o = 1..Len(o) /\ \A i \in DOMAIN o : o[i] \in E
    BY LenProperties DEF Orders
  <1> QED BY <1>1 DEF Orders, IsInjective, ToSet

LEMMA OrdersOnly ==
  ASSUME NEW E, NEW o, Orders(o, E), NEW T PROVE Orders(Only(o, T), E \intersect T)
  <1>1. PICK q : q = Only(o, T)
    OBVIOUS
  <1>2. q \in Seq(E) /\ Picks(q, o, T, Len(o))
    BY <1>1, OnlyPicks DEF Orders
  <1>3. PICK n \in Nat, m \in Nat : /\ n = Len(q) /\ m = Len(o) /\ DOMAIN q = 1..n /\ DOMAIN o = 1..m
                                    /\ \A i \in 1..n : q[i] \in E
    BY <1>2, LenProperties DEF Orders
  <1>4. PICK p \in [1..n -> 1..m] :
          /\ \A i \in 1..n : q[i] = o[p[i]] /\ o[p[i]] \in T
          /\ \A i, j \in 1..n : i < j => p[i] < p[j]
          /\ \A k \in 1..m : o[k] \in T => \E i \in 1..n : p[i] = k
    BY <1>2, <1>3 DEF Picks
  <1>5. q \in Seq(E \intersect T)
    <2>1. \A i \in 1..n : q[i] \in E \intersect T
      BY <1>3, <1>4
    <2>2. q \in [1..n -> E \intersect T]
      BY <1>2, <1>3, <2>1, LenProperties
    <2> QED BY <2>2
  <1>6. ASSUME NEW i \in 1..n, NEW j \in 1..n, q[i] = q[j] PROVE i = j
    <2>1. p[i] = p[j]
      <3>1. \A k, l \in 1..m : o[k] = o[l] => k = l
        BY <1>3 DEF Orders
      <3>2. o[p[i]] = o[p[j]] /\ p[i] \in 1..m /\ p[j] \in 1..m
        BY <1>4, <1>6
      <3> QED BY <3>1, <3>2
    <2>2. p[i] \in Nat /\ i \in Nat /\ j \in Nat
      BY <1>4
    <2> QED BY <1>4, <2>1, <2>2
  <1>7. ASSUME NEW x \in E \intersect T PROVE \E i \in 1..n : q[i] = x
    <2>1. PICK k \in 1..m : o[k] = x
      BY <1>3 DEF Orders
    <2> QED BY <1>4, <2>1
  <1> QED BY <1>1, <1>3, <1>5, <1>6, <1>7 DEF Orders

LEMMA OrdersConcat ==
  ASSUME NEW A, NEW B, A \intersect B = {}, NEW a, Orders(a, A), NEW b, Orders(b, B)
  PROVE  Orders(a \o b, A \union B)
  <1>1. PICK S : S = A \union B
    OBVIOUS
  <1>2. a \in Seq(S) /\ b \in Seq(S)
    BY <1>1, SeqMonotonic DEF Orders
  <1>3. PICK n \in Nat, m \in Nat : /\ n = Len(a) /\ m = Len(b) /\ DOMAIN a = 1..n /\ DOMAIN b = 1..m
                                    /\ \A i \in 1..n : a[i] \in A
                                    /\ \A i \in 1..m : b[i] \in B
    BY LenProperties DEF Orders
  <1>4. PICK q : q = a \o b
    OBVIOUS
  <1>5. /\ q \in Seq(S) /\ DOMAIN q = 1..(n + m)
        /\ \A i \in 1..(n + m) : q[i] = IF i <= n THEN a[i] ELSE b[i - n]
    BY <1>2, <1>3, <1>4, ConcatProperties, LenProperties
  <1>6. ASSUME NEW i \in 1..(n + m), NEW j \in 1..(n + m), q[i] = q[j] PROVE i = j
    <2>1. CASE i <= n /\ j <= n
      <3>1. i \in 1..n /\ j \in 1..n /\ a[i] = a[j]
        BY <1>5, <1>6, <2>1
      <3> QED BY <1>3, <3>1 DEF Orders
    <2>2. CASE ~(i <= n) /\ ~(j <= n)
      <3>1. i - n \in 1..m /\ j - n \in 1..m
        BY <2>2
      <3>2. b[i - n] = b[j - n]
        BY <1>5, <1>6, <2>2
      <3>3. i - n = j - n
        BY <1>3, <3>1, <3>2 DEF Orders
      <3> QED BY <3>3
    <2>3. CASE (i <= n) # (j <= n)
      <3>1. ASSUME NEW k \in 1..(n + m) PROVE q[k] \in A <=> k <= n
        <4>1. CASE k <= n
          BY <1>3, <1>5, <4>1
        <4>2. CASE ~(k <= n)
          <5>1. k - n \in 1..m
            BY <4>2
          <5> QED BY <1>3, <1>5, <4>2, <5>1
        <4> QED BY <4>1, <4>2
      <3> QED BY <1>6, <2>3, <3>1
    <2> QED BY <2>1, <2>2, <2>3
  <1>7. ASSUME NEW x \in S PROVE \E i \in 1..(n + m) : q[i] = x
    <2>1. CASE x \in A
      <3>1. PICK i \in 1..n : a[i] = x
        BY <1>3, <2>1 DEF Orders
      <3> QED BY <1>5, <3>1
    <2>2. CASE x \in B
      <3>1. PICK i \in 1..m : b[i] = x
        BY <1>3, <2>2 DEF Orders
      <3>2. i + n \in 1..(n + m) /\ ~(i + n <= n) /\ (i + n) - n = i
        OBVIOUS
      <3> QED BY <1>5, <3>1, <3>2
    <2> QED BY <1>1, <1>7, <2>1, <2>2
  <1> QED BY <1>1, <1>4, <1>5, <1>6, <1>7 DEF Orders

LEMMA OrdersAppend ==
  ASSUME NEW E, NEW o, Orders(o, E), NEW x, x \notin E PROVE Orders(Append(o, x), E \union {x})
  <1>1. PICK b : b = <<x>>
    OBVIOUS
  <1>2. Orders(b, {x})
    BY <1>1 DEF Orders
  <1>3. Orders(o \o b, E \union {x})
    BY <1>2, OrdersConcat
  <1>4. o \o b = Append(o, x)
    <2>1. o \in Seq(E \union {x})
      BY SeqMonotonic DEF Orders
    <2> QED BY <1>1, <2>1
  <1> QED BY <1>3, <1>4

(* Used again: an entry goes behind the others.                              *)
LEMMA OrdersAgain ==
  ASSUME NEW E, NEW o, Orders(o, E), NEW x, NEW T
  PROVE  Orders(Append(Only(o, T \ {x}), x), (E \intersect T) \union {x})
  <1>1. PICK q : q = Only(o, T \ {x}) /\ Orders(q, E \intersect (T \ {x}))
    BY OrdersOnly
  <1>2. Orders(Append(q, x), (E \intersect (T \ {x})) \union {x})
    BY <1>1, OrdersAppend
  <1>3. (E \intersect (T \ {x})) \union {x} = (E \intersect T) \union {x}
    OBVIOUS
  <1> QED BY <1>1, <1>2, <1>3

----------------------------------------------------------------------------
(* The size of a cache.                                                      *)
LEMMA EntryOf ==
  ASSUME NEW cc, NEW c, NEW k
  PROVE  <<c, k>> \in EntriesOf(cc) <=> c \in Conns /\ k \in DOMAIN cc[c].e
  <1>1. ASSUME <<c, k>> \in EntriesOf(cc) PROVE c \in Conns /\ k \in DOMAIN cc[c].e
    <2>1. PICK d \in Conns : <<c, k>> \in {<<d, x>> : x \in DOMAIN cc[d].e}
      BY <1>1 DEF EntriesOf
    <2> QED BY <2>1
  <1>2. ASSUME c \in Conns, k \in DOMAIN cc[c].e PROVE <<c, k>> \in EntriesOf(cc)
    BY <1>2 DEF EntriesOf
  <1> QED BY <1>1, <1>2

LEMMA EntryIs ==
  ASSUME NEW cc \in Caches, NEW x \in EntriesOf(cc)
  PROVE  /\ \E c \in Conns, k \in Keys : x = <<c, k>> /\ k \in DOMAIN cc[c].e
         /\ SizeOf(x[2], cc[x[1]].e[x[2]].ver) \in Nat
  <1>1. PICK c, k : c \in Conns /\ x = <<c, k>> /\ k \in DOMAIN cc[c].e
    BY DEF EntriesOf
  <1>2. k \in Keys /\ cc[c].e[k] \in Entry
    BY <1>1, CacheIs
  <1>3. cc[c].e[k].ver \in Nat
    BY <1>2 DEF Entry
  <1>4. SizeOf(k, cc[c].e[k].ver) \in Nat
    BY <1>3 DEF SizeOf
  <1>5. x[1] = c /\ x[2] = k
    BY <1>1
  <1> QED BY <1>1, <1>2, <1>4, <1>5

LEMMA ImageFinite ==
  ASSUME NEW S, IsFiniteSet(S), NEW f, NEW T, T = {f[x] : x \in S}
  PROVE  IsFiniteSet(T) /\ Cardinality(T) <= Cardinality(S)
  <1>1. PICK g : g = [x \in S |-> f[x]]
    OBVIOUS
  <1>2. g \in Surjection(S, T)
    BY <1>1 DEF Surjection
  <1> QED BY <1>2, FS_Surjection

(* The cells of one entry.                                                   *)
Cells(x, n) == {<<x, i>> : i \in 1..n}
LEMMA CellsAre ==
  ASSUME NEW x, NEW n \in Nat PROVE IsFiniteSet(Cells(x, n)) /\ Cardinality(Cells(x, n)) <= n
  <1>1. IsFiniteSet(1..n) /\ Cardinality(1..n) = n
    BY FS_Interval
  <1>2. PICK f : f = [i \in 1..n |-> <<x, i>>]
    OBVIOUS
  <1>3. Cells(x, n) = {f[i] : i \in 1..n}
    BY <1>2 DEF Cells
  <1> QED BY <1>1, <1>3, ImageFinite

LEMMA CellOf ==
  ASSUME NEW cc, NEW y
  PROVE  y \in CellsOf(cc) <=>
           \E x \in EntriesOf(cc) : y \in Cells(x, SizeOf(x[2], cc[x[1]].e[x[2]].ver))
  BY DEF CellsOf, Cells

LEMMA CellsFinite ==
  ASSUME ConstantsAssumption, NEW cc \in Caches
  PROVE  IsFiniteSet(CellsOf(cc)) /\ TotalSize(cc) \in Nat
  <1>1. IsFiniteSet(EntriesOf(cc))
    <2>1. IsFiniteSet(Keys)
      <3>1. Keys = {"tree"} \union {"cols"}
        BY DEF Keys
      <3> QED BY <3>1, FS_Singleton, FS_AddElement
    <2>2. IsFiniteSet(Conns \X Keys)
      BY <2>1, FS_Product DEF ConstantsAssumption
    <2>3. EntriesOf(cc) \subseteq Conns \X Keys
      BY EntryIs
    <2> QED BY <2>2, <2>3, FS_Subset
  <1>2. PICK f : f = [x \in EntriesOf(cc) |-> Cells(x, SizeOf(x[2], cc[x[1]].e[x[2]].ver))]
    OBVIOUS
  <1>3. PICK U : U = {f[x] : x \in EntriesOf(cc)}
    OBVIOUS
  <1>4. IsFiniteSet(U)
    BY <1>1, <1>3, ImageFinite
  <1>5. \A S \in U : IsFiniteSet(S)
    BY <1>2, <1>3, EntryIs, CellsAre
  <1>6. IsFiniteSet(UNION U)
    BY <1>4, <1>5, FS_UNION
  <1>7. CellsOf(cc) \subseteq UNION U
    BY <1>2, <1>3, CellOf
  <1>8. IsFiniteSet(CellsOf(cc))
    BY <1>6, <1>7, FS_Subset
  <1> QED BY <1>8, FS_CardinalityType DEF TotalSize

(* Fewer entries, or as many, take no more.                                  *)
LEMMA SizeCarried ==
  ASSUME ConstantsAssumption, NEW old \in Caches, NEW new \in Caches, Carried(old, new)
  PROVE  /\ EntriesOf(new) \subseteq EntriesOf(old)
         /\ TotalSize(new) \in Nat /\ TotalSize(old) \in Nat /\ TotalSize(new) <= TotalSize(old)
  <1>1. ASSUME NEW x \in EntriesOf(new)
        PROVE  /\ x \in EntriesOf(old)
               /\ SizeOf(x[2], new[x[1]].e[x[2]].ver) = SizeOf(x[2], old[x[1]].e[x[2]].ver)
    <2>1. PICK c \in Conns, k \in Keys : x = <<c, k>> /\ k \in DOMAIN new[c].e
      BY EntryIs
    <2>2. k \in DOMAIN old[c].e /\ new[c].e[k].ver = old[c].e[k].ver
      BY <2>1 DEF Carried
    <2>3. x \in EntriesOf(old)
      BY <2>1, <2>2, EntryOf
    <2> QED BY <2>1, <2>2, <2>3
  <1>2. CellsOf(new) \subseteq CellsOf(old)
    BY <1>1, CellOf
  <1>3. IsFiniteSet(CellsOf(old)) /\ TotalSize(old) \in Nat /\ TotalSize(new) \in Nat
    BY CellsFinite
  <1>4. TotalSize(new) <= TotalSize(old)
    BY <1>2, <1>3, FS_Subset DEF TotalSize
  <1> QED BY <1>1, <1>3, <1>4

(* One entry takes as much as it is large.                                   *)
LEMMA OneEntry ==
  ASSUME ConstantsAssumption, NEW cc \in Caches, NEW c \in Conns, NEW k, NEW n \in Nat,
         \A x \in EntriesOf(cc) : x = <<c, k>>,
         k \in DOMAIN cc[c].e => SizeOf(k, cc[c].e[k].ver) = n
  PROVE  TotalSize(cc) <= n
  <1>1. CellsOf(cc) \subseteq Cells(<<c, k>>, n)
    <2>1. ASSUME NEW x \in EntriesOf(cc)
          PROVE  x = <<c, k>> /\ SizeOf(x[2], cc[x[1]].e[x[2]].ver) = n
      <3>1. x = <<c, k>> /\ k \in DOMAIN cc[c].e
        BY EntryOf
      <3> QED BY <3>1
    <2> QED BY <2>1, CellOf
  <1>2. IsFiniteSet(Cells(<<c, k>>, n)) /\ Cardinality(Cells(<<c, k>>, n)) <= n
    BY CellsAre
  <1>3. TotalSize(cc) <= Cardinality(Cells(<<c, k>>, n))
    BY <1>1, <1>2, FS_Subset DEF TotalSize
  <1>4. TotalSize(cc) \in Nat /\ Cardinality(Cells(<<c, k>>, n)) \in Nat
    BY <1>2, CellsFinite, FS_CardinalityType
  <1> QED BY <1>2, <1>3, <1>4

(* The entries given up are enough when all of them are.                     *)
LEMMA VictimsFit ==
  ASSUME ConstantsAssumption, NEW w \in Caches, NEW E, NEW o, Orders(o, E),
         Left(w, o, Len(o)) <= Cap
  PROVE  \E n \in 0..Len(o) : Victims(w, o) = FirstOf(o, n) /\ Left(w, o, n) <= Cap
  <1>1. PICK L \in Nat : L = Len(o)
    BY LenProperties DEF Orders
  <1>2. Cap \in Nat /\ \A n \in 0..L : Left(w, o, n) \in Nat
    BY WithoutFacts, CellsFinite DEF Left, ConstantsAssumption
  <1>3. PICK T : T = {n \in 0..L : Left(w, o, n) <= Cap}
    OBVIOUS
  <1>4. T \subseteq Nat /\ L \in T
    BY <1>1, <1>3
  <1>5. PICK l \in T : \A m \in T : l <= m
    BY <1>4, LeastNumber
  <1>6. \A m \in 0..(l - 1) : Left(w, o, m) > Cap
    <2>1. ASSUME NEW m \in 0..(l - 1) PROVE Left(w, o, m) > Cap
      <3>1. m \in 0..L /\ ~(l <= m)
        BY <1>3, <1>5
      <3>2. ~(Left(w, o, m) <= Cap)
        BY <1>3, <1>5, <3>1
      <3> QED BY <1>2, <3>1, <3>2
    <2> QED BY <2>1
  <1> DEFINE n == CHOOSE n \in 0..Len(o) :
                    /\ Left(w, o, n) <= Cap
                    /\ \A m \in 0..(n - 1) : Left(w, o, m) > Cap
  <1>7. n \in 0..Len(o) /\ Left(w, o, n) <= Cap
    BY <1>1, <1>3, <1>5, <1>6
  <1>8. Victims(w, o) = FirstOf(o, n)
    BY DEF Victims
  <1> QED BY <1>7, <1>8

----------------------------------------------------------------------------
(* What a cache holds after the operations of metaCache.ts.                  *)
LEMMA WithoutEntries ==
  ASSUME NEW w \in Caches, NEW gone
  PROVE  EntriesOf(Without(w, gone)) = EntriesOf(w) \ gone
  <1>1. ASSUME NEW c \in Conns
        PROVE  DOMAIN Without(w, gone)[c].e = {y \in DOMAIN w[c].e : <<c, y>> \notin gone}
    <2>1. PICK r \in [fp : Hosts \union {NoHost}, e : Entries] : r = w[c]
      BY CacheIs
    <2>2. PICK f : f = [x \in {y \in DOMAIN r.e : <<c, y>> \notin gone} |-> r.e[x]]
      OBVIOUS
    <2>3. Without(w, gone)[c] = [r EXCEPT !.e = f]
      BY <2>1, <2>2 DEF Without
    <2>4. Without(w, gone)[c].e = f
      BY <2>1, <2>3
    <2> QED BY <2>1, <2>2, <2>4
  <1>2. ASSUME NEW x PROVE x \in EntriesOf(Without(w, gone)) <=> x \in EntriesOf(w) \ gone
    <2>1. ASSUME x \in EntriesOf(Without(w, gone)) PROVE x \in EntriesOf(w) \ gone
      <3>1. PICK c, k : c \in Conns /\ x = <<c, k>> /\ k \in DOMAIN Without(w, gone)[c].e
        BY <2>1 DEF EntriesOf
      <3> QED BY <1>1, <3>1, EntryOf
    <2>2. ASSUME x \in EntriesOf(w) \ gone PROVE x \in EntriesOf(Without(w, gone))
      <3>1. PICK c, k : c \in Conns /\ x = <<c, k>> /\ k \in DOMAIN w[c].e
        BY <2>2 DEF EntriesOf
      <3> QED BY <1>1, <2>2, <3>1, EntryOf
    <2> QED BY <2>1, <2>2
  <1> QED BY <1>2

LEMMA HoldingEntries ==
  ASSUME cache \in Caches, NEW c \in Conns, NEW k \in Keys, NEW new \in Entry,
         NEW w, w = Holding(c, k, new)
  PROVE  /\ w \in Caches /\ EntriesOf(w) = EntriesOf(cache) \union {<<c, k>>}
         /\ w[c].e[k] = new
  <1>1. PICK f : f = [y \in DOMAIN cache[c].e \union {k} |-> IF y = k THEN new ELSE cache[c].e[y]]
    OBVIOUS
  <1>2. f \in Entries /\ DOMAIN f = DOMAIN cache[c].e \union {k} /\ f[k] = new
    <2>1. DOMAIN cache[c].e \union {k} \subseteq Keys
      BY CacheIs
    <2>2. f \in [DOMAIN cache[c].e \union {k} -> Entry]
      BY <1>1, CacheIs
    <2> QED BY <1>1, <2>1, <2>2, EntriesAre
  <1>3. PICK r \in [fp : Hosts \union {NoHost}, e : Entries] : r = cache[c] /\ r.fp = cache[c].fp
    BY CacheIs
  <1>4. w = Becomes(cache, c, r.fp, f)
    <2>1. w = [cache EXCEPT ![c].e = f]
      BY <1>1 DEF Holding
    <2>2. w = [cache EXCEPT ![c] = [cache[c] EXCEPT !.e = f]]
      BY <2>1 DEF Caches
    <2>3. [r EXCEPT !.e = f] = [fp |-> r.fp, e |-> f]
      OBVIOUS
    <2> QED BY <1>3, <2>2, <2>3 DEF Becomes
  <1>5. w \in Caches /\ w[c].e = f /\ \A d \in Conns \ {c} : w[d] = cache[d]
    BY <1>2, <1>3, <1>4, CacheAt
  <1>6. ASSUME NEW d \in Conns, NEW x
        PROVE  x \in DOMAIN w[d].e <=> x \in DOMAIN cache[d].e \/ <<d, x>> = <<c, k>>
    BY <1>2, <1>5
  <1>7. ASSUME NEW y PROVE y \in EntriesOf(w) <=> y \in EntriesOf(cache) \union {<<c, k>>}
    <2>1. ASSUME y \in EntriesOf(w) PROVE y \in EntriesOf(cache) \union {<<c, k>>}
      <3>1. PICK d, x : d \in Conns /\ y = <<d, x>> /\ x \in DOMAIN w[d].e
        BY <2>1 DEF EntriesOf
      <3> QED BY <1>6, <3>1, EntryOf
    <2>2. ASSUME y \in EntriesOf(cache) PROVE y \in EntriesOf(w)
      <3>1. PICK d, x : d \in Conns /\ y = <<d, x>> /\ x \in DOMAIN cache[d].e
        BY <2>2 DEF EntriesOf
      <3> QED BY <1>6, <3>1, EntryOf
    <2>3. <<c, k>> \in EntriesOf(w)
      BY <1>6, EntryOf
    <2> QED BY <2>1, <2>2, <2>3
  <1> QED BY <1>2, <1>5, <1>7

Stored(cc, o) == Orders(o, EntriesOf(cc)) /\ TotalSize(cc) <= Cap

(* A value that arrives, and the entries given up for it.                    *)
LEMMA PutStored ==
  ASSUME ConstantsAssumption, cache \in Caches, Stored(cache, lru), NEW c \in Conns,
         NEW k \in Keys, NEW h \in Hosts, NEW ver \in Nat, Put(c, k, h, ver)
  PROVE  Stored(cache, lru)'
  <1>1. CASE UNCHANGED stored
    <2>1. cache' = cache /\ lru' = lru
      BY <1>1 DEF stored
    <2> QED BY <2>1 DEF Stored, EntriesOf, TotalSize, CellsOf
  <1>2. CASE ~UNCHANGED stored
    <2>1. PICK n \in Nat : n = SizeOf(k, ver)
      BY DEF SizeOf
    <2>2. PICK new, w, o : /\ new = [host |-> h, ver |-> ver, stale |-> FALSE]
                           /\ w = Holding(c, k, new) /\ o = Others(c, k)
      OBVIOUS
    <2>3. ~(n > Cap) /\ cache' = Without(w, Victims(w, o)) /\ lru' = Newest(c, k, Victims(w, o))
      BY <1>2, <2>1, <2>2 DEF Put
    <2>4. n <= Cap /\ Cap \in Nat
      BY <2>3 DEF ConstantsAssumption
    <2>5. new \in Entry /\ new.ver = ver
      BY <2>2 DEF Entry
    <2>6. PICK x, E : x = <<c, k>> /\ E = EntriesOf(cache)
      OBVIOUS
    <2>7. w \in Caches /\ EntriesOf(w) = E \union {x} /\ w[c].e[k] = new
      <3>1. /\ w \in Caches /\ EntriesOf(w) = EntriesOf(cache) \union {<<c, k>>}
            /\ w[c].e[k] = new
        <4>1. w = Holding(c, k, new) /\ new \in Entry
          BY <2>2, <2>5
        <4> HIDE DEF Entry
        <4> QED BY <4>1, HoldingEntries
      <3> QED BY <2>6, <3>1
    <2>8. Orders(lru, E) /\ ToSet(lru) = E
      BY <2>6, OrdersIs DEF Stored
    <2>9. Orders(o, E \ {x})
      <3>1. o = Only(lru, E \ {x})
        BY <2>2, <2>6, <2>8 DEF Others
      <3>2. E \intersect (E \ {x}) = E \ {x}
        OBVIOUS
      <3> QED BY <2>8, <3>1, <3>2, OrdersOnly
    <2>10. PICK L \in Nat : L = Len(o) /\ DOMAIN o = 1..L
      BY <2>9, LenProperties DEF Orders
    <2>11. Left(w, o, Len(o)) <= Cap
      <3>1. FirstOf(o, Len(o)) = E \ {x}
        <4>1. \A i \in 1..L : o[i] \in E \ {x}
          BY <2>9, <2>10, LenProperties DEF Orders
        <4> QED BY <2>9, <2>10, <4>1 DEF FirstOf, Orders
      <3>2. PICK v : v = Without(w, E \ {x})
        OBVIOUS
      <3>3. v \in Caches /\ EntriesOf(v) = (E \union {x}) \ (E \ {x})
        BY <2>7, <3>2, WithoutFacts, WithoutEntries
      <3>4. \A y \in EntriesOf(v) : y = <<c, k>>
        BY <2>6, <3>3
      <3>5. k \in DOMAIN v[c].e => SizeOf(k, v[c].e[k].ver) = n
        BY <2>1, <2>5, <2>7, <3>2, WithoutFacts
      <3>6. TotalSize(v) <= n /\ TotalSize(v) \in Nat
        BY <3>3, <3>4, <3>5, OneEntry, CellsFinite
      <3> QED BY <2>4, <3>1, <3>2, <3>6 DEF Left
    <2>12. PICK m \in 0..Len(o) : Victims(w, o) = FirstOf(o, m) /\ Left(w, o, m) <= Cap
      BY <2>7, <2>9, <2>11, VictimsFit
    <2>13. PICK gone : gone = Victims(w, o)
      OBVIOUS
    <2>14. cache' = Without(w, gone) /\ TotalSize(cache') <= Cap
      BY <2>3, <2>12, <2>13 DEF Left
    <2>15. gone \subseteq E \ {x}
      <3>1. gone = {o[i] : i \in 1..m} /\ m \in 0..L
        BY <2>10, <2>12, <2>13 DEF FirstOf
      <3>2. \A i \in 1..L : o[i] \in E \ {x}
        BY <2>9, <2>10, LenProperties DEF Orders
      <3>3. 1..m \subseteq 1..L
        BY <2>10, <3>1
      <3> QED BY <3>1, <3>2, <3>3
    <2>16. EntriesOf(cache') = ((E \ {x}) \intersect (E \ gone)) \union {x}
      <3>1. EntriesOf(cache') = (E \union {x}) \ gone
        BY <2>7, <2>14, WithoutEntries
      <3> QED BY <2>15, <3>1
    <2>17. Orders(lru', EntriesOf(cache'))
      <3>1. PICK q : q = Only(o, E \ gone) /\ Orders(q, (E \ {x}) \intersect (E \ gone))
        BY <2>9, OrdersOnly
      <3>2. lru' = Append(q, x)
        BY <2>2, <2>3, <2>6, <2>8, <2>13, <3>1 DEF Newest
      <3>3. Orders(Append(q, x), ((E \ {x}) \intersect (E \ gone)) \union {x})
        BY <3>1, OrdersAppend
      <3> QED BY <2>16, <3>2, <3>3
    <2> QED BY <2>14, <2>17 DEF Stored, EntriesOf, TotalSize, CellsOf
  <1> QED BY <1>1, <1>2

LEMMA SameStored == ASSUME Stored(cache, lru), UNCHANGED stored PROVE Stored(cache, lru)'
  BY DEF Stored, stored, EntriesOf, TotalSize, CellsOf

(* Entries carried over, as the order of use says.                           *)
LEMMA CarriedStored ==
  ASSUME ConstantsAssumption, cache \in Caches, Stored(cache, lru), NEW cc \in Caches, cache' = cc,
         Carried(cache, cc), Orders(lru', EntriesOf(cc))
  PROVE  Stored(cache, lru)'
  <1>1. PICK old \in Caches : old = cache
    OBVIOUS
  <1>2. TotalSize(cc) \in Nat /\ TotalSize(old) \in Nat /\ TotalSize(cc) <= TotalSize(old)
    BY <1>1, SizeCarried
  <1>3. TotalSize(old) <= Cap /\ Cap \in Nat
    BY <1>1 DEF Stored, ConstantsAssumption
  <1>4. TotalSize(cc) <= Cap
    BY <1>2, <1>3
  <1> QED BY <1>4 DEF Stored, EntriesOf, TotalSize, CellsOf

(* A hit goes behind the others.                                             *)
LEMMA TouchedOrders ==
  ASSUME Stored(cache, lru), NEW c, NEW k, <<c, k>> \in EntriesOf(cache)
  PROVE  Orders(Touched(c, k), EntriesOf(cache))
  <1>1. PICK x, E : x = <<c, k>> /\ E = EntriesOf(cache)
    OBVIOUS
  <1>2. Orders(lru, E) /\ ToSet(lru) = E
    BY <1>1, OrdersIs DEF Stored
  <1>3. Touched(c, k) = Append(Only(lru, E \ {x}), x)
    BY <1>1, <1>2 DEF Touched, Others
  <1>4. (E \intersect E) \union {x} = E
    BY <1>1
  <1>5. Orders(Append(Only(lru, E \ {x}), x), (E \intersect E) \union {x})
    BY SMTT(30), <1>2, OrdersAgain
  <1> QED BY <1>1, <1>3, <1>4, <1>5

----------------------------------------------------------------------------
(* In memory and as stored; and the room for calls.                          *)
Within ==
  /\ Stored(cache, lru) /\ Stored(kv[1], kv[2])
  /\ described \subseteq Conns /\ Len(queue) <= MaxCalls

LEMMA WithinNext ==
  ASSUME Within, UNCHANGED kv, Stored(cache, lru)', described' \subseteq Conns, Len(queue') <= MaxCalls
  PROVE  Within'
  BY DEF Within, Stored, EntriesOf, TotalSize, CellsOf

LEMMA SentRoom ==
  ASSUME Types, NEW s \in Seq(Request), Sent(s) PROVE Len(queue') <= MaxCalls
  <1>1. queue \in Seq(Request) /\ queue' = queue \o s /\ Len(queue) + Len(s) <= MaxCalls
    BY DEF Types, Sent
  <1> QED BY <1>1, ConcatProperties

LEMMA CallRoom ==
  ASSUME Types, NEW r \in Request, Sent(<<r>>) PROVE Len(queue') <= MaxCalls
  BY One, SentRoom

LEMMA Seeds == \A c, cc : Seeded(c, cc) => described' \subseteq Conns
  BY DEF Seeded

LEMMA ConnectWithin ==
  ASSUME ConstantsAssumption, IInv, Within, NEW c \in Conns, Connect(c) PROVE Within'
  <1>1. PICK h \in Hosts, old \in Caches : h = host[c] /\ old = cache /\ OfServer(old) /\ Types
    BY DEF IInv, Types
  <1>2. PICK cc : cc = OpenConn(old, c, h)
    OBVIOUS
  <1>3. cache' = cc /\ Listed(c, cc) /\ Seeded(c, cc) /\ UNCHANGED kv
    BY <1>1, <1>2 DEF Connect
  <1>4. cc \in Caches /\ Carried(old, cc)
    BY <1>1, <1>2, OpenConnFacts
  <1>5. PICK E : E = EntriesOf(cc)
    OBVIOUS
  <1>6. Orders(lru', E)
    <2>1. CASE "tree" \in DOMAIN cc[c].e
      <3>1. cc = old
        <4>1. CASE old[c].fp # h
          <5>1. cc = Becomes(old, c, h, NoEntries)
            BY <1>2, <4>1 DEF OpenConn, Becomes
          <5>2. cc[c].e = NoEntries
            BY <5>1 DEF Becomes, Caches
          <5> QED BY <2>1, <5>2 DEF NoEntries
        <4> QED BY <1>2, <4>1 DEF OpenConn
      <3>2. <<c, "tree">> \in EntriesOf(cache)
        BY <1>1, <2>1, <3>1, EntryOf
      <3>3. lru' = Touched(c, "tree")
        BY <1>3, <2>1 DEF Listed
      <3> QED BY <1>1, <1>5, <3>1, <3>2, <3>3, TouchedOrders DEF Within
    <2>2. CASE "tree" \notin DOMAIN cc[c].e
      <3>1. PICK D : D = EntriesOf(old) /\ Orders(lru, D)
        BY <1>1 DEF Within, Stored
      <3>2. lru' = Only(lru, E)
        BY <1>3, <1>5, <2>2 DEF Listed
      <3>3. D \intersect E = E
        BY <1>4, <1>5, <3>1, SizeCarried
      <3> QED BY <3>1, <3>2, <3>3, OrdersOnly
    <2> QED BY <2>1, <2>2
  <1>7. Stored(cache, lru)'
    BY <1>1, <1>3, <1>4, <1>5, <1>6, CarriedStored DEF Within
  <1>8. described' \subseteq Conns
    BY <1>3, Seeds
  <1>9. Len(queue') <= MaxCalls
    <2>1. PICK r \in Request : r = Load(c, "tree")
      BY CallsAre
    <2> QED BY <1>1, <1>3, <2>1, CallRoom DEF Listed
  <1> QED BY <1>3, <1>7, <1>8, <1>9, WithinNext

LEMMA CallsWithin ==
  ASSUME IInv, Within, NEW c \in Conns,
         Describe(c) \/ OpenData(c) \/ \E ddl \in Ddls : RunDdl(c, ddl)
  PROVE  Within'
  <1>1. UNCHANGED stored /\ UNCHANGED kv
    BY DEF Describe, OpenData, RunDdl
  <1>2. described' \subseteq Conns
    <2>1. CASE Describe(c)
      <3>1. described' = described \union {c}
        BY <2>1 DEF Describe
      <3> QED BY <3>1 DEF Within
    <2>2. ASSUME OpenData(c) \/ \E ddl \in Ddls : RunDdl(c, ddl) PROVE described' = described
      BY <2>2 DEF OpenData, RunDdl, offered
    <2> QED BY <2>1, <2>2 DEF Within
  <1>3. PICK r \in Request : Sent(<<r>>)
    BY CallsAre DEF Describe, OpenData, RunDdl
  <1> QED BY <1>1, <1>2, <1>3, CallRoom, SameStored, WithinNext DEF IInv, Within

LEMMA CalmWithin ==
  ASSUME Within, UNCHANGED <<stored, kv, queue>>,
         UNCHANGED described \/ \E c, cc : Seeded(c, cc)
  PROVE  Within'
  <1>1. described' \subseteq Conns /\ Len(queue') <= MaxCalls
    BY Seeds DEF Within
  <1> QED BY <1>1, SameStored, WithinNext DEF Within

LEMMA FlushWithin == ASSUME Within, Flush PROVE Within'
  <1>1. /\ kv' = <<cache, lru>> /\ UNCHANGED stored /\ UNCHANGED described /\ UNCHANGED queue
    BY DEF Flush, stored, offered, calls
  <1>2. kv'[1] = cache /\ kv'[2] = lru
    BY <1>1
  <1> QED BY <1>1, <1>2 DEF Within, Stored, EntriesOf, TotalSize, CellsOf, stored

LEMMA RestartWithin == ASSUME ConstantsAssumption, Within, Restart PROVE Within'
  <1>1. cache' = kv[1] /\ lru' = kv[2] /\ kv' = kv /\ described' = {} /\ queue' = <<>>
    BY DEF Restart
  <1>2. Len(queue') <= MaxCalls
    BY <1>1 DEF ConstantsAssumption
  <1> QED BY <1>1, <1>2 DEF Within, Stored, EntriesOf, TotalSize, CellsOf

LEMMA ReplacedWithin ==
  ASSUME ConstantsAssumption, IInv, Within, NEW c \in Conns, SessionReplaced(c) PROVE Within'
  <1>1. /\ UNCHANGED cache /\ UNCHANGED kv /\ Len(queue') <= MaxCalls
        /\ lru' = IF "tree" \in DOMAIN cache[c].e THEN Touched(c, "tree") ELSE lru
        /\ IF focus = c THEN Seeded(c, cache) ELSE UNCHANGED offered
    BY DEF SessionReplaced
  <1>2. described' \subseteq Conns
    BY <1>1, Seeds DEF offered, Within
  <1>3. Stored(cache, lru)'
    <2>1. CASE "tree" \in DOMAIN cache[c].e
      <3>1. Orders(lru', EntriesOf(cache))
        BY <1>1, <2>1, EntryOf, TouchedOrders DEF Within
      <3> QED BY <1>1, <3>1, CarriedSame, CarriedStored DEF IInv, Types, Within
    <2>2. CASE "tree" \notin DOMAIN cache[c].e
      BY <1>1, <2>2, SameStored DEF stored, Within
    <2> QED BY <2>1, <2>2
  <1> QED BY <1>1, <1>2, <1>3, WithinNext

LEMMA ServeWithin == ASSUME IInv, Within, Serve PROVE Within'
  <1>1. UNCHANGED stored /\ UNCHANGED kv /\ UNCHANGED described
    BY DEF Serve, offered
  <1>2. PICK m, v : queue' = [queue EXCEPT ![m].ver = v] \/ queue' = [queue EXCEPT ![m].keys = v]
    BY DEF Serve
  <1>3. Len(queue') = Len(queue)
    BY <1>2 DEF IInv, Types
  <1>4. Len(queue') <= MaxCalls /\ described' \subseteq Conns
    BY <1>1, <1>3 DEF Within
  <1> QED BY <1>1, <1>4, SameStored, WithinNext DEF Within

LEMMA TailRoom ==
  ASSUME ConstantsAssumption, Types, Len(queue) <= MaxCalls, served > 0
  PROVE  /\ Head(queue) \in Request /\ Tail(queue) \in Seq(Request)
         /\ Len(Tail(queue)) = Len(queue) - 1 /\ Len(queue) \in Nat /\ Len(queue) - 1 <= MaxCalls
  <1>1. queue \in Seq(Request) /\ Len(queue) \in Nat /\ served \in 0..Len(queue) /\ MaxCalls \in Nat
    BY LenProperties DEF Types, ConstantsAssumption
  <1>2. queue # <<>>
    BY <1>1
  <1> QED BY <1>1, <1>2, HeadTailProperties

LEMMA AnsweredWithin == ASSUME ConstantsAssumption, IInv, Within, Answered PROVE Within'
  <1>1. Types /\ served > 0 /\ Len(queue) <= MaxCalls
    BY DEF IInv, Within, Answered
  <1>2. PICK q \in Request : q = Head(queue)
    BY <1>1, TailRoom
  <1>3. /\ Put(q.c, q.key, sess[q.c], q.ver) /\ queue' = Tail(queue) /\ UNCHANGED kv
        /\ described' = described \union {q.c} \/ UNCHANGED described
    BY <1>2 DEF Answered, offered
  <1>4. q.c \in Conns /\ q.key \in Keys /\ q.ver \in Nat /\ cache \in Caches
    BY <1>1 DEF Request, Types
  <1>5. sess[q.c] \in Hosts
    <2>1. queue \in Seq(Request) /\ queue # <<>>
      BY <1>1 DEF Types
    <2>2. q = queue[1] /\ 1 \in DOMAIN queue
      BY <1>2, <2>1, LenProperties, EmptySeq
    <2>3. sess[q.c] # NoHost /\ sess[q.c] \in Hosts \union {NoHost}
      BY <1>4, <2>2 DEF IInv, Attached, Types
    <2> QED BY <2>3
  <1>6. Stored(cache, lru)'
    BY <1>3, <1>4, <1>5, PutStored DEF Within
  <1>7. described' \subseteq Conns /\ Len(queue') <= MaxCalls
    BY <1>1, <1>3, <1>4, TailRoom DEF Within
  <1> QED BY <1>3, <1>6, <1>7, WithinNext

(* Marking stale gives nothing up.                                           *)
LEMMA MarkedEntries ==
  ASSUME NEW cc \in Caches, NEW c \in Conns, NEW ks, NEW new, new = MarkStale(cc, c, ks)
  PROVE  \A d \in Conns : DOMAIN new[d].e = DOMAIN cc[d].e
  <1>1. PICK f : f = [k \in DOMAIN cc[c].e |-> IF k \in ks THEN [cc[c].e[k] EXCEPT !.stale = TRUE]
                                                 ELSE cc[c].e[k]]
    OBVIOUS
  <1>2. new = [cc EXCEPT ![c].e = f]
    BY <1>1 DEF MarkStale
  <1>3. PICK r \in [fp : Hosts \union {NoHost}, e : Entries] : r = cc[c]
    BY CacheIs
  <1>4. new = [cc EXCEPT ![c] = [r EXCEPT !.e = f]]
    BY <1>2, <1>3 DEF Caches
  <1>5. ASSUME NEW d \in Conns PROVE new[d].e = IF d = c THEN f ELSE cc[d].e
    BY <1>3, <1>4 DEF Caches
  <1> QED BY <1>1, <1>5

LEMMA SameEntries ==
  ASSUME NEW cc, NEW new, \A d \in Conns : DOMAIN new[d].e = DOMAIN cc[d].e
  PROVE  EntriesOf(new) = EntriesOf(cc)
  BY DEF EntriesOf

LEMMA DdlAnsweredWithin == ASSUME ConstantsAssumption, IInv, Within, DdlAnswered PROVE Within'
  <1>1. Types /\ served > 0 /\ Len(queue) <= MaxCalls
    BY DEF IInv, Within, DdlAnswered
  <1>2. PICK q \in Request : q = Head(queue)
    BY <1>1, TailRoom
  <1>3. PICK ks : ks = Targets(q.op)
    OBVIOUS
  <1>4. PICK old, cc : old \in Caches /\ old = cache /\ OfServer(old) /\ cc = MarkStale(old, q.c, ks)
    BY DEF IInv, Types
  <1>5. /\ cache' = cc /\ UNCHANGED lru /\ UNCHANGED kv /\ ForgetColumns(q.c, ks)
        /\ \E again \in {<<>>, <<Load(q.c, "tree")>>} :
             /\ Len(queue) - 1 + Len(again) <= MaxCalls /\ queue' = Tail(queue) \o again
    BY <1>2, <1>3, <1>4 DEF DdlAnswered
  <1>6. q.c \in Conns
    BY DEF Request
  <1>7. cc \in Caches /\ Carried(old, cc) /\ EntriesOf(cc) = EntriesOf(old)
    BY <1>4, <1>6, MarkStaleFacts, MarkedEntries, SameEntries
  <1>8. Stored(cache, lru)'
    <2>1. Orders(lru', EntriesOf(cc))
      BY <1>4, <1>5, <1>7 DEF Within, Stored
    <2> QED BY <1>4, <1>5, <1>7, <2>1, CarriedStored DEF Within
  <1>9. described' \subseteq Conns
    BY <1>5 DEF ForgetColumns, offered, Within
  <1>10. Len(queue') <= MaxCalls
    <2>1. PICK again \in {<<>>, <<Load(q.c, "tree")>>} :
            Len(queue) - 1 + Len(again) <= MaxCalls /\ queue' = Tail(queue) \o again
      BY <1>5
    <2>2. again \in Seq(Request)
      <3>1. PICK r \in Request : r = Load(q.c, "tree")
        BY <1>6, CallsAre
      <3>2. again = <<>> \/ again = <<r>>
        BY <2>1, <3>1
      <3>3. <<r>> \in Seq(Request)
        BY One
      <3> QED BY <3>2, <3>3, EmptySeq
    <2>3. Len(queue') = Len(Tail(queue)) + Len(again)
      BY <1>1, <2>1, <2>2, TailRoom, ConcatProperties
    <2> QED BY <1>1, <2>1, <2>3, TailRoom
  <1> QED BY <1>5, <1>8, <1>9, <1>10, WithinNext

LEMMA RefreshWithin == ASSUME ConstantsAssumption, IInv, Within, Refresh PROVE Within'
  <1>1. PICK open : open = {c \in Conns : sess[c] # NoHost}
    OBVIOUS
  <1>2. PICK cc, hits :
          /\ cc = [c \in Conns |-> IF c \in open THEN MarkStale(cache, c, Keys)[c] ELSE cache[c]]
          /\ hits = {<<c, "tree">> : c \in open} \intersect EntriesOf(cache)
    OBVIOUS
  <1>3. /\ cache' = cc /\ Seeded(focus, cc) /\ UNCHANGED kv
        /\ lru' = Only(lru, ToSet(lru) \ hits) \o Only(lru, hits)
        /\ \E s \in [1..Cardinality(open) -> {Load(c, "tree") : c \in open}] : Sent(s)
    BY <1>1, <1>2 DEF Refresh
  <1>4. PICK old \in Caches : old = cache /\ OfServer(old) /\ Types
    BY DEF IInv, Types
  <1>5. ASSUME NEW c \in Conns
        PROVE  /\ cc[c] \in [fp : Hosts \union {NoHost}, e : Entries]
               /\ DOMAIN cc[c].e = DOMAIN old[c].e
               /\ \A k \in Keys : k \in DOMAIN cc[c].e =>
                    /\ k \in DOMAIN old[c].e
                    /\ cc[c].e[k].host = old[c].e[k].host /\ cc[c].e[k].ver = old[c].e[k].ver
                    /\ old[c].e[k].stale => cc[c].e[k].stale
    <2>1. CASE c \in open
      <3>1. PICK new : new = MarkStale(old, c, Keys)
        OBVIOUS
      <3>2. new \in Caches /\ Carried(old, new) /\ DOMAIN new[c].e = DOMAIN old[c].e
        BY <1>4, <3>1, MarkStaleFacts, MarkedEntries
      <3>3. cc[c] = new[c]
        BY <1>2, <1>4, <2>1, <3>1
      <3>4. new[c] \in [fp : Hosts \union {NoHost}, e : Entries]
        BY <3>2, CacheIs
      <3> QED BY <3>2, <3>3, <3>4 DEF Carried
    <2>2. CASE c \notin open
      <3>1. cc[c] = old[c]
        BY <1>2, <1>4, <2>2
      <3> QED BY <3>1, CacheIs
    <2> QED BY <2>1, <2>2
  <1>6. cc \in Caches /\ Carried(old, cc) /\ EntriesOf(cc) = EntriesOf(old)
    <2>1. cc = [c \in Conns |-> cc[c]]
      BY <1>2
    <2>2. cc \in Caches
      BY <1>5, <2>1 DEF Caches
    <2>3. Carried(old, cc)
      BY <1>5 DEF Carried
    <2> QED BY <1>5, <2>2, <2>3, SameEntries
  <1>7. Stored(cache, lru)'
    <2>1. PICK E : E = EntriesOf(old) /\ Orders(lru, E) /\ ToSet(lru) = E
      BY <1>4, OrdersIs DEF Within, Stored
    <2>2. PICK a, b : /\ a = Only(lru, E \ hits) /\ Orders(a, E \intersect (E \ hits))
                      /\ b = Only(lru, hits) /\ Orders(b, E \intersect hits)
      BY <2>1, OrdersOnly
    <2>3. /\ (E \intersect (E \ hits)) \intersect (E \intersect hits) = {}
          /\ (E \intersect (E \ hits)) \union (E \intersect hits) = E
      OBVIOUS
    <2>4. Orders(a \o b, E)
      BY <2>2, <2>3, OrdersConcat
    <2>5. Orders(lru', EntriesOf(cc))
      BY <1>3, <1>6, <2>1, <2>2, <2>4
    <2> QED BY <1>3, <1>4, <1>6, <2>5, CarriedStored DEF Within
  <1>8. Len(queue') <= MaxCalls
    <2>1. PICK s \in [1..Cardinality(open) -> {Load(c, "tree") : c \in open}] : Sent(s)
      BY <1>3
    <2>2. PICK n \in Nat : n = Cardinality(open)
      <3>1. IsFiniteSet(open)
        BY <1>1, FS_Subset DEF ConstantsAssumption
      <3> QED BY <3>1, FS_CardinalityType
    <2>3. {Load(c, "tree") : c \in open} \subseteq Request
      BY <1>1, CallsAre
    <2>4. s \in [1..n -> Request]
      BY <2>1, <2>2, <2>3
    <2>5. s \in Seq(Request)
      BY <2>4
    <2> QED BY <1>4, <2>1, <2>5, SentRoom
  <1>9. described' \subseteq Conns
    BY <1>3, Seeds
  <1> QED BY <1>3, <1>7, <1>8, <1>9, WithinNext

LEMMA InitWithin == ASSUME ConstantsAssumption, Init PROVE Within
  <1>1. /\ cache = [c \in Conns |-> [fp |-> NoHost, e |-> NoEntries]] /\ lru = <<>>
        /\ kv[1] = cache /\ kv[2] = lru /\ described = {} /\ queue = <<>>
    BY DEF Init, stored
  <1>2. \A c \in Conns : DOMAIN cache[c].e = {}
    BY <1>1 DEF NoEntries
  <1>3. EntriesOf(cache) = {}
    BY <1>2 DEF EntriesOf
  <1>4. CellsOf(cache) = {}
    BY <1>3 DEF CellsOf
  <1>5. TotalSize(cache) <= Cap
    BY <1>4, FS_EmptySet DEF TotalSize, ConstantsAssumption
  <1>6. Orders(lru, {})
    BY <1>1 DEF Orders
  <1>7. Stored(cache, lru)
    BY <1>3, <1>5, <1>6 DEF Stored
  <1>8. Len(queue) <= MaxCalls
    BY <1>1 DEF ConstantsAssumption
  <1> QED BY <1>1, <1>7, <1>8 DEF Within

LEMMA NextWithin == ASSUME ConstantsAssumption, IInv, Within, [Next]_vars PROVE Within'
  <1>1. ASSUME NEW c \in Conns, Connect(c) \/ SessionReplaced(c) PROVE Within'
    BY <1>1, ConnectWithin, ReplacedWithin
  <1>2. ASSUME NEW c \in Conns, Disconnect(c) \/ Focus(c) PROVE Within'
    BY <1>2, CalmWithin DEF Disconnect, Focus, offered, calls
  <1>3. ASSUME NEW c \in Conns, Describe(c) \/ OpenData(c) \/ \E ddl \in Ddls : RunDdl(c, ddl)
        PROVE  Within'
    BY <1>3, CallsWithin
  <1>4. ASSUME NEW c \in Conns, NEW h \in Hosts, EditConnection(c, h) PROVE Within'
    BY <1>4, CalmWithin DEF EditConnection, offered, calls
  <1>5. CASE Refresh
    BY <1>5, RefreshWithin
  <1>6. CASE Serve
    BY <1>6, ServeWithin
  <1>7. CASE Answered \/ DdlAnswered
    BY <1>7, AnsweredWithin, DdlAnsweredWithin
  <1>8. CASE Flush \/ Restart
    BY <1>8, FlushWithin, RestartWithin
  <1>9. CASE UNCHANGED vars
    BY <1>9, CalmWithin DEF vars, offered, calls
  <1>10. ASSUME NEW h \in Hosts, NEW ks \in SUBSET Keys, ChangedUnseen(h, ks) PROVE Within'
    BY <1>10, CalmWithin DEF ChangedUnseen, offered, calls
  <1> QED BY <1>1, <1>2, <1>3, <1>4, <1>5, <1>6, <1>7, <1>8, <1>9, <1>10 DEF Next, Ddls

(* metaCache.ts:16: whatever is put, given up, marked stale, dropped with a   *)
(* connection's server, reloaded or read back after a restart, the cache in   *)
(* memory and the one stored stay within the cap, and the order of use names  *)
(* each entry held exactly once.                                             *)
THEOREM CacheWithinCap == Spec => []TypeOK
  <1>1. ASSUME IInv, Within PROVE TypeOK
    <2>1. TotalSize(cache) <= Cap /\ TotalSize(kv[1]) <= Cap
      BY <1>1 DEF Within, Stored
    <2>2. IsInjective(lru) /\ ToSet(lru) = EntriesOf(cache)
      BY <1>1, OrdersIs DEF Within, Stored
    <2> QED BY <1>1, <2>1, <2>2 DEF TypeOK, IInv, Types, Within
  <1>2. Init => Within
    BY ConstantsAssumption, InitWithin
  <1>3. IInv /\ Within /\ [Next]_vars => Within'
    BY ConstantsAssumption, NextWithin
  <1> QED BY <1>1, <1>2, <1>3, Invariance, PTL DEF Spec
=============================================================================
