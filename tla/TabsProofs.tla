----------------------------- MODULE TabsProofs -----------------------------
(* For any number of tabs, texts and connections: a saved session put off    *)
(* stays on disk; what tabs.ts does to a strip leaves one tab per thing; a   *)
(* text that is closed is kept; and the versions of an id are of one tab.    *)
EXTENDS Tabs, SequenceFacts

(* With the offer up or put off and no work yet, nothing is due to be saved  *)
(* and there is nothing worth it: whatever could write would write nothing.  *)
Types == deferred \in BOOLEAN /\ worked \in BOOLEAN
Waiting == app = "open" /\ (pending # Nothing \/ deferred) /\ ~worked
NothingDue == Waiting => timer = Nothing /\ ~WorthRestoring(ws)
IInv == Types /\ NothingDue

LEMMA EmptyIsNotWorth == ASSUME NEW d PROVE ~WorthRestoring(EmptySession(d))
  <1>0. PICK n : n = IF d = Nothing THEN 0 ELSE d.seq
    OBVIOUS
  <1>1. PICK e : e = EmptySession(d) /\ e.tabs = <<>>
    <2>1. EmptySession(d) = [tabs |-> <<>>, seq |-> n]
      BY <1>0 DEF EmptySession
    <2> QED BY <2>1
  <1>2. PICK T : Queries(e) = Only(<<>>, T)
    BY <1>1 DEF Queries
  <1>3. PICK S : S = {}
    OBVIOUS
  <1>4. <<>> \in Seq(S)
    OBVIOUS
  <1>5. PICK q : q = Only(<<>>, T) /\ q \in Seq(S)
    BY <1>4, OnlyPicks
  <1>6. Len(q) \in Nat /\ DOMAIN q = 1..Len(q) /\ \A k \in 1..Len(q) : q[k] \in S
    BY <1>5, LenProperties, ElementOfSeq
  <1>7. Len(q) = 0
    <2>1. Len(q) # 0 => 1 \in 1..Len(q)
      BY <1>6
    <2> QED BY <1>3, <1>6, <2>1
  <1>8. DOMAIN q = {} /\ ~(Len(q) > 1)
    BY <1>6, <1>7
  <1> QED BY <1>1, <1>2, <1>5, <1>8 DEF WorthRestoring

(* Every change of the strip goes through Become.                            *)
LEMMA BecomeKeeps ==
  ASSUME IInv, app = "open", NEW s, NEW rec, NEW p, NEW d \in BOOLEAN, Become(s, rec, p, d),
         p # Nothing => pending # Nothing, d => deferred \/ pending # Nothing
  PROVE  IInv'
  <1>1. /\ ws' = s /\ pending' = p /\ deferred' = d /\ app' = app
        /\ timer' = IF p # Nothing \/ KeepsDeferred(d, s) THEN timer ELSE s
        /\ worked' = (worked \/ WorthRestoring(s))
    BY DEF Become
  <1>2. Types'
    BY <1>1 DEF IInv, Types
  <1>3. ASSUME Waiting' PROVE timer' = Nothing /\ ~WorthRestoring(ws)'
    <2>1. ~worked /\ ~WorthRestoring(s) /\ (p # Nothing \/ d)
      BY <1>1, <1>3 DEF Waiting
    <2>2. timer' = timer
      BY <1>1, <2>1 DEF KeepsDeferred
    <2>3. timer = Nothing
      BY <2>1 DEF IInv, NothingDue, Waiting
    <2>4. ws' = s
      BY <1>1
    <2> QED BY <2>1, <2>2, <2>3, <2>4 DEF WorthRestoring
  <1> QED BY <1>2, <1>3 DEF IInv, NothingDue

LEMMA SetTabsKeeps == ASSUME IInv, app = "open", NEW s, SetTabs(s) PROVE IInv'
  BY BecomeKeeps DEF SetTabs, IInv, Types

LEMMA EditKeeps ==
  ASSUME IInv, \/ NewQuery \/ RunFromHistory \/ Open \/ Duplicate \/ Close \/ CloseMany
               \/ CloseAll \/ Pin \/ Bind \/ Type \/ RestoreVersion
  PROVE  IInv'
  <1>1. app = "open"
    BY DEF NewQuery, RunFromHistory, Open, Duplicate, Close, CloseMany, CloseAll, Pin, Bind, Type,
           RestoreVersion, Room, Free
  <1>2. \/ \E s : SetTabs(s)
        \/ \E s, rec : Become(s, rec, pending, deferred)
    BY DEF NewQuery, RunFromHistory, Open, Duplicate, Close, CloseMany, CloseAll, Pin, Bind, Type,
           RestoreVersion
  <1> QED BY <1>1, <1>2, SetTabsKeeps, BecomeKeeps DEF IInv, Types

LEMMA OfferKeeps == ASSUME IInv, Start \/ ResumeSession \/ Discard \/ Later PROVE IInv'
  <1>1. CASE Start
    <2>1. PICK d : d = ParseWorkspace(disk)
      OBVIOUS
    <2>2. PICK empty : empty = EmptySession(d)
      OBVIOUS
    <2>3. PICK offer : offer = Offered(d)
      OBVIOUS
    <2>4. \/ /\ ws' = empty /\ pending' = offer /\ deferred' = FALSE /\ worked' = FALSE
             /\ timer' = IF offer = Nothing THEN empty ELSE Nothing
          \/ deferred' = FALSE /\ worked' = TRUE
          \/ ws' = empty /\ deferred' = TRUE /\ timer' = Nothing /\ worked' = FALSE
      BY <1>1, <2>1, <2>2, <2>3 DEF Start
    <2>5. ~WorthRestoring(empty)
      BY <2>2, EmptyIsNotWorth
    <2>6. ws' = empty => ~WorthRestoring(ws)'
      BY <2>5
    <2> QED BY <2>4, <2>6 DEF IInv, Types, NothingDue, Waiting
  <1>2. CASE ResumeSession \/ Discard \/ Later
    <2>1. app = "open" => \E s, rec : \E d \in BOOLEAN :
            Become(s, rec, Nothing, d) /\ (d => deferred \/ pending # Nothing)
      BY <1>2 DEF ResumeSession, Discard, Later, IInv, Types
    <2>2. app # "open" => IInv'
      BY <1>2 DEF ResumeSession, Discard, Later, Become, IInv, Types, NothingDue, Waiting
    <2> QED BY <2>1, <2>2, BecomeKeeps
  <1> QED BY <1>1, <1>2

LEMMA SaveKeeps ==
  ASSUME IInv, \/ Run \/ Snapshot \/ Save \/ Hide \/ Quit \/ Crash \/ UNCHANGED vars
  PROVE  IInv'
  <1>1. CASE Run \/ Snapshot \/ Save \/ Hide \/ UNCHANGED vars
    <2>1. /\ UNCHANGED <<app, ws, pending, deferred, worked>>
          /\ timer' \in {timer, Nothing}
      BY <1>1 DEF Run, Snapshot, Keep, Save, Hide, Flush, vars
    <2> QED BY <2>1 DEF IInv, Types, NothingDue, Waiting, WorthRestoring
  <1>2. CASE Quit \/ Crash
    BY <1>2 DEF Quit, Crash, Flush, Ends, IInv, Types, NothingDue, Waiting
  <1> QED BY <1>1, <1>2

LEMMA Invariance == Spec => []IInv
  <1>1. Init => IInv
    BY DEF Init, IInv, Types, NothingDue, Waiting
  <1>2. IInv /\ [Next]_vars => IInv'
    BY EditKeeps, OfferKeeps, SaveKeeps DEF Next
  <1> QED BY <1>1, <1>2, PTL DEF Spec

(* "The saved session stays on disk for the next start until there is new    *)
(* work worth saving in its place" (App.tsx:630): through hiding, leaving    *)
(* and dying, and whatever save was due.                                     *)
THEOREM SavedSessionStays == Spec => OfferIsKept
  <1>1. IInv /\ [Next]_vars =>
          [app = "open" /\ (pending # Nothing \/ deferred) /\ ~worked => disk' = disk]_vars
    <2> SUFFICES ASSUME IInv, Next, Waiting PROVE disk' = disk
      BY DEF Waiting
    <2>1. timer = Nothing /\ ~WorthRestoring(ws) /\ app = "open"
          /\ (pending # Nothing \/ deferred)
      BY DEF IInv, NothingDue, Waiting
    <2>2. Flushed(deferred) = Nothing
      BY <2>1 DEF Flushed, KeepsDeferred
    <2>3. CASE Hide \/ Quit \/ Crash \/ Save \/ Start
      BY <2>1, <2>2, <2>3 DEF Hide, Quit, Flush, Crash, Ends, Save, Start
    <2>4. CASE Run \/ Snapshot
      BY <2>4 DEF Run, Snapshot, Keep
    <2>5. CASE \/ NewQuery \/ RunFromHistory \/ Open \/ Duplicate \/ Close \/ CloseMany
               \/ CloseAll \/ Pin \/ Bind \/ Type \/ RestoreVersion
               \/ ResumeSession \/ Discard \/ Later
      <3>1. \E s, rec, p, d : Become(s, rec, p, d)
        BY <2>5 DEF NewQuery, RunFromHistory, Open, Duplicate, Close, CloseMany, CloseAll, Pin,
                    Bind, Type, RestoreVersion, ResumeSession, Discard, Later, SetTabs
      <3> QED BY <3>1 DEF Become
    <2> QED BY <2>3, <2>4, <2>5 DEF Next
  <1> QED BY <1>1, Invariance, PTL DEF Spec, OfferIsKept

----------------------------------------------------------------------------
(* The strips: the one on screen, the one offered, the one to be saved and   *)
(* the one on disk. Each keeps its ids under its seq, and no two of its tabs *)
(* have one id or are for one thing.                                         *)
Same(a, b) == a.of = b.of /\ a.of # "plain" /\ (a.of = "snippet" \/ a.conn = b.conn)
WellFormed(s) ==
  /\ s \in TabState
  /\ \A i \in DOMAIN s.tabs : s.tabs[i].id <= s.seq
  /\ \A i, j \in DOMAIN s.tabs :
       s.tabs[i].id = s.tabs[j].id \/ Same(s.tabs[i], s.tabs[j]) => i = j
Strips ==
  /\ WellFormed(ws) /\ born \in Nat
  /\ \A s \in {pending, timer, disk} : s = Nothing \/ WellFormed(s)

(* Tabs of s, each at most once; or the same but for what a tab may change:  *)
(* text, pin, and the connection of a query.                                 *)
Like(a, b) ==
  /\ a.id = b.id /\ a.doc = b.doc /\ a.of = b.of
  /\ a.conn = b.conn \/ a.of \in {"plain", "snippet"}
Takes(q, s, w) ==
  /\ w \in [DOMAIN q -> DOMAIN s]
  /\ \A i \in DOMAIN q : q[i] = s[w[i]]
  /\ \A i, j \in DOMAIN q : w[i] = w[j] => i = j
Taken(q, s) == \E w : Takes(q, s, w)
Drawn(q, s) ==
  \E w \in [DOMAIN q -> DOMAIN s] :
    /\ \A i \in DOMAIN q : Like(q[i], s[w[i]])
    /\ \A i, j \in DOMAIN q : w[i] = w[j] => i = j

(* The tab of an id in a strip, by the one name that is never used again.    *)
Has(s, id, d) == \E k \in DOMAIN s.tabs : s.tabs[k].id = id /\ s.tabs[k].doc = d

LEMMA LargestIs ==
  ASSUME NEW S, S \subseteq Int, NEW n \in S, \A m \in S : m <= n PROVE Largest(S) = n
  <1>1. Largest(S) \in S /\ \A m \in S : m <= Largest(S)
    BY DEF Largest
  <1>2. PICK l : l = Largest(S)
    OBVIOUS
  <1>3. l \in Int /\ n \in Int /\ l <= n /\ n <= l
    BY <1>1, <1>2
  <1> QED BY <1>2, <1>3

LEMMA StripShape ==
  ASSUME NEW s \in TabState
  PROVE  /\ s.tabs \in Seq(Tab) /\ s.seq \in Nat /\ s = [tabs |-> s.tabs, seq |-> s.seq]
         /\ Len(s.tabs) \in Nat /\ DOMAIN s.tabs = 1..Len(s.tabs)
         /\ \A i \in DOMAIN s.tabs : s.tabs[i] \in Tab /\ s.tabs[i].id \in Nat /\ s.tabs[i].doc \in Nat
  <1>1. s.tabs \in Seq(Tab) /\ s.seq \in Nat /\ s = [tabs |-> s.tabs, seq |-> s.seq]
    BY DEF TabState
  <1>2. Len(s.tabs) \in Nat /\ DOMAIN s.tabs = 1..Len(s.tabs)
        /\ \A i \in DOMAIN s.tabs : s.tabs[i] \in Tab
    BY <1>1, LenProperties
  <1> QED BY <1>1, <1>2 DEF Tab

LEMMA TopIs == ASSUME NEW s, WellFormed(s) PROVE Top(s) = s.seq
  <1>1. /\ s.seq \in Nat /\ \A i \in DOMAIN s.tabs : s.tabs[i].id \in Nat /\ s.tabs[i].id <= s.seq
    BY StripShape DEF WellFormed
  <1> DEFINE S == {s.seq} \cup Ids(s)
  <1>2. S \subseteq Int /\ s.seq \in S /\ \A m \in S : m <= s.seq
    BY <1>1 DEF Ids
  <1> HIDE DEF S
  <1>3. Largest(S) = s.seq
    BY <1>2, LargestIs
  <1> QED BY <1>3 DEF Top, S

LEMMA AtIs ==
  ASSUME NEW s, NEW id \in Ids(s)
  PROVE  At(s, id) \in DOMAIN s.tabs /\ s.tabs[At(s, id)].id = id
  <1>1. \E k \in DOMAIN s.tabs : s.tabs[k].id = id
    BY DEF Ids
  <1> QED BY <1>1 DEF At

LEMMA TakenIsDrawn == ASSUME NEW q, NEW s, Taken(q, s) PROVE Drawn(q, s)
  BY DEF Taken, Takes, Drawn, Like

LEMMA TakenTwice ==
  ASSUME NEW q, NEW r, NEW s, Taken(q, r), Taken(r, s) PROVE Taken(q, s)
  <1>1. PICK v \in [DOMAIN q -> DOMAIN r] :
          /\ \A i \in DOMAIN q : q[i] = r[v[i]]
          /\ \A i, j \in DOMAIN q : v[i] = v[j] => i = j
    BY DEF Taken, Takes
  <1>2. PICK w \in [DOMAIN r -> DOMAIN s] :
          /\ \A i \in DOMAIN r : r[i] = s[w[i]]
          /\ \A i, j \in DOMAIN r : w[i] = w[j] => i = j
    BY DEF Taken, Takes
  <1> DEFINE u == [i \in DOMAIN q |-> w[v[i]]]
  <1>3. /\ u \in [DOMAIN q -> DOMAIN s] /\ \A i \in DOMAIN q : q[i] = s[u[i]]
        /\ \A i, j \in DOMAIN q : u[i] = u[j] => i = j
    BY <1>1, <1>2
  <1> QED BY <1>3 DEF Taken, Takes

(* Taking tabs away, or changing what may change, leaves a strip as good.    *)
LEMMA DrawnIsWell ==
  ASSUME NEW s, WellFormed(s), NEW q \in Seq(Tab), Drawn(q, s.tabs), NEW r, r = [s EXCEPT !.tabs = q]
  PROVE  /\ WellFormed(r) /\ r.tabs = q /\ r.seq = s.seq
         /\ \A id, d : Has(r, id, d) => Has(s, id, d)
  <1>1. PICK w \in [DOMAIN q -> DOMAIN s.tabs] :
          /\ \A i \in DOMAIN q : Like(q[i], s.tabs[w[i]])
          /\ \A i, j \in DOMAIN q : w[i] = w[j] => i = j
    BY DEF Drawn
  <1>2. s \in TabState
    BY DEF WellFormed
  <1>3. r = [tabs |-> q, seq |-> s.seq] /\ s.seq \in Nat
    BY <1>2, StripShape
  <1>4. r \in TabState /\ r.tabs = q /\ r.seq = s.seq
    BY <1>3 DEF TabState
  <1>5. \A i \in DOMAIN q : q[i].id <= s.seq
    BY <1>1 DEF WellFormed, Like
  <1>6. ASSUME NEW i \in DOMAIN q, NEW j \in DOMAIN q, q[i].id = q[j].id \/ Same(q[i], q[j])
        PROVE  i = j
    <2>1. PICK a, b, c, e : /\ a = s.tabs[w[i]] /\ b = s.tabs[w[j]] /\ c = q[i] /\ e = q[j]
                            /\ Like(c, a) /\ Like(e, b)
      BY <1>1
    <2>2. a.id = b.id \/ Same(a, b)
      BY <2>1, <1>6 DEF Like, Same
    <2>3. w[i] = w[j]
      BY <1>1, <2>1, <2>2 DEF WellFormed
    <2> QED BY <1>1, <2>3
  <1>7. WellFormed(r)
    BY <1>4, <1>5, <1>6 DEF WellFormed
  <1>8. \A id, d : Has(r, id, d) => Has(s, id, d)
    BY <1>1, <1>4 DEF Has, Like
  <1> QED BY <1>4, <1>7, <1>8

(* A tab for a thing that no tab of a strip is for.                          *)
Alone(t, s) == \A k \in DOMAIN s.tabs : ~Same(t, s.tabs[k])

(* The tabs of x and one more, at n.                                         *)
Extra(q, x, n, w) ==
  /\ n \in DOMAIN q /\ w \in [DOMAIN q \ {n} -> DOMAIN x]
  /\ \A i \in DOMAIN q \ {n} : q[i] = x[w[i]]
  /\ \A i, j \in DOMAIN q \ {n} : w[i] = w[j] => i = j

(* One more tab, with the next id and for a thing no other tab is for.       *)
LEMMA OneMoreIsWell ==
  ASSUME NEW s, NEW q, NEW n, NEW w, WellFormed(s), q \in Seq(Tab), Extra(q, s.tabs, n, w),
         q[n].id = s.seq + 1, Alone(q[n], s)
  PROVE  LET r == [tabs |-> q, seq |-> s.seq + 1] IN
         /\ WellFormed(r) /\ r.seq = s.seq + 1
         /\ \A id, d : Has(r, id, d) => Has(s, id, d) \/ (id = s.seq + 1 /\ d = q[n].doc)
  <1>0. PICK r, t : r = [tabs |-> q, seq |-> s.seq + 1] /\ t = q[n]
    OBVIOUS
  <1> USE DEF Extra, Alone
  <1>1. s.seq \in Nat /\ \A i \in DOMAIN s.tabs : s.tabs[i].id \in Nat /\ s.tabs[i].id <= s.seq
    BY StripShape DEF WellFormed
  <1>2. r \in TabState /\ r.tabs = q /\ r.seq = s.seq + 1
    BY <1>0, <1>1 DEF TabState
  <1>3. \A i \in DOMAIN q : q[i].id <= s.seq + 1
    <2>1. \A i \in DOMAIN q \ {n} : q[i].id \in Nat /\ q[i].id <= s.seq
      BY <1>1
    <2> QED BY <1>1, <2>1
  <1>4. ASSUME NEW i \in DOMAIN q, NEW j \in DOMAIN q, q[i].id = q[j].id \/ Same(q[i], q[j])
        PROVE  i = j
    <2>1. \A k \in DOMAIN q \ {n} : /\ q[k].id # t.id /\ ~Same(t, q[k]) /\ ~Same(q[k], t)
      BY SMTT(30), <1>0, <1>1 DEF Same
    <2>2. CASE i = n \/ j = n
      BY <1>0, <2>1, <2>2, <1>4
    <2>3. CASE i # n /\ j # n
      <3>1. w[i] = w[j]
        BY <2>3, <1>4 DEF WellFormed
      <3> QED BY <2>3, <3>1
    <2> QED BY <2>2, <2>3
  <1>5. WellFormed(r)
    BY <1>2, <1>3, <1>4 DEF WellFormed
  <1>6. \A id, d : Has(r, id, d) => Has(s, id, d) \/ (id = s.seq + 1 /\ d = t.doc)
    BY <1>0, <1>2 DEF Has
  <1> QED BY <1>0, <1>2, <1>5, <1>6

----------------------------------------------------------------------------
(* What tabs.ts does to a strip.                                             *)

LEMMA OnlyTaken ==
  ASSUME NEW s \in Seq(Tab), NEW T
  PROVE  /\ Only(s, T) \in Seq(Tab) /\ Taken(Only(s, T), s)
         /\ \A i \in DOMAIN Only(s, T) : Only(s, T)[i] \in T
         /\ \A k \in DOMAIN s : s[k] \in T => \E i \in DOMAIN Only(s, T) : Only(s, T)[i] = s[k]
  <1>1. PICK S : S = Tab
    OBVIOUS
  <1>2. s \in Seq(S)
    BY <1>1
  <1>3. PICK q : q = Only(s, T)
    OBVIOUS
  <1>4. q \in Seq(S)
    BY <1>2, <1>3, OnlyPicks
  <1>5. PICK p \in [DOMAIN q -> DOMAIN s] :
           /\ \A i \in DOMAIN q : q[i] = s[p[i]] /\ s[p[i]] \in T
           /\ \A i, j \in DOMAIN q : p[i] = p[j] => i = j
           /\ \A k \in DOMAIN s : s[k] \in T => \E i \in DOMAIN q : p[i] = k
    BY <1>2, <1>3, OnlyKeeps
  <1>6. Taken(q, s)
    BY <1>5 DEF Taken, Takes
  <1>7. /\ \A i \in DOMAIN q : q[i] \in T
        /\ \A k \in DOMAIN s : s[k] \in T => \E i \in DOMAIN q : q[i] = s[k]
    BY <1>5
  <1> QED BY <1>1, <1>3, <1>4, <1>6, <1>7

(* Two takings that share no place, one after the other.                     *)
LEMMA JoinedTaken ==
  ASSUME NEW s \in Seq(Tab), NEW a \in Seq(Tab), NEW b \in Seq(Tab), NEW v, NEW w,
         Takes(a, s, v), Takes(b, s, w), \A i \in DOMAIN a, j \in DOMAIN b : v[i] # w[j]
  PROVE  a \o b \in Seq(Tab) /\ Taken(a \o b, s)
  <1>1. PICK m, n : /\ m = Len(a) /\ n = Len(b) /\ m \in Nat /\ n \in Nat
                    /\ DOMAIN a = 1..m /\ DOMAIN b = 1..n
    BY LenProperties
  <1>2. PICK q : q = a \o b
    OBVIOUS
  <1>3. /\ q \in Seq(Tab) /\ DOMAIN q = 1..(m + n)
        /\ \A i \in 1..(m + n) : q[i] = IF i <= m THEN a[i] ELSE b[i - m]
    <2>1. /\ q \in Seq(Tab) /\ Len(q) = m + n
          /\ \A i \in 1..(m + n) : q[i] = IF i <= m THEN a[i] ELSE b[i - m]
      BY <1>1, <1>2, ConcatProperties
    <2> QED BY <2>1, LenProperties
  <1> DEFINE u == [i \in 1..(m + n) |-> IF i <= m THEN v[i] ELSE w[i - m]]
  <1>4. \A i \in 1..(m + n) :
          \/ i <= m /\ i \in DOMAIN a /\ u[i] = v[i] /\ q[i] = a[i]
          \/ ~(i <= m) /\ i - m \in DOMAIN b /\ u[i] = w[i - m] /\ q[i] = b[i - m]
    BY <1>1, <1>3
  <1>5. u \in [DOMAIN q -> DOMAIN s]
    BY <1>3, <1>4 DEF Takes
  <1> HIDE DEF u
  <1>6. ASSUME NEW i \in DOMAIN q PROVE q[i] = s[u[i]]
    <2>1. i \in 1..(m + n)
      BY <1>3
    <2>2. CASE i <= m
      <3>1. i \in DOMAIN a /\ u[i] = v[i] /\ q[i] = a[i]
        BY <2>1, <2>2, <1>4
      <3> QED BY <3>1 DEF Takes
    <2>3. CASE ~(i <= m)
      <3>1. i - m \in DOMAIN b /\ u[i] = w[i - m] /\ q[i] = b[i - m]
        BY <2>1, <2>3, <1>4
      <3> QED BY <3>1 DEF Takes
    <2> QED BY <2>2, <2>3
  <1>7. ASSUME NEW i \in DOMAIN q, NEW j \in DOMAIN q, u[i] = u[j] PROVE i = j
    <2>1. i \in 1..(m + n) /\ j \in 1..(m + n)
      BY <1>3
    <2>2. CASE i <= m
      <3>1. i \in DOMAIN a /\ u[i] = v[i]
        BY <2>1, <2>2, <1>4
      <3>2. j \in DOMAIN a /\ u[j] = v[j]
        BY <3>1, <2>1, <1>4, <1>7
      <3> QED BY <3>1, <3>2, <1>7 DEF Takes
    <2>3. CASE ~(i <= m)
      <3>1. i - m \in DOMAIN b /\ u[i] = w[i - m]
        BY <2>1, <2>3, <1>4
      <3>2. j - m \in DOMAIN b /\ u[j] = w[j - m]
        BY <3>1, <2>1, <1>4, <1>7
      <3>3. i - m = j - m
        BY <3>1, <3>2, <1>7 DEF Takes
      <3> QED BY <3>3, <2>1, <1>1
    <2> QED BY <2>2, <2>3
  <1>8. Takes(q, s, u)
    BY <1>5, <1>6, <1>7 DEF Takes
  <1> QED BY <1>2, <1>3, <1>8 DEF Taken

(* A stretch of a sequence.                                                  *)
LEMMA StretchTaken ==
  ASSUME NEW s \in Seq(Tab), NEW m \in Nat \ {0}
  PROVE  LET q == SubSeq(s, m, Len(s)) IN
         /\ q \in Seq(Tab) /\ Taken(q, s)
         /\ \A j \in DOMAIN s : j >= m => \E i \in DOMAIN q : q[i] = s[j]
  <1>1. PICK n : n = Len(s) /\ n \in Nat /\ DOMAIN s = 1..n
    BY LenProperties
  <1>2. \A i \in m..n : s[i] \in Tab
    BY <1>1, ElementOfSeq
  <1>3. PICK q : q = SubSeq(s, m, n)
    OBVIOUS
  <1>4. /\ q \in Seq(Tab) /\ Len(q) = IF m <= n THEN n - m + 1 ELSE 0
        /\ \A i \in 1..(n - m + 1) : q[i] = s[m + i - 1]
    BY <1>1, <1>2, <1>3, SubSeqProperties
  <1>5. DOMAIN q = 1..Len(q)
    BY <1>4, LenProperties
  <1>6. \A i \in DOMAIN q : i \in 1..(n - m + 1) /\ m + i - 1 \in 1..n
    BY <1>1, <1>4, <1>5
  <1> DEFINE w == [i \in DOMAIN q |-> m + i - 1]
  <1>7. w \in [DOMAIN q -> DOMAIN s] /\ \A i \in DOMAIN q : q[i] = s[w[i]]
    BY <1>1, <1>4, <1>6
  <1>8. \A i, j \in DOMAIN q : w[i] = w[j] => i = j
    BY <1>1, <1>6
  <1>9. Taken(q, s)
    BY <1>7, <1>8 DEF Taken, Takes
  <1>10. ASSUME NEW j \in DOMAIN s, j >= m PROVE \E i \in DOMAIN q : q[i] = s[j]
    <2>1. j - m + 1 \in 1..(n - m + 1) /\ m + (j - m + 1) - 1 = j /\ j - m + 1 \in DOMAIN q
      BY <1>1, <1>4, <1>5, <1>10
    <2>2. q[j - m + 1] = s[j]
      BY <2>1, <1>4
    <2> QED BY <2>1, <2>2
  <1> QED BY <1>1, <1>3, <1>4, <1>9, <1>10

LEMMA QueriesAre ==
  ASSUME NEW s \in TabState
  PROVE  /\ Queries(s) \in Seq(Tab) /\ Taken(Queries(s), s.tabs)
         /\ \A i \in DOMAIN Queries(s) : IsQuery(Queries(s)[i])
         /\ \A k \in DOMAIN s.tabs : IsQuery(s.tabs[k]) => \E i \in DOMAIN Queries(s) : Queries(s)[i] = s.tabs[k]
  <1>1. PICK x, T : x = s.tabs /\ x \in Seq(Tab) /\ T = {t \in ToSet(x) : IsQuery(t)}
    BY StripShape
  <1>. x \in Seq(Tab)
    BY <1>1
  <1>2. PICK q : q = Only(x, T)
    OBVIOUS
  <1>3. q = Queries(s)
    BY <1>1, <1>2 DEF Queries
  <1>4. /\ q \in Seq(Tab) /\ Taken(q, x) /\ \A i \in DOMAIN q : q[i] \in T
        /\ \A k \in DOMAIN x : x[k] \in T => \E i \in DOMAIN q : q[i] = x[k]
    BY <1>2, OnlyTaken
  <1>5. \A k \in DOMAIN x : x[k] \in ToSet(x)
    BY DEF ToSet
  <1> QED BY <1>1, <1>3, <1>4, <1>5

(* Closing tabs, and what is written to disk.                                *)
LEMMA TakenIsWell ==
  ASSUME NEW s, WellFormed(s), NEW q \in Seq(Tab), Taken(q, s.tabs), NEW r, r = [s EXCEPT !.tabs = q]
  PROVE  /\ WellFormed(r) /\ r.tabs = q /\ r.seq = s.seq
         /\ \A id, d : Has(r, id, d) => Has(s, id, d)
  BY TakenIsDrawn, DrawnIsWell

LEMMA SavedIsWell ==
  ASSUME NEW s, WellFormed(s)
  PROVE  LET r == SerializeWorkspace(s) IN
         /\ WellFormed(r) /\ r.seq = s.seq
         /\ \A id, d : Has(r, id, d) => Has(s, id, d)
         /\ \A j \in DOMAIN Queries(s) : j + MaxRestored > Len(Queries(s)) =>
              \E i \in DOMAIN r.tabs : r.tabs[i] = Queries(s)[j]
  <1>1. s \in TabState /\ s.seq \in Nat /\ s = [tabs |-> s.tabs, seq |-> s.seq]
    BY StripShape DEF WellFormed
  <1>2. PICK q : q = Queries(s)
    OBVIOUS
  <1>3. q \in Seq(Tab) /\ Taken(q, s.tabs)
    BY <1>1, <1>2, QueriesAre
  <1>4. PICK n : n = Len(q) /\ n \in Nat /\ DOMAIN q = 1..n
    BY <1>3, LenProperties
  <1>5. PICK m : m = Largest({1, n + 1 - MaxRestored})
    OBVIOUS
  <1>6. m \in Nat \ {0} /\ m >= n + 1 - MaxRestored /\ (m = 1 \/ m = n + 1 - MaxRestored)
    <2>1. MaxRestored \in Nat
      BY TabsAssumption
    <2>2. CASE n + 1 - MaxRestored <= 1
      <3>0. PICK S : /\ S = {1, n + 1 - MaxRestored} /\ S \subseteq Int
                     /\ 1 \in S /\ \A x \in S : x <= 1
        <4>1. PICK S : S = {1, n + 1 - MaxRestored}
          OBVIOUS
        <4>2. n + 1 - MaxRestored \in Int
          BY <2>1, <1>4
        <4> QED BY <2>2, <4>1, <4>2
      <3>1. m = 1
        BY <3>0, <1>5, LargestIs
      <3> QED BY <3>1, <2>1, <2>2, <1>4
    <2>3. CASE ~(n + 1 - MaxRestored <= 1)
      <3>0. PICK S, l : /\ S = {1, l} /\ S \subseteq Int /\ l = n + 1 - MaxRestored
                        /\ l \in S /\ \A x \in S : x <= l
        <4>1. PICK l \in Int : l = n + 1 - MaxRestored
          BY <2>1, <1>4
        <4>2. PICK S : S = {1, l}
          OBVIOUS
        <4>3. l > 1
          BY <2>3, <4>1
        <4>4. S \subseteq Int /\ l \in S /\ \A x \in S : x <= l
          BY <4>2, <4>3
        <4> QED BY <4>1, <4>2, <4>4
      <3>1. m = n + 1 - MaxRestored
        BY <3>0, <1>5, LargestIs
      <3> QED BY <3>1, <2>1, <2>3, <1>4
    <2> QED BY <2>2, <2>3
  <1>7. PICK kept : kept = SubSeq(q, m, n)
    OBVIOUS
  <1>8. /\ kept \in Seq(Tab) /\ Taken(kept, q)
        /\ \A j \in DOMAIN q : j >= m => \E i \in DOMAIN kept : kept[i] = q[j]
    BY <1>3, <1>4, <1>6, <1>7, StretchTaken
  <1>9. Taken(kept, s.tabs)
    BY <1>3, <1>8, TakenTwice
  <1>10. PICK r : r = [s EXCEPT !.tabs = kept]
    OBVIOUS
  <1>11. /\ WellFormed(r) /\ r.tabs = kept /\ r.seq = s.seq
         /\ \A id, d : Has(r, id, d) => Has(s, id, d)
    BY <1>8, <1>9, <1>10, TakenIsWell
  <1>12. r = [tabs |-> kept, seq |-> s.seq]
    BY <1>1, <1>10
  <1>13. PICK S : S = {s.seq} \cup {kept[k].id : k \in DOMAIN kept}
    OBVIOUS
  <1>14. Largest(S) = s.seq
    <2>1. \A k \in DOMAIN kept : kept[k].id \in Nat /\ kept[k].id <= s.seq
      BY <1>11, StripShape DEF WellFormed
    <2>2. S \subseteq Int /\ s.seq \in S /\ \A x \in S : x <= s.seq
      BY <1>1, <1>13, <2>1
    <2> QED BY <2>2, LargestIs
  <1>15. SerializeWorkspace(s) = r
    BY <1>2, <1>4, <1>5, <1>7, <1>12, <1>13, <1>14 DEF SerializeWorkspace
  <1>16. \A j \in DOMAIN q : j + MaxRestored > n => j >= m
    BY <1>4, <1>6, TabsAssumption
  <1> QED BY <1>2, <1>4, <1>8, <1>11, <1>15, <1>16

LEMMA ParsedIs ==
  ASSUME NEW d, d = Nothing \/ WellFormed(d)
  PROVE  /\ ParseWorkspace(d) = Nothing <=> d = Nothing \/ d.tabs = <<>>
         /\ ParseWorkspace(d) = Nothing \/ ParseWorkspace(d) = d
  <1>1. CASE d = Nothing
    BY <1>1 DEF ParseWorkspace
  <1>2. CASE d # Nothing
    <2>1. WellFormed(d) /\ d \in TabState
      BY <1>2 DEF WellFormed
    <2>2. [d EXCEPT !.seq = Top(d)] = d
      BY <2>1, TopIs, StripShape
    <2> QED BY <1>2, <2>2 DEF ParseWorkspace
  <1> QED BY <1>1, <1>2

LEMMA EmptyIsWell ==
  ASSUME NEW d, d = Nothing \/ d.seq \in Nat
  PROVE  /\ WellFormed(EmptySession(d)) /\ EmptySession(d).seq = (IF d = Nothing THEN 0 ELSE d.seq)
         /\ EmptySession(d).tabs = <<>> /\ \A id, x : ~Has(EmptySession(d), id, x)
  <1>1. PICK n : n = (IF d = Nothing THEN 0 ELSE d.seq) /\ n \in Nat
    OBVIOUS
  <1>2. PICK e : e = [tabs |-> <<>>, seq |-> n] /\ e = EmptySession(d)
    BY <1>1 DEF EmptySession
  <1>3. e.tabs = <<>> /\ e.seq = n /\ e \in TabState /\ DOMAIN e.tabs = {}
    <2>1. <<>> \in Seq(Tab) /\ DOMAIN <<>> = {}
      OBVIOUS
    <2> QED BY <2>1, <1>1, <1>2 DEF TabState
  <1> QED BY <1>1, <1>2, <1>3 DEF WellFormed, Has

(* What the next strip may have: the tabs of this one and a new one.         *)
Grown(s) ==
  /\ WellFormed(s) /\ s.seq \in {ws.seq, ws.seq + 1}
  /\ \E e : \A id, d : Has(s, id, d) => Has(ws, id, d) \/ (s.seq = ws.seq + 1 /\ id = s.seq /\ d = e)

Written(s) == \E i \in DOMAIN s.tabs : IsQuery(s.tabs[i]) /\ s.tabs[i].text # Blank

LEMMA TakenGrows ==
  ASSUME WellFormed(ws), NEW q \in Seq(Tab), Taken(q, ws.tabs)
  PROVE  LET r == [ws EXCEPT !.tabs = q] IN Grown(r) /\ (Written(r) => Written(ws))
  <1>1. PICK r : r = [ws EXCEPT !.tabs = q]
    OBVIOUS
  <1>2. WellFormed(r) /\ r.tabs = q /\ r.seq = ws.seq /\ \A id, d : Has(r, id, d) => Has(ws, id, d)
    BY <1>1, TakenIsWell
  <1>3. \A i \in DOMAIN q : \E j \in DOMAIN ws.tabs : q[i] = ws.tabs[j]
    BY DEF Taken, Takes
  <1>4. Written(r) => Written(ws)
    BY <1>2, <1>3 DEF Written
  <1> QED BY <1>1, <1>2, <1>4 DEF Grown

LEMMA ChangedGrows ==
  ASSUME WellFormed(ws), NEW k \in DOMAIN ws.tabs, NEW t \in Tab, Like(t, ws.tabs[k])
  PROVE  Grown([ws EXCEPT !.tabs = [ws.tabs EXCEPT ![k] = t]])
  <1>1. PICK q : q = [ws.tabs EXCEPT ![k] = t]
    OBVIOUS
  <1>2. ws.tabs \in Seq(Tab) /\ DOMAIN ws.tabs = 1..Len(ws.tabs)
    BY StripShape DEF WellFormed
  <1>3. q \in Seq(Tab)
    BY <1>1, <1>2, ExceptSeq
  <1>4. DOMAIN q = DOMAIN ws.tabs /\ q[k] = t /\ \A i \in DOMAIN q : i # k => q[i] = ws.tabs[i]
    BY <1>1
  <1>5. \A i \in DOMAIN q : Like(q[i], ws.tabs[i])
    BY <1>4 DEF Like
  <1> DEFINE w == [i \in DOMAIN q |-> i]
  <1>6. w \in [DOMAIN q -> DOMAIN ws.tabs] /\ \A i \in DOMAIN q : w[i] = i
    BY <1>4
  <1> HIDE DEF w
  <1>7. Drawn(q, ws.tabs)
    BY <1>5, <1>6 DEF Drawn
  <1>8. PICK r : r = [ws EXCEPT !.tabs = q]
    OBVIOUS
  <1>9. WellFormed(r) /\ r.seq = ws.seq /\ \A id, d : Has(r, id, d) => Has(ws, id, d)
    BY <1>3, <1>7, <1>8, DrawnIsWell
  <1> QED BY <1>1, <1>8, <1>9 DEF Grown

LEMMA NewTabIs ==
  ASSUME WellFormed(ws), born \in Nat, NEW of \in {"plain", "object", "snippet", "tool"},
         NEW c \in Conns \cup {NoConn}, NEW x \in Texts \cup {Blank}
  PROVE  LET t == NewTab(ws, of, c, x) IN
         t \in Tab /\ t.id = ws.seq + 1 /\ t.of = of /\ t.conn = c /\ t.text = x
  <1>1. Top(ws) = ws.seq /\ ws.seq \in Nat
    BY TopIs, StripShape DEF WellFormed
  <1> QED BY <1>1 DEF NewTab, Tab

LEMMA AddGrows ==
  ASSUME WellFormed(ws), NEW t \in Tab, t.id = ws.seq + 1, Alone(t, ws)
  PROVE  LET r == AddTab(ws, t) IN
         /\ Grown(r) /\ Has(r, t.id, t.doc) /\ (\E i \in DOMAIN r.tabs : r.tabs[i] = t)
         /\ Written(r) => Written(ws) \/ t.text # Blank
  <1>1. PICK x : x = ws.tabs
    OBVIOUS
  <1>2. x \in Seq(Tab) /\ Len(x) \in Nat /\ DOMAIN x = 1..Len(x) /\ ws.seq \in Nat
    BY <1>1, StripShape DEF WellFormed
  <1>3. PICK q, n : q = Append(x, t) /\ n = Len(x) + 1
    OBVIOUS
  <1>4. /\ q \in Seq(Tab) /\ DOMAIN q = 1..n /\ q[n] = t /\ \A i \in 1..Len(x) : q[i] = x[i]
    BY <1>2, <1>3, AppendProperties, LenProperties
  <1>5. n \in DOMAIN q /\ DOMAIN q \ {n} = DOMAIN x
    BY <1>2, <1>3, <1>4
  <1> DEFINE w == [i \in DOMAIN x |-> i]
  <1>6. w \in [DOMAIN q \ {n} -> DOMAIN ws.tabs] /\ \A i \in DOMAIN q \ {n} : w[i] = i
    BY <1>1, <1>5
  <1> HIDE DEF w
  <1>7. \A i \in DOMAIN q \ {n} : q[i] = ws.tabs[w[i]]
    BY <1>1, <1>2, <1>4, <1>5, <1>6
  <1>8. PICK r : r = [tabs |-> q, seq |-> ws.seq + 1]
    OBVIOUS
  <1>9. /\ WellFormed(r) /\ r.seq = ws.seq + 1
        /\ \A id, d : Has(r, id, d) => Has(ws, id, d) \/ (id = ws.seq + 1 /\ d = t.doc)
    <2>1. Extra(q, ws.tabs, n, w)
      BY <1>5, <1>6, <1>7 DEF Extra
    <2>2. PICK v, s : v = w /\ s = ws
      OBVIOUS
    <2>3. /\ WellFormed(s) /\ t.id = s.seq + 1 /\ Alone(t, s) /\ Extra(q, s.tabs, n, v)
          /\ r = [tabs |-> q, seq |-> s.seq + 1] /\ q \in Seq(Tab) /\ q[n] = t
      BY <1>4, <1>8, <2>1, <2>2
    <2>4. /\ WellFormed(r) /\ r.seq = s.seq + 1
          /\ \A id, d : Has(r, id, d) => Has(s, id, d) \/ (id = s.seq + 1 /\ d = t.doc)
      <3>1. q[n].id = s.seq + 1 /\ Alone(q[n], s)
        BY <2>3
      <3>2. LET y == [tabs |-> q, seq |-> s.seq + 1] IN
            /\ WellFormed(y) /\ y.seq = s.seq + 1
            /\ \A id, d : Has(y, id, d) => Has(s, id, d) \/ (id = s.seq + 1 /\ d = q[n].doc)
        BY <2>3, <3>1, OneMoreIsWell
      <3> QED BY <2>3, <3>2
    <2> QED BY <2>2, <2>4
  <1>10. AddTab(ws, t) = r
    BY <1>1, <1>3, <1>8 DEF AddTab
  <1>11. Grown(r)
    BY <1>9 DEF Grown
  <1>12. r.tabs = q
    BY <1>8
  <1>13. Written(r) => Written(ws) \/ t.text # Blank
    BY <1>1, <1>2, <1>4, <1>5, <1>12 DEF Written
  <1> QED BY <1>4, <1>5, <1>10, <1>11, <1>12, <1>13 DEF Has

LEMMA DuplicateGrows ==
  ASSUME WellFormed(ws), born \in Nat, NEW id \in Ids(ws) PROVE Grown(DuplicateTab(ws, id))
  <1>1. PICK k, x : k = At(ws, id) /\ x = ws.tabs
    OBVIOUS
  <1>2. /\ x \in Seq(Tab) /\ Len(x) \in Nat /\ DOMAIN x = 1..Len(x) /\ ws.seq \in Nat
        /\ k \in 1..Len(x) /\ x[k] \in Tab
    BY <1>1, StripShape, AtIs DEF WellFormed
  <1>3. PICK t : t = Copy(ws, id)
    OBVIOUS
  <1>4. t \in Tab /\ t.id = ws.seq + 1 /\ t.of = "plain"
    <2>1. x[k].conn \in Conns \cup {NoConn} /\ x[k].text \in Texts \cup {Blank}
      BY <1>2 DEF Tab
    <2> QED BY <2>1, <1>1, <1>3, NewTabIs DEF Copy
  <1>5. PICK L, a, b, o : L = Len(x) /\ a = SubSeq(x, 1, k) /\ b = SubSeq(x, k + 1, L) /\ o = <<t>>
    OBVIOUS
  <1>6. a \in Seq(Tab) /\ Len(a) = k /\ \A i \in 1..k : a[i] = x[i]
    <2>1. \A i \in 1..k : x[i] \in Tab
      BY <1>2, ElementOfSeq
    <2>2. /\ a \in Seq(Tab) /\ Len(a) = (IF 1 <= k THEN k - 1 + 1 ELSE 0)
          /\ \A i \in 1..(k - 1 + 1) : a[i] = x[1 + i - 1]
      BY <2>1, <1>2, <1>5, SubSeqProperties
    <2> QED BY <2>2, <1>2
  <1>7. b \in Seq(Tab) /\ Len(b) = L - k /\ \A i \in 1..(L - k) : b[i] = x[i + k]
    <2>1. \A i \in (k + 1)..L : x[i] \in Tab
      BY <1>2, <1>5, ElementOfSeq
    <2>2. /\ b \in Seq(Tab) /\ Len(b) = (IF k + 1 <= L THEN L - (k + 1) + 1 ELSE 0)
          /\ \A i \in 1..(L - (k + 1) + 1) : b[i] = x[(k + 1) + i - 1]
      BY <2>1, <1>2, <1>5, SubSeqProperties
    <2>3. \A i \in 1..(L - k) : i \in 1..(L - (k + 1) + 1) /\ (k + 1) + i - 1 = i + k
      BY <1>2, <1>5
    <2>4. Len(b) = L - k
      <3>1. L \in Nat /\ k \in 1..L
        BY <1>2, <1>5
      <3> QED BY <2>2, <3>1
    <2> QED BY <2>2, <2>3, <2>4
  <1>8. o \in Seq(Tab) /\ Len(o) = 1 /\ o[1] = t
    BY <1>4, <1>5
  <1>9. PICK m : m = a \o o
    OBVIOUS
  <1>10. /\ m \in Seq(Tab) /\ Len(m) = k + 1
         /\ \A i \in 1..(k + 1) : m[i] = IF i <= k THEN a[i] ELSE o[i - k]
    <2>1. /\ m \in Seq(Tab) /\ Len(m) = Len(a) + Len(o)
          /\ \A i \in 1..(Len(a) + Len(o)) : m[i] = IF i <= Len(a) THEN a[i] ELSE o[i - Len(a)]
      BY <1>6, <1>8, <1>9, ConcatProperties
    <2> QED BY <2>1, <1>6, <1>8
  <1>11. PICK q : q = m \o b
    OBVIOUS
  <1>12. /\ q \in Seq(Tab) /\ Len(q) = L + 1 /\ DOMAIN q = 1..(L + 1)
         /\ \A i \in 1..(L + 1) : q[i] = IF i <= k + 1 THEN m[i] ELSE b[i - (k + 1)]
    <2>1. /\ q \in Seq(Tab) /\ Len(q) = k + 1 + (L - k)
          /\ \A i \in 1..(k + 1 + (L - k)) : q[i] = IF i <= k + 1 THEN m[i] ELSE b[i - (k + 1)]
      BY <1>7, <1>10, <1>11, ConcatProperties
    <2>2. k + 1 + (L - k) = L + 1
      BY <1>2, <1>5
    <2>3. DOMAIN q = 1..Len(q)
      BY <2>1, LenProperties
    <2> QED BY <2>1, <2>2, <2>3
  <1> DEFINE w == [i \in DOMAIN q \ {k + 1} |-> IF i <= k THEN i ELSE i - 1]
  <1>13. k + 1 \in DOMAIN q /\ q[k + 1] = t
    <2>1. k + 1 \in 1..(L + 1) /\ ~(k + 1 <= k) /\ (k + 1) - k = 1 /\ k + 1 \in 1..(k + 1)
      BY <1>2, <1>5
    <2> QED BY <2>1, <1>8, <1>10, <1>12
  <1>14. ASSUME NEW i \in DOMAIN q \ {k + 1} PROVE w[i] \in DOMAIN x /\ q[i] = x[w[i]]
    <2>1. i \in 1..(L + 1) /\ i # k + 1
      BY <1>12
    <2>2. CASE i <= k
      <3>1. w[i] = i /\ i \in 1..k /\ i <= k + 1 /\ i \in 1..(k + 1) /\ i \in 1..L
        BY <2>1, <2>2, <1>2, <1>5
      <3>2. q[i] = m[i] /\ m[i] = a[i] /\ a[i] = x[i]
        BY <2>1, <2>2, <3>1, <1>6, <1>10, <1>12
      <3> QED BY <3>1, <3>2, <1>2, <1>5
    <2>3. CASE ~(i <= k)
      <3>1. w[i] = i - 1 /\ i - (k + 1) \in 1..(L - k) /\ ~(i <= k + 1) /\ i - 1 \in 1..L
            /\ (i - (k + 1)) + k = i - 1
        BY <2>1, <2>3, <1>2, <1>5
      <3>2. q[i] = b[i - (k + 1)] /\ b[i - (k + 1)] = x[i - 1]
        BY <2>1, <3>1, <1>7, <1>12
      <3> QED BY <3>1, <3>2, <1>2, <1>5
    <2> QED BY <2>2, <2>3
  <1>15. \A i, j \in DOMAIN q \ {k + 1} : w[i] = w[j] => i = j
    <2>1. \A i \in DOMAIN q \ {k + 1} : i \in Nat /\ i # k + 1 /\ w[i] = IF i <= k THEN i ELSE i - 1
      BY <1>12
    <2>2. k \in Nat
      BY <1>2
    <2> HIDE DEF w
    <2> QED BY <2>1, <2>2
  <1>16. w \in [DOMAIN q \ {k + 1} -> DOMAIN x]
    BY <1>14
  <1> HIDE DEF w
  <1>17. PICK r : r = [tabs |-> q, seq |-> ws.seq + 1]
    OBVIOUS
  <1>18. /\ WellFormed(r) /\ r.seq = ws.seq + 1
         /\ \A i, d : Has(r, i, d) => Has(ws, i, d) \/ (i = ws.seq + 1 /\ d = t.doc)
    <2>1. Alone(t, ws)
      BY <1>4 DEF Same, Alone
    <2>2. Extra(q, ws.tabs, k + 1, w)
      BY <1>1, <1>13, <1>14, <1>15, <1>16 DEF Extra
    <2>3. PICK v, s, n : v = w /\ s = ws /\ n = k + 1
      OBVIOUS
    <2>4. /\ WellFormed(s) /\ t.id = s.seq + 1 /\ Alone(t, s) /\ Extra(q, s.tabs, n, v)
          /\ r = [tabs |-> q, seq |-> s.seq + 1] /\ q \in Seq(Tab) /\ q[n] = t /\ t \in Tab
      BY <1>4, <1>12, <1>13, <1>17, <2>1, <2>2, <2>3
    <2>5. /\ WellFormed(r) /\ r.seq = s.seq + 1
          /\ \A i, d : Has(r, i, d) => Has(s, i, d) \/ (i = s.seq + 1 /\ d = t.doc)
      <3>1. q[n].id = s.seq + 1 /\ Alone(q[n], s)
        BY <2>4
      <3>2. LET y == [tabs |-> q, seq |-> s.seq + 1] IN
            /\ WellFormed(y) /\ y.seq = s.seq + 1
            /\ \A i, d : Has(y, i, d) => Has(s, i, d) \/ (i = s.seq + 1 /\ d = q[n].doc)
        BY <2>4, <3>1, OneMoreIsWell
      <3> QED BY <2>4, <3>2
    <2> QED BY <2>3, <2>5
  <1>19. DuplicateTab(ws, id) = r
    <2>1. k + 1 - 1 = k
      BY <1>2
    <2>2. InsertAt(x, k + 1, t) = q
      <3>0. PICK i : i = k + 1
        OBVIOUS
      <3>1. InsertAt(x, i, t) = SubSeq(x, 1, i - 1) \o <<t>> \o SubSeq(x, i, Len(x))
        BY DEF InsertAt
      <3>2. SubSeq(x, 1, i - 1) = a /\ SubSeq(x, i, Len(x)) = b
        <4>1. PICK j, n : j = i - 1 /\ n = Len(x)
          OBVIOUS
        <4>2. j = k /\ n = L
          BY <4>1, <3>0, <1>2, <1>5
        <4>3. SubSeq(x, 1, j) = a
          BY <4>2, <1>5
        <4>4. SubSeq(x, i, n) = b
          BY <4>2, <3>0, <1>5
        <4> QED BY <4>1, <4>3, <4>4
      <3>3. SubSeq(x, 1, i - 1) \o <<t>> \o SubSeq(x, i, Len(x)) = q
        BY <3>2, <1>5, <1>9, <1>11
      <3> QED BY <3>0, <3>1, <3>3
    <2>3. Top(ws) = ws.seq
      BY TopIs
    <2> QED BY <2>2, <2>3, <1>1, <1>3, <1>17 DEF DuplicateTab
  <1>20. Grown(r)
    BY <1>18 DEF Grown
  <1> QED BY <1>19, <1>20

LEMMA OnlyTakes ==
  ASSUME NEW s \in Seq(Tab), NEW T
  PROVE  \E p : Takes(Only(s, T), s, p) /\ \A i \in DOMAIN Only(s, T) : s[p[i]] \in T
  <1>1. PICK S : S = Tab
    OBVIOUS
  <1>2. s \in Seq(S)
    BY <1>1
  <1>3. PICK q : q = Only(s, T)
    OBVIOUS
  <1>4. PICK p \in [DOMAIN q -> DOMAIN s] :
           /\ \A i \in DOMAIN q : q[i] = s[p[i]] /\ s[p[i]] \in T
           /\ \A i, j \in DOMAIN q : p[i] = p[j] => i = j
    BY <1>2, <1>3, OnlyKeeps
  <1>5. Takes(q, s, p) /\ \A i \in DOMAIN q : s[p[i]] \in T
    BY <1>4 DEF Takes
  <1> QED BY <1>3, <1>5

LEMMA ClosedGrows ==
  ASSUME WellFormed(ws), NEW T
  PROVE  LET r == [ws EXCEPT !.tabs = Only(@, T)] IN Grown(r) /\ (Written(r) => Written(ws))
  <1>1. PICK x : x = ws.tabs /\ x \in Seq(Tab)
    BY StripShape DEF WellFormed
  <1>2. x \in Seq(Tab)
    BY <1>1
  <1>3. PICK q : q = Only(x, T)
    OBVIOUS
  <1>4. q \in Seq(Tab) /\ Taken(q, ws.tabs)
    BY <1>1, <1>2, <1>3, OnlyTaken
  <1>5. PICK r : r = [ws EXCEPT !.tabs = q]
    OBVIOUS
  <1>6. Grown(r) /\ (Written(r) => Written(ws))
    BY <1>4, <1>5, TakenGrows
  <1>7. r = [ws EXCEPT !.tabs = Only(@, T)]
    BY <1>1, <1>3, <1>5
  <1> QED BY <1>6, <1>7

LEMMA ClosedRightGrows ==
  ASSUME WellFormed(ws), NEW id \in Ids(ws) PROVE Grown(CloseTabsToRight(ws, id))
  <1>1. PICK k, x : k = At(ws, id) /\ x = ws.tabs
    OBVIOUS
  <1>2. x \in Seq(Tab) /\ DOMAIN x = 1..Len(x) /\ Len(x) \in Nat /\ k \in 1..Len(x)
    BY <1>1, StripShape, AtIs DEF WellFormed
  <1>3. PICK L, T : L = Len(x) /\ T = {t \in ToSet(x) : t.pin}
    OBVIOUS
  <1>4. L \in Nat /\ k \in 1..L /\ DOMAIN x = 1..L /\ k \in Nat
    BY <1>2, <1>3
  <1>5. PICK a, y : a = SubSeq(x, 1, k) /\ y = SubSeq(x, k + 1, L)
    OBVIOUS
  <1>6. a \in Seq(Tab) /\ DOMAIN a = 1..k /\ \A i \in 1..k : a[i] = x[i]
    <2>1. \A i \in 1..k : x[i] \in Tab
      BY <1>2, ElementOfSeq
    <2>2. /\ a \in Seq(Tab) /\ Len(a) = (IF 1 <= k THEN k - 1 + 1 ELSE 0)
          /\ \A i \in 1..(k - 1 + 1) : a[i] = x[1 + i - 1]
      BY <2>1, <1>4, <1>5, SubSeqProperties
    <2>3. Len(a) = k /\ DOMAIN a = 1..Len(a)
      BY <2>2, <1>4, LenProperties
    <2> QED BY <2>2, <2>3, <1>4
  <1>7. y \in Seq(Tab) /\ DOMAIN y = 1..(L - k) /\ \A i \in 1..(L - k) : y[i] = x[i + k]
    <2>1. \A i \in (k + 1)..L : x[i] \in Tab
      BY <1>2, <1>4, ElementOfSeq
    <2>2. /\ y \in Seq(Tab) /\ Len(y) = (IF k + 1 <= L THEN L - (k + 1) + 1 ELSE 0)
          /\ \A i \in 1..(L - (k + 1) + 1) : y[i] = x[(k + 1) + i - 1]
      BY <2>1, <1>4, <1>5, SubSeqProperties
    <2>3. Len(y) = L - k /\ DOMAIN y = 1..Len(y)
      BY <2>2, <1>4, LenProperties
    <2>4. \A i \in 1..(L - k) : i \in 1..(L - (k + 1) + 1) /\ (k + 1) + i - 1 = i + k
      BY <1>4
    <2> QED BY <2>2, <2>3, <2>4
  <1>8. PICK b : b = Only(y, T)
    OBVIOUS
  <1>9. PICK p : Takes(b, y, p)
    BY <1>7, <1>8, OnlyTakes
  <1>10. b \in Seq(Tab)
    BY <1>7, <1>8, OnlyTaken
  <1> DEFINE v == [i \in DOMAIN a |-> i]
             w == [i \in DOMAIN b |-> p[i] + k]
  <1>11. Takes(a, x, v)
    BY <1>4, <1>6 DEF Takes
  <1>12. \A i \in DOMAIN b : p[i] \in 1..(L - k) /\ p[i] + k \in 1..L /\ b[i] = y[p[i]] /\ p[i] \in Nat
    BY <1>4, <1>7, <1>9 DEF Takes
  <1>13. Takes(b, x, w)
    <2>1. w \in [DOMAIN b -> DOMAIN x]
      BY <1>4, <1>12
    <2>2. \A i \in DOMAIN b : b[i] = x[w[i]]
      BY <1>7, <1>12
    <2>3. \A i, j \in DOMAIN b : w[i] = w[j] => i = j
      <3>1. \A i, j \in DOMAIN b : p[i] = p[j] => i = j
        BY <1>9 DEF Takes
      <3>2. \A i, j \in DOMAIN b : w[i] = w[j] => p[i] = p[j]
        BY <1>4, <1>12
      <3> QED BY <3>1, <3>2
    <2> HIDE DEF w
    <2> QED BY <2>1, <2>2, <2>3 DEF Takes
  <1>14. \A i \in DOMAIN a, j \in DOMAIN b : v[i] # w[j]
    BY <1>4, <1>6, <1>12
  <1> HIDE DEF v, w
  <1>15. PICK q : q = a \o b
    OBVIOUS
  <1>16. q \in Seq(Tab) /\ Taken(q, ws.tabs)
    <2>1. PICK f, g : f = v /\ g = w
      OBVIOUS
    <2>2. Takes(a, x, f) /\ Takes(b, x, g) /\ \A i \in DOMAIN a, j \in DOMAIN b : f[i] # g[j]
      BY <2>1, <1>11, <1>13, <1>14
    <2>3. x \in Seq(Tab) /\ a \in Seq(Tab) /\ b \in Seq(Tab)
      BY <1>2, <1>6, <1>10
    <2>4. a \o b \in Seq(Tab) /\ Taken(a \o b, x)
      BY <2>2, <2>3, JoinedTaken
    <2> QED BY <2>4, <1>1, <1>15
  <1>17. PICK r : r = [ws EXCEPT !.tabs = q]
    OBVIOUS
  <1>18. Grown(r)
    BY <1>16, <1>17, TakenGrows
  <1>19. CloseTabsToRight(ws, id) = r
    BY <1>1, <1>3, <1>5, <1>8, <1>15, <1>17 DEF CloseTabsToRight
  <1> QED BY <1>18, <1>19

LEMMA PinnedGrows ==
  ASSUME WellFormed(ws), NEW id \in Ids(ws) PROVE Grown(TogglePin(ws, id))
  <1>1. PICK k : k = At(ws, id) /\ k \in DOMAIN ws.tabs /\ ws.tabs[k] \in Tab
    BY StripShape, AtIs DEF WellFormed
  <1>2. PICK t : t = [ws.tabs[k] EXCEPT !.pin = ~@]
    OBVIOUS
  <1>3. t \in Tab /\ Like(t, ws.tabs[k])
    BY <1>1, <1>2 DEF Tab, Like
  <1>4. PICK now, n : now = [ws.tabs EXCEPT ![k] = t] /\ n = [ws EXCEPT !.tabs = now]
    OBVIOUS
  <1>5. Grown(n)
    BY <1>1, <1>3, <1>4, ChangedGrows
  <1>6. n.tabs = now /\ n.seq = ws.seq /\ WellFormed(n) /\ now \in Seq(Tab)
    <2>1. WellFormed(n) /\ n.tabs = now /\ n.seq = ws.seq
      BY <1>4, <1>5, StripShape DEF WellFormed, Grown
    <2> QED BY <2>1, StripShape DEF WellFormed
  <1>7. now \in Seq(Tab)
    BY <1>6
  <1>8. PICK P, N : P = {u \in ToSet(now) : u.pin} /\ N = ToSet(now) \ P
    OBVIOUS
  <1>9. PICK a, b : a = Only(now, P) /\ b = Only(now, N)
    OBVIOUS
  <1>10. a \in Seq(Tab) /\ b \in Seq(Tab)
    BY <1>7, <1>9, OnlyTaken
  <1>11. PICK v : Takes(a, now, v) /\ \A i \in DOMAIN a : now[v[i]] \in P
    BY <1>7, <1>9, OnlyTakes
  <1>12. PICK w : Takes(b, now, w) /\ \A i \in DOMAIN b : now[w[i]] \in N
    BY <1>7, <1>9, OnlyTakes
  <1>13. \A i \in DOMAIN a, j \in DOMAIN b : v[i] # w[j]
    BY <1>8, <1>11, <1>12
  <1>14. PICK q : q = a \o b
    OBVIOUS
  <1>15. q \in Seq(Tab) /\ Taken(q, n.tabs)
    BY <1>6, <1>7, <1>10, <1>11, <1>12, <1>13, <1>14, JoinedTaken
  <1>16. PICK r : r = [n EXCEPT !.tabs = q]
    OBVIOUS
  <1>17. WellFormed(r) /\ r.seq = ws.seq /\ \A i, d : Has(r, i, d) => Has(n, i, d)
    BY <1>6, <1>15, <1>16, TakenIsWell
  <1>18. ws.seq \in Nat
    BY StripShape DEF WellFormed
  <1>19. \A i, d : Has(n, i, d) => Has(ws, i, d)
    BY <1>5, <1>6, <1>18 DEF Grown
  <1>20. Grown(r)
    BY SMTT(30), <1>17, <1>19 DEF Grown
  <1>21. TogglePin(ws, id) = r
    <2>1. r = [ws EXCEPT !.tabs = q]
      BY <1>4, <1>16, StripShape DEF WellFormed
    <2>2. now = [ws.tabs EXCEPT ![At(ws, id)].pin = ~@]
      BY <1>1, <1>2, <1>4
    <2> QED BY <2>1, <2>2, <1>8, <1>9, <1>14 DEF TogglePin
  <1> QED BY <1>20, <1>21

LEMMA BoundGrows ==
  ASSUME WellFormed(ws), NEW id \in Ids(ws), NEW c \in Conns,
         ws.tabs[At(ws, id)].of \in {"plain", "snippet"}
  PROVE  Grown(BindTabConn(ws, id, c))
  <1>1. PICK k : k = At(ws, id) /\ k \in DOMAIN ws.tabs /\ ws.tabs[k] \in Tab
    BY StripShape, AtIs DEF WellFormed
  <1>2. PICK t : t = [ws.tabs[k] EXCEPT !.conn = c]
    OBVIOUS
  <1>3. t \in Tab /\ Like(t, ws.tabs[k])
    BY <1>1, <1>2 DEF Tab, Like
  <1>4. Grown([ws EXCEPT !.tabs = [ws.tabs EXCEPT ![k] = t]])
    BY <1>1, <1>3, ChangedGrows
  <1> QED BY <1>1, <1>2, <1>4 DEF BindTabConn

(* Typing: the tab of the id has the text, and is the tab it was.            *)
LEMMA TypedGrows ==
  ASSUME WellFormed(ws), NEW id \in Ids(ws), NEW x \in Texts \cup {Blank}
  PROVE  LET t == [ws.tabs[At(ws, id)] EXCEPT !.text = x]
             r == UpdateTabSql(ws, id, x) IN
         /\ Grown(r) /\ t \in Tab /\ Like(t, ws.tabs[At(ws, id)]) /\ t.text = x
         /\ \E i \in DOMAIN r.tabs : r.tabs[i] = t
  <1>1. PICK k : k = At(ws, id) /\ k \in DOMAIN ws.tabs /\ ws.tabs[k] \in Tab
    BY StripShape, AtIs DEF WellFormed
  <1>2. PICK t : t = [ws.tabs[k] EXCEPT !.text = x]
    OBVIOUS
  <1>3. t \in Tab /\ Like(t, ws.tabs[k]) /\ t.text = x
    BY <1>1, <1>2 DEF Tab, Like
  <1>4. PICK r, q : q = [ws.tabs EXCEPT ![k] = t] /\ r = [ws EXCEPT !.tabs = q]
    OBVIOUS
  <1>5. Grown(r)
    BY <1>1, <1>3, <1>4, ChangedGrows
  <1>6. r.tabs = q /\ k \in DOMAIN q /\ q[k] = t
    BY <1>1, <1>4, StripShape DEF WellFormed
  <1>7. UpdateTabSql(ws, id, x) = r
    BY <1>1, <1>2, <1>4 DEF UpdateTabSql
  <1> QED BY <1>1, <1>2, <1>3, <1>5, <1>6, <1>7

----------------------------------------------------------------------------
(* The local history: what recording tabs adds to it, and what it leaves as  *)
(* the newest version.                                                       *)
Version == [doc : Nat, text : Texts \cup {Blank}]
History(h) == \A id \in DOMAIN h : id \in Nat /\ h[id] \in Seq(Version)
Keeps(h, id, d) == id \in DOMAIN h /\ \E k \in DOMAIN h[id] : h[id][k].doc = d
Extends(h, g, R) ==
  /\ \A id, d : Keeps(g, id, d) => Keeps(h, id, d) \/ \E t \in R : t.text # Blank /\ t.id = id /\ t.doc = d
  /\ \A id \in DOMAIN g : id \in DOMAIN h \/ \E t \in R : t.text # Blank /\ t.id = id

LEMMA VersionsAre ==
  ASSUME NEW h, History(h), NEW id
  PROVE  /\ VersionsOf(h, id) \in Seq(Version)
         /\ \A k \in DOMAIN VersionsOf(h, id) : Keeps(h, id, VersionsOf(h, id)[k].doc)
  <1>1. CASE id \in DOMAIN h
    BY <1>1 DEF VersionsOf, History, Keeps
  <1>2. CASE id \notin DOMAIN h
    <2>1. VersionsOf(h, id) = <<>>
      BY <1>2 DEF VersionsOf
    <2>2. <<>> \in Seq(Version) /\ DOMAIN <<>> = {}
      OBVIOUS
    <2> QED BY <2>1, <2>2
  <1> QED BY <1>1, <1>2

(* A version put first, with the oldest ones dropped.                        *)
LEMMA PrunedIs ==
  ASSUME NEW old \in Seq(Version), NEW v \in Version, MaxVersions # 0
  PROVE  LET kept == PruneHistory(<<v>> \o old) IN
         /\ kept \in Seq(Version) /\ kept # <<>> /\ kept[1] = v
         /\ \A i \in DOMAIN kept : kept[i] = v \/ \E j \in DOMAIN old : kept[i] = old[j]
  <1>1. PICK one, all : one = <<v>> /\ all = one \o old
    OBVIOUS
  <1>2. one \in Seq(Version) /\ Len(one) = 1 /\ one[1] = v
    BY <1>1
  <1>3. Len(old) \in Nat /\ DOMAIN old = 1..Len(old)
    BY LenProperties
  <1>4. /\ all \in Seq(Version) /\ Len(all) = 1 + Len(old)
        /\ \A i \in 1..(1 + Len(old)) : all[i] = IF i <= 1 THEN one[i] ELSE old[i - 1]
    BY <1>1, <1>2, ConcatProperties
  <1>5. PICK n : n = IF Len(all) > MaxVersions THEN MaxVersions ELSE Len(all)
    OBVIOUS
  <1>6. n \in Nat \ {0} /\ n <= Len(all)
    BY <1>3, <1>4, <1>5, TabsAssumption
  <1>7. \A i \in 1..n : all[i] \in Version
    BY <1>4, <1>6, ElementOfSeq
  <1>8. PICK kept : kept = SubSeq(all, 1, n)
    OBVIOUS
  <1>9. kept \in Seq(Version) /\ Len(kept) = n /\ \A i \in 1..n : kept[i] = all[i]
    <2>1. /\ kept \in Seq(Version) /\ Len(kept) = (IF 1 <= n THEN n - 1 + 1 ELSE 0)
          /\ \A i \in 1..(n - 1 + 1) : kept[i] = all[1 + i - 1]
      BY <1>6, <1>7, <1>8, SubSeqProperties
    <2> QED BY <2>1, <1>6
  <1>10. DOMAIN kept = 1..n /\ kept # <<>>
    BY <1>6, <1>9, LenProperties
  <1>11. ASSUME NEW i \in 1..n PROVE kept[i] = IF i = 1 THEN v ELSE old[i - 1]
    <2>1. i \in 1..(1 + Len(old))
      BY <1>3, <1>4, <1>6
    <2> QED BY <2>1, <1>2, <1>4, <1>9
  <1>12. \A i \in 1..n : i # 1 => i - 1 \in DOMAIN old
    BY <1>3, <1>4, <1>6
  <1>13. kept = PruneHistory(<<v>> \o old)
    BY <1>1, <1>5, <1>8 DEF PruneHistory
  <1>14. kept[1] = v
    BY <1>6, <1>11
  <1>15. ASSUME NEW i \in DOMAIN kept
         PROVE  kept[i] = v \/ \E j \in DOMAIN old : kept[i] = old[j]
    <2>1. i \in 1..n
      BY <1>10
    <2>2. CASE i = 1
      BY <2>2, <1>14
    <2>3. CASE i # 1
      <3>1. i - 1 \in DOMAIN old /\ kept[i] = old[i - 1]
        BY <2>1, <2>3, <1>11, <1>12
      <3> QED BY <3>1
    <2> QED BY <2>2, <2>3
  <1>16. /\ kept \in Seq(Version) /\ kept # <<>> /\ kept[1] = v
         /\ \A i \in DOMAIN kept : kept[i] = v \/ \E j \in DOMAIN old : kept[i] = old[j]
    BY <1>9, <1>10, <1>14, <1>15
  <1> QED BY <1>13, <1>16

LEMMA RecordedOne ==
  ASSUME NEW h, History(h), NEW t \in Tab
  PROVE  LET g == RecordVersion(h, t) IN
         /\ History(g) /\ Extends(h, g, {t}) /\ (Recordable(t) => IsNewest(g, t))
         /\ \A id : id # t.id => VersionsOf(g, id) = VersionsOf(h, id)
  <1>1. PICK g : g = RecordVersion(h, t)
    OBVIOUS
  <1>2. CASE ~Recordable(t) \/ Known(h, t)
    <2>1. g = h
      BY <1>1, <1>2 DEF RecordVersion
    <2>2. Recordable(t) => IsNewest(h, t)
      BY <1>2 DEF Known, IsNewest
    <2>3. Extends(h, g, {t})
      BY <2>1 DEF Extends
    <2> QED BY <1>1, <2>1, <2>2, <2>3
  <1>3. CASE Recordable(t) /\ ~Known(h, t)
    <2>0. t.text # Blank /\ MaxVersions # 0
      BY <1>3 DEF Recordable
    <2>1. PICK v, old : v = [doc |-> t.doc, text |-> t.text] /\ old = VersionsOf(h, t.id)
      OBVIOUS
    <2>2. v \in Version /\ v.doc = t.doc /\ v.text = t.text /\ t.id \in Nat
      BY <2>1 DEF Version, Tab
    <2>3. old \in Seq(Version) /\ \A k \in DOMAIN old : Keeps(h, t.id, old[k].doc)
      BY <2>1, VersionsAre
    <2>4. PICK kept : kept = PruneHistory(<<v>> \o old)
      OBVIOUS
    <2>5. /\ kept \in Seq(Version) /\ kept # <<>> /\ kept[1] = v
          /\ \A i \in DOMAIN kept : kept[i] = v \/ \E j \in DOMAIN old : kept[i] = old[j]
      BY <2>0, <2>2, <2>3, <2>4, PrunedIs
    <2>6. g = [id \in DOMAIN h \cup {t.id} |-> IF id # t.id THEN h[id] ELSE kept]
      <3>1. g = [id \in DOMAIN h \cup {t.id} |->
                   IF id # t.id THEN h[id]
                   ELSE PruneHistory(<<[doc |-> t.doc, text |-> t.text]>> \o VersionsOf(h, id))]
        BY <1>1, <1>3 DEF RecordVersion
      <3>2. \A id : id = t.id =>
              PruneHistory(<<[doc |-> t.doc, text |-> t.text]>> \o VersionsOf(h, id)) = kept
        BY <2>1, <2>4
      <3> QED BY <3>1, <3>2
    <2>7. DOMAIN g = DOMAIN h \cup {t.id} /\ g[t.id] = kept /\ \A id \in DOMAIN h : id # t.id => g[id] = h[id]
      BY <2>6
    <2>8. History(g)
      BY <2>2, <2>5, <2>7 DEF History
    <2>9. \A id, d : Keeps(g, id, d) => Keeps(h, id, d) \/ (id = t.id /\ d = t.doc)
      <3> SUFFICES ASSUME NEW id, NEW d, Keeps(g, id, d), id = t.id, d # t.doc PROVE Keeps(h, id, d)
        BY <2>7 DEF Keeps
      <3>1. PICK i \in DOMAIN kept : kept[i].doc = d
        BY <2>7 DEF Keeps
      <3> QED BY <3>1, <2>2, <2>3, <2>5
    <2>10. Extends(h, g, {t})
      BY <2>0, <2>7, <2>9 DEF Extends
    <2>11. IsNewest(g, t)
      BY <2>2, <2>5, <2>7 DEF IsNewest, VersionsOf
    <2>12. \A id : id # t.id => VersionsOf(g, id) = VersionsOf(h, id)
      BY <2>7 DEF VersionsOf
    <2> QED BY <1>1, <2>8, <2>10, <2>11, <2>12
  <1> QED BY <1>2, <1>3

LEMMA ExtendsTwice ==
  ASSUME NEW h, NEW g, NEW f, NEW R, NEW Q, Extends(h, g, R), Extends(g, f, Q)
  PROVE  Extends(h, f, R \cup Q)
  BY DEF Extends

IsAfter(f, h, ts, n) == f = [k \in 0..n |-> IF k = 0 THEN h ELSE RecordVersion(f[k - 1], ts[k])]

LEMMA AfterExists ==
  ASSUME NEW h, NEW ts PROVE \A n \in Nat : \E f : IsAfter(f, h, ts, n)
  <1> DEFINE P == {n \in Nat : \E f : IsAfter(f, h, ts, n)}
  <1>1. 0 \in P
    <2>1. IsAfter([k \in 0..0 |-> h], h, ts, 0)
      BY DEF IsAfter
    <2> QED BY <2>1
  <1>2. ASSUME NEW n \in Nat, n \in P PROVE n + 1 \in P
    <2>1. PICK f : IsAfter(f, h, ts, n)
      BY <1>2
    <2> DEFINE last == RecordVersion(f[n], ts[n + 1])
               g == [k \in 0..(n + 1) |-> IF k = n + 1 THEN last ELSE f[k]]
               e == [k \in 0..(n + 1) |-> IF k = 0 THEN h ELSE RecordVersion(g[k - 1], ts[k])]
    <2>2. ASSUME NEW k \in 0..(n + 1) PROVE g[k] = e[k]
      <3>1. CASE k = n + 1
        BY <3>1
      <3>2. CASE k \in 0..n
        <4>1. f[k] = IF k = 0 THEN h ELSE RecordVersion(f[k - 1], ts[k])
          BY <2>1, <3>2 DEF IsAfter
        <4>2. g[k] = f[k] /\ (k # 0 => g[k - 1] = f[k - 1])
          BY <3>2
        <4> QED BY <4>1, <4>2
      <3> QED BY <3>1, <3>2
    <2>3. g = e
      BY <2>2
    <2>4. IsAfter(g, h, ts, n + 1)
      BY <2>3 DEF IsAfter
    <2> QED BY <2>4
  <1> HIDE DEF P
  <1>3. \A n \in Nat : n \in P
    BY <1>1, <1>2, InductionOnSets
  <1> QED BY <1>3 DEF P

(* Every tab of ts whose id does not come again leaves its text newest.      *)
Final(ts, k) == Recordable(ts[k]) /\ \A j \in DOMAIN ts : j > k => ts[j].id # ts[k].id

LEMMA RecordedAll ==
  ASSUME NEW h, History(h), NEW ts \in Seq(Tab)
  PROVE  LET g == RecordAll(h, ts) IN
         /\ \A k \in 0..Len(ts) : History(g[k]) /\ Extends(h, g[k], ToSet(ts))
         /\ \A k \in DOMAIN ts : Final(ts, k) => IsNewest(g[Len(ts)], ts[k])
         /\ (\A k \in 1..Len(ts) : g[k] = g[k - 1]) => g[Len(ts)] = h
  <1> DEFINE f == CHOOSE g : IsAfter(g, h, ts, Len(ts))
             P == {n \in Nat : n <= Len(ts) =>
                     /\ History(f[n]) /\ Extends(h, f[n], ToSet(ts))
                     /\ \A k \in 1..n : Final(ts, k) => IsNewest(f[n], ts[k])
                     /\ (\A k \in 1..n : f[k] = f[k - 1]) => f[n] = h}
  <1>1. /\ Len(ts) \in Nat /\ DOMAIN ts = 1..Len(ts)
        /\ \A k \in 1..Len(ts) : ts[k] \in Tab
    BY LenProperties, ElementOfSeq
  <1>2. IsAfter(f, h, ts, Len(ts))
    BY <1>1, AfterExists
  <1>3. RecordAll(h, ts) = f
    BY DEF RecordAll, IsAfter
  <1> HIDE DEF f
  <1>4. 0 \in P
    <2>1. f[0] = h
      BY <1>1, <1>2 DEF IsAfter
    <2>2. Extends(h, f[0], ToSet(ts))
      BY <2>1 DEF Extends
    <2> QED BY <2>1, <2>2
  <1>5. ASSUME NEW n \in Nat, n \in P PROVE n + 1 \in P
    <2> SUFFICES ASSUME n + 1 <= Len(ts)
                 PROVE  /\ History(f[n + 1]) /\ Extends(h, f[n + 1], ToSet(ts))
                        /\ \A k \in 1..(n + 1) : Final(ts, k) => IsNewest(f[n + 1], ts[k])
                        /\ (\A k \in 1..(n + 1) : f[k] = f[k - 1]) => f[n + 1] = h
      OBVIOUS
    <2>1. /\ History(f[n]) /\ Extends(h, f[n], ToSet(ts))
          /\ \A k \in 1..n : Final(ts, k) => IsNewest(f[n], ts[k])
          /\ (\A k \in 1..n : f[k] = f[k - 1]) => f[n] = h
      BY <1>1, <1>5
    <2>2. PICK m : m = n + 1 /\ m \in 1..Len(ts) /\ ts[m] \in Tab
      BY <1>1
    <2>3. PICK a, b, t : a = f[n] /\ b = f[m] /\ t = ts[m] /\ t \in Tab
      BY <2>2
    <2>4. b = RecordVersion(a, t)
      BY <1>1, <1>2, <2>2, <2>3 DEF IsAfter
    <2>5. /\ History(b) /\ Extends(a, b, {t}) /\ (Recordable(t) => IsNewest(b, t))
          /\ \A id : id # t.id => VersionsOf(b, id) = VersionsOf(a, id)
      <3>1. History(a) /\ t \in Tab
        BY <2>1, <2>3
      <3> QED BY <3>1, <2>4, RecordedOne
    <2>6. PICK Q : Q = ToSet(ts) /\ t \in Q
      BY <1>1, <2>2, <2>3 DEF ToSet
    <2>7. Extends(h, b, Q)
      <3>1. Extends(h, a, Q)
        BY <2>1, <2>3, <2>6
      <3>2. Extends(h, b, Q \cup {t})
        BY <3>1, <2>5, ExtendsTwice
      <3>3. Q \cup {t} = Q
        BY <2>6
      <3> QED BY <3>2, <3>3
    <2>8. ASSUME NEW k \in 1..(n + 1), Final(ts, k) PROVE IsNewest(b, ts[k])
      <3>1. CASE k = m
        BY <3>1, <2>3, <2>5, <2>8 DEF Final
      <3>2. CASE k \in 1..n
        <4>1. m > k /\ m \in DOMAIN ts
          BY <3>2, <1>1, <2>2
        <4>2. ts[k].id # t.id
          BY <4>1, <2>3, <2>8 DEF Final
        <4>3. IsNewest(a, ts[k])
          BY <3>2, <2>1, <2>3, <2>8
        <4> QED BY <4>2, <4>3, <2>5 DEF IsNewest
      <3> QED BY <3>1, <3>2, <2>2
    <2>9. (\A k \in 1..(n + 1) : f[k] = f[k - 1]) => b = h
      <3> SUFFICES ASSUME \A k \in 1..(n + 1) : f[k] = f[k - 1] PROVE b = h
        OBVIOUS
      <3>1. a = h
        BY <2>1, <2>3
      <3>2. m \in 1..(n + 1) /\ m - 1 = n
        BY <2>2
      <3> QED BY <3>1, <3>2, <2>3
    <2> QED BY <2>2, <2>3, <2>5, <2>6, <2>7, <2>8, <2>9
  <1> HIDE DEF P
  <1>6. \A n \in Nat : n \in P
    BY <1>4, <1>5, InductionOnSets
  <1>7. \A n \in 0..Len(ts) : History(f[n]) /\ Extends(h, f[n], ToSet(ts))
    BY <1>1, <1>6 DEF P
  <1>8. /\ \A k \in DOMAIN ts : Final(ts, k) => IsNewest(f[Len(ts)], ts[k])
        /\ (\A k \in 1..Len(ts) : f[k] = f[k - 1]) => f[Len(ts)] = h
    BY <1>1, <1>6 DEF P
  <1> QED BY <1>3, <1>7, <1>8

(* What the window and the store hold after the tabs ts are recorded.        *)
LEMMA RecordsAre ==
  ASSUME NEW ts \in Seq(Tab), Records(ts), History(hist), History(stored)
  PROVE  /\ History(hist') /\ Extends(hist, hist', ToSet(ts))
         /\ History(stored') /\ (stored' = stored \/ Extends(hist, stored', ToSet(ts)))
         /\ \A k \in DOMAIN ts : Final(ts, k) => IsNewest(hist', ts[k])
         /\ (~warned => stored = hist) => (~warned' => stored' = hist')
  <1>1. PICK h, after, n : h = hist /\ after = RecordAll(hist, ts) /\ n = Len(ts)
    OBVIOUS
  <1>2. n \in Nat
    BY <1>1, LenProperties
  <1>3. History(h)
    BY <1>1
  <1>4. /\ \A k \in 0..n : History(after[k]) /\ Extends(h, after[k], ToSet(ts))
        /\ \A k \in DOMAIN ts : Final(ts, k) => IsNewest(after[n], ts[k])
        /\ (\A k \in 1..n : after[k] = after[k - 1]) => after[n] = h
    BY <1>1, <1>3, RecordedAll
  <1>5. PICK writes : writes = {k \in 1..n : after[k] # after[k - 1]}
    OBVIOUS
  <1>6. /\ hist' = after[n]
        /\ \/ writes = {} /\ UNCHANGED <<stored, warned>>
           \/ stored' = hist' /\ warned' = FALSE
           \/ warned' = TRUE /\ (stored' = stored \/ \E k \in writes : stored' = after[k])
    BY <1>1, <1>5 DEF Records
  <1>7. n \in 0..n /\ writes \subseteq 0..n
    BY <1>2, <1>5
  <1>8. writes = {} => hist' = hist
    BY <1>1, <1>4, <1>5, <1>6
  <1>9. History(hist') /\ Extends(hist, hist', ToSet(ts))
    BY <1>1, <1>4, <1>6, <1>7
  <1>10. stored' = stored \/ stored' = hist' \/ \E k \in 0..n : stored' = after[k]
    BY <1>6, <1>7
  <1>11. History(stored') /\ (stored' = stored \/ Extends(hist, stored', ToSet(ts)))
    BY <1>1, <1>4, <1>9, <1>10
  <1>12. (~warned => stored = hist) => (~warned' => stored' = hist')
    BY <1>6, <1>8
  <1>13. \A k \in DOMAIN ts : Final(ts, k) => IsNewest(hist', ts[k])
    BY <1>4, <1>6
  <1> QED BY <1>9, <1>11, <1>12, <1>13

----------------------------------------------------------------------------
(* What no setting and no crash breaks: the strips and the history are well  *)
(* formed, the user is told where the stored history is behind, a closed     *)
(* application holds nothing, and while the offer is up no editor has a text. *)
Shut == app # "open" => ws = EmptySession(Nothing) /\ pending = Nothing /\ timer = Nothing
Quiet == pending # Nothing => ~Written(ws)
Told == ~warned => stored = hist
Histories == History(hist) /\ History(stored) /\ Told
SInv == Strips /\ Histories /\ Shut /\ Quiet

(* A tab, known by id and doc, that is in a strip or has a version.          *)
Held(s, id, d) == s # Nothing /\ Has(s, id, d)
Seen(id, d) ==
  \/ Has(ws, id, d) \/ Held(pending, id, d) \/ Held(timer, id, d) \/ Held(disk, id, d)
  \/ Keeps(hist, id, d) \/ Keeps(stored, id, d)

(* The editors of ws and s.                                                  *)
Editors(s, R) ==
  \A t \in R : IsQuery(t) /\ \E r \in {ws, s} : \E k \in DOMAIN r.tabs : r.tabs[k] = t

(* What every change of the strip is: tabs seen before, one new tab with a   *)
(* new id at most, and no text while the offer stays.                        *)
Follows(s) ==
  /\ WellFormed(s) /\ s.seq >= ws.seq
  /\ \E e : \A id, d : Has(s, id, d) => Seen(id, d) \/ (id = s.seq /\ s.seq > ws.seq /\ d = e)
Move(s, rec, p) ==
  /\ app = "open" /\ Follows(s) /\ p \in {pending, Nothing} /\ (p # Nothing => ~Written(s))
  /\ rec \in Seq(Tab) /\ Editors(s, ToSet(rec))

LEMMA GrownFollows == ASSUME WellFormed(ws), NEW s, Grown(s) PROVE Follows(s)
  <1>1. ws.seq \in Nat
    BY StripShape DEF WellFormed
  <1>2. PICK e : \A id, d : Has(s, id, d) => Has(ws, id, d) \/ (s.seq = ws.seq + 1 /\ id = s.seq /\ d = e)
    BY DEF Grown
  <1>3. WellFormed(s) /\ s.seq >= ws.seq /\ (s.seq = ws.seq + 1 => s.seq > ws.seq)
    BY <1>1 DEF Grown
  <1> QED BY <1>2, <1>3 DEF Follows, Seen

LEMMA NoneAreEditors == <<>> \in Seq(Tab) /\ ToSet(<<>>) = {} /\ \A s : Editors(s, ToSet(<<>>))
  <1>1. <<>> \in Seq(Tab) /\ ToSet(<<>>) = {}
    BY DEF ToSet
  <1> QED BY <1>1 DEF Editors

LEMMA GrownMoves ==
  ASSUME SInv, app = "open", NEW s, Grown(s), pending # Nothing => ~Written(s)
  PROVE  Move(s, <<>>, pending)
  BY GrownFollows, NoneAreEditors DEF SInv, Strips, Move

LEMMA FocusIs == ASSUME NEW c \in Focus PROVE c \in Conns \cup {NoConn}
  BY TabsAssumption

LEMMA PlainAlone == ASSUME NEW t, NEW s, t.of = "plain" PROVE Alone(t, s)
  BY DEF Alone, Same

LEMMA OpenGrows ==
  ASSUME SInv, NEW of \in {"object", "snippet", "tool"}, NEW c \in Focus, NEW x \in Texts \cup {Blank}
  PROVE  Grown(OpenThing(ws, of, c, x))
  <1>1. WellFormed(ws) /\ born \in Nat /\ c \in Conns \cup {NoConn}
    BY FocusIs DEF SInv, Strips
  <1>2. CASE Opened(ws, of, c) # {}
    <2>1. WellFormed(ws) /\ ws.seq \in {ws.seq, ws.seq + 1}
      BY <1>1
    <2> QED BY <1>2, <2>1 DEF OpenThing, Grown
  <1>3. CASE Opened(ws, of, c) = {}
    <2>1. PICK t : t = NewTab(ws, of, c, x)
      OBVIOUS
    <2>2. t \in Tab /\ t.id = ws.seq + 1 /\ t.of = of /\ t.conn = c
      BY <1>1, <2>1, NewTabIs
    <2>3. Alone(t, ws)
      BY <1>3, <2>2 DEF Alone, Same, Opened
    <2>4. Grown(AddTab(ws, t))
      BY <1>1, <2>2, <2>3, AddGrows
    <2> QED BY <1>3, <2>1, <2>4 DEF OpenThing
  <1> QED BY <1>2, <1>3

LEMMA NewQueryMoves ==
  ASSUME SInv, NewQuery
  PROVE  \E s, rec, p, d : Become(s, rec, p, d) /\ Move(s, rec, p)
  <1>1. PICK c \in Focus, x \in Texts \cup {Blank} :
          (x # Blank => pending = Nothing) /\ SetTabs(AddTab(ws, NewTab(ws, "plain", c, x)))
    BY DEF NewQuery
  <1>2. app = "open"
    BY DEF NewQuery, Room
  <1>3. PICK t : t = NewTab(ws, "plain", c, x)
    OBVIOUS
  <1>4. WellFormed(ws) /\ born \in Nat
    BY DEF SInv, Strips
  <1>5. t \in Tab /\ t.id = ws.seq + 1 /\ t.of = "plain" /\ t.text = x
    BY <1>3, <1>4, FocusIs, NewTabIs
  <1>6. PICK s : s = AddTab(ws, t)
    OBVIOUS
  <1>7. Grown(s) /\ (Written(s) => Written(ws) \/ t.text # Blank)
    BY <1>4, <1>5, <1>6, PlainAlone, AddGrows
  <1>8. pending # Nothing => ~Written(s)
    BY <1>1, <1>5, <1>7 DEF SInv, Quiet
  <1>9. Move(s, <<>>, pending)
    BY <1>2, <1>7, <1>8, GrownMoves
  <1> QED BY <1>1, <1>3, <1>6, <1>9 DEF SetTabs

LEMMA OneTabIs == ASSUME NEW t \in Tab PROVE <<t>> \in Seq(Tab) /\ ToSet(<<t>>) = {t}
  <1>1. <<t>> \in Seq(Tab) /\ DOMAIN <<t>> = {1} /\ <<t>>[1] = t
    OBVIOUS
  <1> QED BY <1>1 DEF ToSet

LEMMA RunFromHistoryMoves ==
  ASSUME SInv, RunFromHistory
  PROVE  \E s, rec, p, d : Become(s, rec, p, d) /\ Move(s, rec, p)
  <1>1. PICK c \in Focus, x \in Texts :
          LET t == NewTab(ws, "plain", c, x)
          IN Become(AddTab(ws, t), <<t>>, pending, deferred)
    BY DEF RunFromHistory
  <1>2. app = "open" /\ pending = Nothing
    BY DEF RunFromHistory, Free
  <1>3. PICK t : t = NewTab(ws, "plain", c, x)
    OBVIOUS
  <1>4. WellFormed(ws) /\ born \in Nat
    BY DEF SInv, Strips
  <1>5. t \in Tab /\ t.id = ws.seq + 1 /\ t.of = "plain" /\ t.text = x
    BY <1>3, <1>4, FocusIs, NewTabIs
  <1>6. PICK s : s = AddTab(ws, t)
    OBVIOUS
  <1>7. Grown(s) /\ \E i \in DOMAIN s.tabs : s.tabs[i] = t
    BY <1>4, <1>5, <1>6, PlainAlone, AddGrows
  <1>8. PICK rec : rec = <<t>> /\ rec \in Seq(Tab) /\ ToSet(rec) = {t}
    BY <1>5, OneTabIs
  <1>9. Editors(s, ToSet(rec))
    BY <1>5, <1>7, <1>8 DEF Editors, IsQuery
  <1>10. Move(s, rec, pending)
    BY <1>2, <1>4, <1>7, <1>8, <1>9, GrownFollows DEF Move
  <1> QED BY <1>1, <1>3, <1>6, <1>8, <1>10

LEMMA RestoreVersionMoves ==
  ASSUME SInv, RestoreVersion
  PROVE  \E s, rec, p, d : Become(s, rec, p, d) /\ Move(s, rec, p)
  <1>1. PICK id \in Ids(ws) \cap DOMAIN hist : \E k \in DOMAIN hist[id] :
          LET t == ws.tabs[At(ws, id)]  x == hist[id][k].text
          IN /\ IsQuery(t)
             /\ Become(UpdateTabSql(ws, id, x), <<t, [t EXCEPT !.text = x]>>,
                       pending, deferred)
    BY DEF RestoreVersion
  <1>2. PICK k \in DOMAIN hist[id] :
          LET t == ws.tabs[At(ws, id)]  x == hist[id][k].text
          IN /\ IsQuery(t)
             /\ Become(UpdateTabSql(ws, id, x), <<t, [t EXCEPT !.text = x]>>,
                       pending, deferred)
    BY <1>1
  <1>3. app = "open" /\ pending = Nothing /\ WellFormed(ws) /\ History(hist)
    BY DEF RestoreVersion, Free, SInv, Histories, Strips
  <1>4. PICK t, x : t = ws.tabs[At(ws, id)] /\ x = hist[id][k].text
    OBVIOUS
  <1>5. x \in Texts \cup {Blank}
    <2>1. hist[id] \in Seq(Version)
      BY <1>3 DEF History
    <2>2. hist[id][k] \in Version
      BY <2>1, LenProperties, ElementOfSeq
    <2> QED BY <1>4, <2>2 DEF Version
  <1>6. PICK u, s : u = [t EXCEPT !.text = x] /\ s = UpdateTabSql(ws, id, x)
    OBVIOUS
  <1>7. Grown(s) /\ u \in Tab /\ Like(u, t) /\ \E i \in DOMAIN s.tabs : s.tabs[i] = u
    BY <1>3, <1>4, <1>5, <1>6, TypedGrows
  <1>8. t \in Tab /\ At(ws, id) \in DOMAIN ws.tabs
    BY <1>3, <1>4, AtIs, StripShape DEF WellFormed
  <1>9. PICK rec : rec = <<t, u>>
    OBVIOUS
  <1>10. rec \in Seq(Tab) /\ ToSet(rec) = {t, u}
    <2>1. rec \in Seq(Tab) /\ DOMAIN rec = {1, 2} /\ rec[1] = t /\ rec[2] = u
      BY <1>7, <1>8, <1>9
    <2> QED BY <2>1 DEF ToSet
  <1>11. Editors(s, ToSet(rec))
    BY <1>2, <1>4, <1>7, <1>8, <1>10 DEF Editors, IsQuery, Like
  <1>12. Move(s, rec, pending)
    BY <1>3, <1>7, <1>10, <1>11, GrownFollows DEF Move
  <1> QED BY <1>2, <1>4, <1>6, <1>9, <1>12

LEMMA SetTabsMoves ==
  ASSUME SInv, app = "open", NEW s, SetTabs(s), Grown(s), pending # Nothing => ~Written(s)
  PROVE  \E r, rec, p, d : Become(r, rec, p, d) /\ Move(r, rec, p)
  <1>1. Move(s, <<>>, pending)
    BY GrownMoves
  <1> QED BY <1>1 DEF SetTabs

LEMMA FreeMoves ==
  ASSUME SInv, Open \/ Duplicate \/ CloseMany \/ Pin \/ Bind \/ Type
  PROVE  \E s, rec, p, d : Become(s, rec, p, d) /\ Move(s, rec, p)
  <1>1. app = "open" /\ pending = Nothing
    BY DEF Open, Duplicate, CloseMany, Pin, Bind, Type, Free
  <1>2. WellFormed(ws) /\ born \in Nat
    BY DEF SInv, Strips
  <1>3. SUFFICES \E s : SetTabs(s) /\ Grown(s)
    BY <1>1, <1>3, SetTabsMoves
  <1>4. CASE Open
    <2>1. PICK of \in {"object", "snippet", "tool"}, c \in Focus, x \in Texts \cup {Blank} :
            SetTabs(OpenThing(ws, of, c, x))
      BY <1>4 DEF Open
    <2> QED BY <2>1, OpenGrows
  <1>5. CASE Duplicate
    BY <1>2, <1>5, DuplicateGrows DEF Duplicate
  <1>6. CASE CloseMany
    <2>1. CASE \E c \in Conns : SetTabs(CloseTabsForConn(ws, c))
      BY <1>2, <2>1, ClosedGrows DEF CloseTabsForConn
    <2>2. CASE \E id \in Ids(ws) : SetTabs(CloseOtherTabs(ws, id))
      BY <1>2, <2>2, ClosedGrows DEF CloseOtherTabs
    <2>3. CASE \E id \in Ids(ws) : SetTabs(CloseTabsToRight(ws, id))
      BY <1>2, <2>3, ClosedRightGrows
    <2> QED BY <1>6, <2>1, <2>2, <2>3 DEF CloseMany
  <1>7. CASE Pin
    BY <1>2, <1>7, PinnedGrows DEF Pin
  <1>8. CASE Bind
    BY <1>2, <1>8, BoundGrows DEF Bind
  <1>9. CASE Type
    <2>1. PICK id \in Ids(ws), x \in Texts \cup {Blank} : SetTabs(UpdateTabSql(ws, id, x))
      BY <1>9 DEF Type
    <2> QED BY <1>2, <2>1, TypedGrows
  <1> QED BY <1>4, <1>5, <1>6, <1>7, <1>8, <1>9

LEMMA CloseMoves ==
  ASSUME SInv, Close \/ CloseAll
  PROVE  \E s, rec, p, d : Become(s, rec, p, d) /\ Move(s, rec, p)
  <1>1. app = "open" /\ WellFormed(ws) /\ Quiet
    BY DEF Close, CloseAll, SInv, Strips
  <1>2. \E s : SetTabs(s) /\ Grown(s) /\ (Written(s) => Written(ws))
    <2>1. CASE Close
      BY <1>1, <2>1, ClosedGrows DEF Close, CloseTab
    <2>2. CASE CloseAll
      BY <1>1, <2>2, ClosedGrows DEF CloseAll, CloseAllTabs
    <2> QED BY <2>1, <2>2
  <1> QED BY <1>1, <1>2, SetTabsMoves DEF Quiet

(* The answers to the offer; resuming puts the tabs of the offer in front    *)
(* and keeps the larger of the two counts.                                   *)
LEMMA ResumedIs ==
  ASSUME NEW s, WellFormed(s), NEW r, WellFormed(r)
  PROVE  LET n == Resumed(s, r) IN
         /\ WellFormed(n) /\ n.tabs = s.tabs /\ n.seq >= r.seq /\ n.seq >= s.seq
         /\ n.seq \in {s.seq, r.seq}
  <1>1. s.seq \in Nat /\ r.seq \in Nat
    BY StripShape DEF WellFormed
  <1>2. PICK m : m = Largest({s.seq, r.seq})
    OBVIOUS
  <1>3. m = IF s.seq >= r.seq THEN s.seq ELSE r.seq
    BY <1>1, <1>2, LargestIs
  <1>4. PICK n : n = [s EXCEPT !.seq = m]
    OBVIOUS
  <1>5. n \in TabState /\ n.tabs = s.tabs /\ n.seq = m
    BY <1>1, <1>3, <1>4 DEF TabState, WellFormed
  <1>6. \A i \in DOMAIN s.tabs : s.tabs[i].id \in Nat
    BY StripShape DEF WellFormed
  <1>7. WellFormed(n)
    BY <1>1, <1>3, <1>5, <1>6 DEF WellFormed
  <1>8. n = Resumed(s, r)
    BY <1>2, <1>4 DEF Resumed
  <1> QED BY <1>1, <1>3, <1>5, <1>7, <1>8

LEMMA AnswerMoves ==
  ASSUME SInv, ResumeSession \/ Discard \/ Later
  PROVE  \E s, rec, p, d : Become(s, rec, p, d) /\ Move(s, rec, p)
  <1>1. pending # Nothing /\ app = "open"
    BY DEF ResumeSession, Discard, Later, SInv, Shut
  <1>2. WellFormed(ws) /\ WellFormed(pending) /\ ws.seq \in Nat
    BY <1>1, StripShape DEF SInv, Strips, WellFormed
  <1>3. \E s, d : Become(s, <<>>, Nothing, d) /\ Follows(s)
    <2>1. CASE ResumeSession
      <3>1. PICK s : s = Resumed(pending, ws) /\ Become(s, <<>>, Nothing, deferred)
        BY <2>1 DEF ResumeSession
      <3>2. WellFormed(s) /\ s.tabs = pending.tabs /\ s.seq >= ws.seq
        BY <1>2, <3>1, ResumedIs
      <3>3. \A id, d : Has(s, id, d) => Seen(id, d)
        BY <1>1, <3>2 DEF Has, Seen, Held
      <3> QED BY <3>1, <3>2, <3>3 DEF Follows
    <2>2. CASE Discard \/ Later
      <3>1. \E d : Become(ws, <<>>, Nothing, d)
        BY <2>2 DEF Discard, Later
      <3>2. Follows(ws)
        BY <1>2 DEF Follows, Seen
      <3> QED BY <3>1, <3>2
    <2> QED BY <2>1, <2>2
  <1>4. \A s : Follows(s) => Move(s, <<>>, Nothing)
    BY <1>1, <1>2, NoneAreEditors DEF Move
  <1> QED BY <1>3, <1>4

Changes ==
  \/ NewQuery \/ RunFromHistory \/ Open \/ Duplicate \/ Close \/ CloseMany \/ CloseAll
  \/ Pin \/ Bind \/ Type \/ RestoreVersion \/ ResumeSession \/ Discard \/ Later

LEMMA ChangesMove ==
  ASSUME SInv, Changes PROVE \E s, rec, p, d : Become(s, rec, p, d) /\ Move(s, rec, p)
  BY NewQueryMoves, RunFromHistoryMoves, RestoreVersionMoves, FreeMoves, CloseMoves, AnswerMoves
  DEF Changes

(* The editors that a change takes off the strip: what Become records.       *)
LEMMA LostAre ==
  ASSUME WellFormed(ws), NEW s
  PROVE  /\ Lost(s) \in Seq(Tab) /\ Editors(s, ToSet(Lost(s)))
         /\ \A i, j \in DOMAIN Lost(s) : Lost(s)[i].id = Lost(s)[j].id => i = j
         /\ \A k \in DOMAIN Queries(ws) :
              LET t == Queries(ws)[k] IN
              t.id \notin Ids(s) => \E i \in DOMAIN Lost(s) : Lost(s)[i] = t
  <1>1. PICK x, T, r : /\ x = ws.tabs /\ r = Only(x, T)
                       /\ T = {t \in ToSet(x) : IsQuery(t) /\ t.id \notin Ids(s)}
    OBVIOUS
  <1>2. r = Lost(s)
    BY <1>1 DEF Lost
  <1>3. x \in Seq(Tab)
    BY <1>1, StripShape DEF WellFormed
  <1>4. /\ Only(x, T) \in Seq(Tab) /\ Taken(Only(x, T), x)
        /\ \A i \in DOMAIN Only(x, T) : Only(x, T)[i] \in T
        /\ \A k \in DOMAIN x : x[k] \in T => \E i \in DOMAIN Only(x, T) : Only(x, T)[i] = x[k]
    BY <1>3, OnlyTaken
  <1>5. /\ r \in Seq(Tab) /\ Taken(r, x) /\ \A i \in DOMAIN r : r[i] \in T
        /\ \A k \in DOMAIN x : x[k] \in T => \E i \in DOMAIN r : r[i] = x[k]
    BY <1>1, <1>4
  <1>6. PICK w : Takes(r, x, w)
    BY <1>5 DEF Taken
  <1>7. ASSUME NEW i \in DOMAIN r
        PROVE  IsQuery(r[i]) /\ \E k \in DOMAIN x : x[k] = r[i]
    <2>1. r[i] \in T
      BY <1>5
    <2>2. IsQuery(r[i])
      BY <1>1, <2>1
    <2>3. w[i] \in DOMAIN x /\ r[i] = x[w[i]]
      BY <1>6 DEF Takes
    <2> QED BY <2>2, <2>3
  <1>8. Editors(s, ToSet(r))
    BY <1>1, <1>7 DEF Editors, ToSet
  <1>9. \A i, j \in DOMAIN r : r[i].id = r[j].id => i = j
    BY <1>1, <1>6 DEF Takes, WellFormed
  <1>10. PICK q : q = Queries(ws)
    OBVIOUS
  <1>11. Taken(q, x) /\ \A k \in DOMAIN q : IsQuery(q[k])
    BY <1>1, <1>10, QueriesAre DEF WellFormed
  <1>12. ASSUME NEW k \in DOMAIN q, q[k].id \notin Ids(s) PROVE \E i \in DOMAIN r : r[i] = q[k]
    <2>1. PICK j \in DOMAIN x : x[j] = q[k]
      BY <1>11 DEF Taken, Takes
    <2>2. x[j] \in T
      BY <1>1, <1>11, <1>12, <2>1 DEF ToSet
    <2> QED BY <1>5, <2>1, <2>2
  <1> QED BY <1>2, <1>5, <1>8, <1>9, <1>10, <1>12

(* What a change leaves of the history, in the window and stored.            *)
LEMMA MoveRecords ==
  ASSUME SInv, NEW s, NEW rec, NEW p, NEW d, Become(s, rec, p, d), Move(s, rec, p)
  PROVE  /\ Histories'
         /\ \E R : /\ Editors(s, R) /\ Extends(hist, hist', R)
                  /\ (stored' = stored \/ Extends(hist, stored', R))
         /\ \A k \in DOMAIN Queries(ws) :
              LET t == Queries(ws)[k] IN
              Recordable(t) /\ t.id \notin Ids(s) => IsNewest(hist', t)
  <1>1. PICK lost, ts : lost = Lost(s) /\ ts = rec \o lost
    OBVIOUS
  <1>2. WellFormed(ws)
    BY DEF SInv, Strips
  <1>3. /\ lost \in Seq(Tab) /\ Editors(s, ToSet(lost))
        /\ \A i, j \in DOMAIN lost : lost[i].id = lost[j].id => i = j
        /\ \A k \in DOMAIN Queries(ws) :
             LET t == Queries(ws)[k] IN
             t.id \notin Ids(s) => \E i \in DOMAIN lost : lost[i] = t
    BY <1>1, <1>2, LostAre
  <1>4. lost \in Seq(Tab) /\ rec \in Seq(Tab) /\ Editors(s, ToSet(rec))
    BY <1>3 DEF Move
  <1>5. PICK m, n : m = Len(rec) /\ n = Len(lost)
    OBVIOUS
  <1>6. m \in Nat /\ n \in Nat /\ DOMAIN rec = 1..m /\ DOMAIN lost = 1..n
    BY <1>4, <1>5, LenProperties
  <1>7. /\ ts \in Seq(Tab) /\ Len(ts) = m + n
        /\ \A i \in 1..(m + n) : ts[i] = IF i <= m THEN rec[i] ELSE lost[i - m]
    BY <1>1, <1>4, <1>5, ConcatProperties
  <1>8. DOMAIN ts = 1..(m + n)
    BY <1>7, LenProperties
  <1>9. ToSet(ts) \subseteq ToSet(rec) \cup ToSet(lost)
    <2>1. ASSUME NEW i \in DOMAIN ts PROVE ts[i] \in ToSet(rec) \cup ToSet(lost)
      <3>1. CASE i <= m
        <4>1. i \in DOMAIN rec /\ ts[i] = rec[i]
          BY <3>1, <1>6, <1>7, <1>8
        <4> QED BY <4>1 DEF ToSet
      <3>2. CASE ~(i <= m)
        <4>1. i - m \in DOMAIN lost /\ ts[i] = lost[i - m]
          BY <3>2, <1>6, <1>7, <1>8
        <4> QED BY <4>1 DEF ToSet
      <3> QED BY <3>1, <3>2
    <2> QED BY <2>1 DEF ToSet
  <1>10. Editors(s, ToSet(ts))
    BY <1>3, <1>4, <1>9 DEF Editors
  <1>11. ASSUME NEW i \in DOMAIN lost, Recordable(lost[i])
         PROVE  \E k \in DOMAIN ts : ts[k] = lost[i] /\ Final(ts, k)
    <2>1. PICK k : k = m + i
      OBVIOUS
    <2>2. k \in DOMAIN ts /\ ts[k] = lost[i]
      BY <1>6, <1>7, <1>8, <2>1
    <2>3. ASSUME NEW j \in DOMAIN ts, j > k PROVE ts[j].id # ts[k].id
      <3>1. j - m \in DOMAIN lost /\ ts[j] = lost[j - m] /\ j - m # i
        BY <1>6, <1>7, <1>8, <2>1, <2>3
      <3> QED BY <3>1, <1>3, <2>2
    <2>4. Final(ts, k)
      BY <1>11, <2>2, <2>3 DEF Final
    <2> QED BY <2>2, <2>4
  <1>12. Records(ts)
    BY <1>1 DEF Become
  <1>13. History(hist) /\ History(stored) /\ (~warned => stored = hist)
    BY DEF SInv, Histories, Told
  <1>14. /\ History(hist') /\ Extends(hist, hist', ToSet(ts))
         /\ History(stored') /\ (stored' = stored \/ Extends(hist, stored', ToSet(ts)))
         /\ \A k \in DOMAIN ts : Final(ts, k) => IsNewest(hist', ts[k])
         /\ ~warned' => stored' = hist'
    BY <1>7, <1>12, <1>13, RecordsAre
  <1>15. Histories'
    BY <1>14 DEF Histories, Told, History
  <1>16. \A k \in DOMAIN Queries(ws) :
           LET t == Queries(ws)[k] IN
           Recordable(t) /\ t.id \notin Ids(s) => IsNewest(hist', t)
    BY <1>3, <1>11, <1>14
  <1> QED BY <1>10, <1>14, <1>15, <1>16

LEMMA MoveKeeps ==
  ASSUME SInv, NEW s, NEW rec, NEW p, NEW d, Become(s, rec, p, d), Move(s, rec, p)
  PROVE  SInv'
  <1>1. /\ ws' = s /\ pending' = p /\ app' = app /\ disk' = disk /\ timer' \in {timer, s}
        /\ born' \in {born, born + 1}
    BY DEF Become
  <1>2. /\ app = "open" /\ WellFormed(s) /\ p \in {pending, Nothing}
        /\ (p # Nothing => ~Written(s))
    BY DEF Move, Follows
  <1>3. born \in Nat /\ \A r \in {pending, timer, disk} : r = Nothing \/ WellFormed(r)
    BY DEF SInv, Strips
  <1>4. born' \in Nat
    BY <1>1, <1>3
  <1>5. WellFormed(ws') /\ (pending' # Nothing => ~Written(ws'))
    BY <1>1, <1>2
  <1>6. \A r \in {pending', timer', disk'} : r = Nothing \/ WellFormed(r)
    BY <1>1, <1>2, <1>3
  <1>7. Strips'
    BY <1>4, <1>5, <1>6 DEF Strips, WellFormed
  <1>8. Quiet'
    BY <1>5 DEF Quiet, Written
  <1>9. Histories'
    BY MoveRecords
  <1>10. Shut'
    BY <1>1, <1>2 DEF Shut
  <1> QED BY <1>7, <1>8, <1>9, <1>10 DEF SInv

(* The other steps: versions recorded, the save, hiding, leaving, starting.  *)
LEMMA RecordsKeep ==
  ASSUME SInv, Run \/ Snapshot
  PROVE  /\ app = "open" /\ UNCHANGED <<app, ws, pending, deferred, timer, disk, unsaved, born, worked>>
         /\ Histories'
         /\ \E R : /\ Editors(ws, R) /\ Extends(hist, hist', R)
                  /\ (stored' = stored \/ Extends(hist, stored', R))
  <1>1. WellFormed(ws)
    BY DEF SInv, Strips
  <1>2. app = "open" /\ UNCHANGED <<app, ws, pending, deferred, timer, disk, unsaved, born, worked>>
    BY DEF Run, Snapshot, Keep, Free
  <1>3. \E ts \in Seq(Tab) : Records(ts) /\ Editors(ws, ToSet(ts))
    <2>1. CASE Run
      <3>1. PICK id \in Ids(ws) : IsQuery(ws.tabs[At(ws, id)]) /\ Keep(<<ws.tabs[At(ws, id)]>>)
        BY <2>1 DEF Run
      <3>2. PICK t : t = ws.tabs[At(ws, id)]
        OBVIOUS
      <3>3. At(ws, id) \in DOMAIN ws.tabs /\ t \in Tab
        BY <1>1, <3>2, AtIs, StripShape DEF WellFormed
      <3>4. PICK ts : ts = <<t>> /\ ts \in Seq(Tab) /\ ToSet(ts) = {t}
        BY <3>3, OneTabIs
      <3>5. Records(ts)
        BY <3>1, <3>2, <3>4 DEF Keep
      <3>6. Editors(ws, ToSet(ts))
        BY <3>1, <3>2, <3>3, <3>4 DEF Editors
      <3> QED BY <3>4, <3>5, <3>6
    <2>2. CASE Snapshot
      <3>1. PICK q : q = Queries(ws)
        OBVIOUS
      <3>2. /\ q \in Seq(Tab) /\ Taken(q, ws.tabs) /\ \A i \in DOMAIN q : IsQuery(q[i])
        BY <1>1, <3>1, QueriesAre DEF WellFormed
      <3>3. Editors(ws, ToSet(q))
        BY <3>2 DEF Editors, Taken, Takes, ToSet
      <3>4. Records(q)
        BY <2>2, <3>1 DEF Snapshot, Keep
      <3> QED BY <3>2, <3>3, <3>4
    <2> QED BY <2>1, <2>2
  <1>4. PICK ts \in Seq(Tab) : Records(ts) /\ Editors(ws, ToSet(ts))
    BY <1>3
  <1>5. History(hist) /\ History(stored) /\ (~warned => stored = hist)
    BY DEF SInv, Histories, Told
  <1>6. /\ History(hist') /\ Extends(hist, hist', ToSet(ts))
        /\ History(stored') /\ (stored' = stored \/ Extends(hist, stored', ToSet(ts)))
        /\ ~warned' => stored' = hist'
    BY <1>4, <1>5, RecordsAre
  <1>7. Histories'
    BY <1>6 DEF Histories, Told, History
  <1> QED BY <1>2, <1>4, <1>6, <1>7

(* The session is saved, refused, or not written: that only with nothing due *)
(* where no save is to be lost.                                              *)
LEMMA SavesAre ==
  ASSUME Strips, Save \/ Hide \/ Quit \/ Crash
  PROVE  /\ app = "open" /\ timer' = Nothing
         /\ disk' = Nothing \/ WellFormed(disk')
         /\ \A id, x : Held(disk', id, x) => Held(disk, id, x) \/ Held(timer, id, x) \/ Has(ws, id, x)
         /\ \/ UNCHANGED <<disk, unsaved>> /\ (Settled => timer = Nothing)
            \/ disk' = disk /\ unsaved' = TRUE
            \/ /\ unsaved' = FALSE /\ disk' # Nothing
               /\ disk'.seq = ws.seq \/ (timer # Nothing /\ disk'.seq = timer.seq)
  <1>1. app = "open" /\ timer' = Nothing
    BY DEF Save, Hide, Quit, Crash, Flush, Ends
  <1>2. \A w : WellFormed(w) =>
          LET r == SerializeWorkspace(w) IN
          /\ WellFormed(r) /\ r # Nothing /\ r.seq = w.seq /\ \A id, x : Has(r, id, x) => Has(w, id, x)
    <2> SUFFICES ASSUME NEW w, WellFormed(w)
                 PROVE  LET r == SerializeWorkspace(w) IN
                        /\ WellFormed(r) /\ r # Nothing /\ r.seq = w.seq
                        /\ \A id, x : Has(r, id, x) => Has(w, id, x)
      OBVIOUS
    <2>1. PICK r : r = SerializeWorkspace(w)
      OBVIOUS
    <2>2. WellFormed(r) /\ r.seq = w.seq /\ \A id, x : Has(r, id, x) => Has(w, id, x)
      BY <2>1, SavedIsWell
    <2>3. r # Nothing
      BY <2>2, TabsAssumption DEF WellFormed
    <2> QED BY <2>1, <2>2, <2>3
  <1>3. \/ UNCHANGED <<disk, unsaved>> /\ (Settled => timer = Nothing)
        \/ disk' = disk /\ unsaved' = TRUE
        \/ unsaved' = FALSE /\ disk' = SerializeWorkspace(ws)
        \/ unsaved' = FALSE /\ timer # Nothing /\ disk' = SerializeWorkspace(timer)
    <2>1. CASE Save
      BY <2>1 DEF Save, SaveWorkspace
    <2>2. CASE Crash
      BY <2>2 DEF Crash
    <2>3. CASE Hide \/ Quit
      <3>1. /\ Settled => timer = Nothing \/ (pending = Nothing /\ ~KeepsDeferred(deferred, ws))
            /\ IF Flushed(deferred) = Nothing THEN UNCHANGED <<disk, unsaved>>
               ELSE SaveWorkspace(Flushed(deferred))
        BY <2>3 DEF Hide, Quit, Flush
      <3>2. CASE pending # Nothing \/ KeepsDeferred(deferred, ws)
        BY <3>1, <3>2 DEF Flushed
      <3>3. CASE pending = Nothing /\ ~KeepsDeferred(deferred, ws)
        <4>1. Flushed(deferred) = SerializeWorkspace(ws)
          BY <3>3 DEF Flushed
        <4>2. Flushed(deferred) # Nothing
          BY <1>2, <4>1 DEF Strips
        <4> QED BY <3>1, <4>1, <4>2 DEF SaveWorkspace
      <3> QED BY <3>2, <3>3
    <2> QED BY <2>1, <2>2, <2>3
  <1>4. CASE disk' = disk /\ ((UNCHANGED unsaved /\ (Settled => timer = Nothing)) \/ unsaved' = TRUE)
    BY <1>1, <1>4 DEF Strips
  <1>5. ASSUME NEW w, w = ws \/ (timer # Nothing /\ w = timer), disk' = SerializeWorkspace(w),
               unsaved' = FALSE
        PROVE  /\ WellFormed(disk') /\ disk' # Nothing
               /\ \A id, x : Held(disk', id, x) => Held(timer, id, x) \/ Has(ws, id, x)
               /\ disk'.seq = ws.seq \/ (timer # Nothing /\ disk'.seq = timer.seq)
    <2>1. PICK r : r = SerializeWorkspace(w)
      OBVIOUS
    <2>2. WellFormed(w)
      BY <1>5 DEF Strips
    <2>3. WellFormed(r) /\ r # Nothing /\ r.seq = w.seq /\ \A id, x : Has(r, id, x) => Has(w, id, x)
      BY <1>2, <2>1, <2>2
    <2> QED BY <1>5, <2>1, <2>3 DEF Held
  <1> QED BY <1>1, <1>3, <1>4, <1>5

LEMMA StartIs ==
  ASSUME SInv, Start
  PROVE  /\ app # "open" /\ app' = "open" /\ unsaved' = FALSE
         /\ UNCHANGED <<disk, hist, stored, warned, born>>
         /\ WellFormed(ws') /\ pending' \in {Nothing, disk} /\ timer' \in {Nothing, ws'}
         /\ ws'.tabs = <<>> \/ (disk # Nothing /\ ws'.tabs = disk.tabs /\ pending' = Nothing /\ timer' = ws')
         /\ ws'.seq = IF ParseWorkspace(disk) = Nothing THEN 0 ELSE disk.seq
         /\ ParseWorkspace(disk) = Nothing => pending' = Nothing /\ ws'.tabs = <<>>
  <1>1. disk = Nothing \/ WellFormed(disk)
    BY DEF SInv, Strips
  <1>2. PICK saved, offer, empty :
          /\ saved = ParseWorkspace(disk) /\ offer = Offered(saved) /\ empty = EmptySession(saved)
    OBVIOUS
  <1>3. saved = Nothing \/ (saved = disk /\ WellFormed(disk) /\ disk # Nothing)
    BY <1>1, <1>2, ParsedIs
  <1>4. offer = Nothing \/ offer = saved
    BY <1>2 DEF Offered
  <1>5. saved = Nothing \/ saved.seq \in Nat
    BY <1>3, StripShape DEF WellFormed
  <1>6. /\ WellFormed(empty) /\ empty.seq = (IF saved = Nothing THEN 0 ELSE saved.seq)
        /\ empty.tabs = <<>>
    BY <1>2, <1>5, EmptyIsWell
  <1>7. /\ app # "open" /\ app' = "open" /\ unsaved' = FALSE
        /\ UNCHANGED <<disk, hist, stored, warned, born>>
        /\ \/ /\ ws' = empty /\ pending' = offer
              /\ timer' = IF offer = Nothing THEN empty ELSE Nothing
           \/ offer # Nothing /\ ws' = Resumed(offer, empty) /\ pending' = Nothing /\ timer' = ws'
           \/ ws' = empty /\ pending' = Nothing /\ timer' = Nothing
    BY <1>2 DEF Start
  <1>8. CASE ws' = empty
    BY <1>2, <1>3, <1>4, <1>6, <1>7, <1>8
  <1>9. CASE offer # Nothing /\ ws' = Resumed(offer, empty) /\ pending' = Nothing /\ timer' = ws'
    <2>1. offer = disk /\ saved = disk /\ WellFormed(disk) /\ disk # Nothing /\ disk.seq \in Nat
      BY <1>3, <1>4, <1>5, <1>9
    <2>2. empty.seq = disk.seq
      BY <1>6, <2>1
    <2>3. PICK r : r = Resumed(disk, empty)
      OBVIOUS
    <2>4. WellFormed(r) /\ r.tabs = disk.tabs /\ r.seq \in {disk.seq, empty.seq}
      BY <1>6, <2>1, <2>3, ResumedIs
    <2>5. ws' = r
      BY <1>9, <2>1, <2>3
    <2> QED BY <1>2, <1>7, <1>9, <2>1, <2>2, <2>4, <2>5
  <1> QED BY <1>7, <1>8, <1>9

LEMMA OthersKeep ==
  ASSUME SInv, Run \/ Snapshot \/ Save \/ Hide \/ Quit \/ Crash \/ Start \/ UNCHANGED vars
  PROVE  SInv'
  <1>1. Strips /\ WellFormed(ws) /\ born \in Nat /\ Histories
    BY DEF SInv, Strips
  <1>2. \A s \in {pending, timer, disk} : s = Nothing \/ WellFormed(s)
    BY DEF SInv, Strips
  <1>3. CASE Run \/ Snapshot
    <2>1. UNCHANGED <<app, ws, pending, deferred, timer, disk, unsaved, born, worked>> /\ Histories'
      BY <1>3, RecordsKeep
    <2>2. Strips' /\ Shut' /\ Quiet'
      BY <2>1 DEF SInv, Strips, WellFormed, Shut, Quiet, Written
    <2> QED BY <2>1, <2>2 DEF SInv
  <1>4. CASE Save \/ Hide
    <2>1. UNCHANGED <<app, ws, pending, hist, stored, warned, born>>
      BY <1>4 DEF Save, Hide
    <2>2. (disk' = Nothing \/ WellFormed(disk')) /\ timer' = Nothing /\ app = "open"
      BY <1>1, <1>4, SavesAre
    <2>3. Strips'
      BY <1>1, <1>2, <2>1, <2>2 DEF Strips, WellFormed
    <2>4. Histories' /\ Shut' /\ Quiet'
      BY <1>1, <2>1, <2>2 DEF SInv, Histories, Told, History, Shut, Quiet, Written
    <2> QED BY <2>3, <2>4 DEF SInv
  <1>5. CASE Quit \/ Crash
    <2>1. /\ hist' = stored /\ warned' = FALSE /\ UNCHANGED <<stored, born>> /\ pending' = Nothing
          /\ ws' = EmptySession(Nothing)
      BY <1>5 DEF Quit, Crash, Ends
    <2>2. (disk' = Nothing \/ WellFormed(disk')) /\ timer' = Nothing
      BY <1>1, <1>5, SavesAre
    <2>3. WellFormed(ws')
      BY <2>1, EmptyIsWell
    <2>4. Strips'
      BY <1>1, <2>1, <2>2, <2>3 DEF Strips, WellFormed
    <2>5. Histories'
      BY <1>1, <2>1 DEF Histories, Told, History
    <2>6. Shut' /\ Quiet'
      BY <2>1, <2>2 DEF Shut, Quiet, EmptySession
    <2> QED BY <2>4, <2>5, <2>6 DEF SInv
  <1>6. CASE Start
    <2>1. /\ app' = "open" /\ UNCHANGED <<disk, hist, stored, warned, born>>
          /\ WellFormed(ws') /\ pending' \in {Nothing, disk} /\ timer' \in {Nothing, ws'}
          /\ ws'.tabs = <<>> \/ pending' = Nothing
      BY <1>6, StartIs
    <2>2. Strips'
      BY <1>1, <1>2, <2>1 DEF Strips, WellFormed
    <2>3. Histories' /\ Shut'
      BY <1>1, <2>1 DEF Histories, Told, History, Shut
    <2>4. Quiet'
      BY <2>1 DEF Quiet, Written
    <2> QED BY <2>2, <2>3, <2>4 DEF SInv
  <1>7. CASE UNCHANGED vars
    BY <1>7 DEF vars, SInv, Strips, WellFormed, Histories, Told, History, Shut, Quiet, Written
  <1> QED BY <1>3, <1>4, <1>5, <1>6, <1>7

LEMMA StripsInvariance == Spec => []SInv
  <1>1. Init => SInv
    <2> SUFFICES ASSUME Init PROVE SInv
      OBVIOUS
    <2>1. WellFormed(ws)
      BY EmptyIsWell DEF Init
    <2>2. Histories
      BY DEF Init, Histories, Told, History
    <2> QED BY <2>1, <2>2 DEF Init, SInv, Strips, Shut, Quiet
  <1>2. SInv /\ [Next]_vars => SInv'
    <2> SUFFICES ASSUME SInv, [Next]_vars PROVE SInv'
      OBVIOUS
    <2>1. CASE Changes
      BY <2>1, ChangesMove, MoveKeeps
    <2>2. CASE ~Changes
      BY <2>2, OthersKeep DEF Next, Changes
    <2> QED BY <2>1, <2>2
  <1> QED BY <1>1, <1>2, PTL DEF Spec

(* One tab for an object or a tool on each connection, and for a snippet,    *)
(* over copies, rebinding and restored sessions (issues #338, #414, #493).   *)
THEOREM OneTabForAThing == Spec => []OneTabPerThing
  <1>1. SInv => OneTabPerThing
    <2> SUFFICES ASSUME SInv, NEW of \in {"object", "snippet", "tool"}, NEW c \in Focus
                 PROVE  Cardinality(Opened(ws, of, c)) <= 1
      BY DEF OneTabPerThing
    <2>1. PICK S : S = Opened(ws, of, c)
      OBVIOUS
    <2>2. \A i, j \in S : i = j
      BY <2>1 DEF SInv, Strips, WellFormed, Opened, Same
    <2>3. CASE S = {}
      <3>1. Cardinality(S) = 0
        BY <2>3, FS_EmptySet
      <3> QED BY <2>1, <3>1
    <2>4. CASE S # {}
      <3>1. PICK i : S = {i}
        BY <2>2, <2>4
      <3>2. Cardinality(S) = 1
        BY <3>1, FS_Singleton
      <3> QED BY <2>1, <3>2
    <2> QED BY <2>3, <2>4
  <1> QED BY <1>1, StripsInvariance, PTL

LEMMA TextIsWorth ==
  ASSUME WellFormed(ws), NEW k \in DOMAIN Queries(ws), Queries(ws)[k].text # Blank
  PROVE  Written(ws) /\ WorthRestoring(ws)
  <1>1. Taken(Queries(ws), ws.tabs) /\ IsQuery(Queries(ws)[k])
    BY QueriesAre DEF WellFormed
  <1>2. \E i \in DOMAIN ws.tabs : ws.tabs[i] = Queries(ws)[k]
    BY <1>1 DEF Taken, Takes
  <1>3. Written(ws)
    BY <1>1, <1>2 DEF Written
  <1> QED BY <1>3 DEF WorthRestoring

LEMMA EmptyHasNoQuery == ~\E k \in DOMAIN Queries(EmptySession(Nothing)) : TRUE
  <1>1. PICK e : e = EmptySession(Nothing)
    OBVIOUS
  <1>2. e \in TabState /\ e.tabs = <<>>
    BY <1>1, EmptyIsWell DEF WellFormed
  <1>3. Taken(Queries(e), e.tabs)
    BY <1>2, QueriesAre
  <1> QED BY <1>1, <1>2, <1>3 DEF Taken, Takes

(* "Never lose editor work" (localHistory.ts:1): the text of a tab closed in *)
(* any way is the newest version under its id, in the window and, unless the *)
(* user was warned, in the store: but for a text that is blank or too big    *)
(* and with the history off. The text of a tab open when the application is  *)
(* left, of any size, is in the session it saves, if the store takes it.     *)
THEOREM ClosedTextStays == Spec => ClosedTextIsKept
  <1> DEFINE Safe(k) ==
        LET t == Queries(ws)[k] IN
        /\ app' = "open" /\ t.id \notin Ids(ws)' /\ Recordable(t) =>
             IsNewest(hist', t) /\ (~warned' => IsNewest(stored', t))
        /\ app' = "closed" /\ t.text # Blank /\ t \in LastQueries(ws) /\ ~unsaved' =>
             disk' # Nothing /\ \E i \in DOMAIN disk'.tabs : disk'.tabs[i] = t
  <1>1. SInv /\ [Next]_vars => [\A k \in DOMAIN Queries(ws) : Safe(k)]_vars
    <2> SUFFICES ASSUME SInv, Next, NEW k \in DOMAIN Queries(ws) PROVE Safe(k)
      OBVIOUS
    <2>1. PICK t : t = Queries(ws)[k]
      OBVIOUS
    <2>2. WellFormed(ws)
      BY DEF SInv, Strips
    <2>3. app = "open"
      BY EmptyHasNoQuery DEF SInv, Shut
    <2>4. CASE Changes
      <3>1. PICK s, rec, p, d : Become(s, rec, p, d) /\ Move(s, rec, p)
        BY <2>4, ChangesMove
      <3>2. ws' = s /\ app' = "open"
        BY <2>3, <3>1 DEF Become
      <3>3. /\ t.id \notin Ids(s) /\ Recordable(t) => IsNewest(hist', t)
            /\ Told'
        BY <2>1, <3>1, MoveRecords DEF Histories
      <3>4. Ids(ws)' = Ids(s)
        BY <3>2 DEF Ids
      <3>5. ~warned' /\ IsNewest(hist', t) => IsNewest(stored', t)
        BY <3>3 DEF Told, IsNewest, VersionsOf
      <3> QED BY <2>1, <3>2, <3>3, <3>4, <3>5
    <2>5. CASE Run \/ Snapshot \/ Save \/ Hide
      <3>1. UNCHANGED <<app, ws>>
        BY <2>5 DEF Run, Snapshot, Keep, Save, Hide
      <3>2. t.id \in Ids(ws)
        BY <2>1, <2>2, QueriesAre DEF WellFormed, Taken, Takes, Ids
      <3>3. Ids(ws)' = Ids(ws)
        BY <3>1 DEF Ids
      <3> QED BY <2>1, <2>3, <3>1, <3>2, <3>3
    <2>6. CASE Quit
      <3>1. app' = "closed"
        BY <2>6 DEF Quit, Ends
      <3> SUFFICES ASSUME t.text # Blank, t \in LastQueries(ws), ~unsaved'
                   PROVE  disk' # Nothing /\ \E i \in DOMAIN disk'.tabs : disk'.tabs[i] = t
        BY <2>1, <3>1
      <3>2. Written(ws) /\ WorthRestoring(ws)
        BY <2>1, <2>2, TextIsWorth
      <3>3. pending = Nothing
        BY <3>2 DEF SInv, Quiet
      <3>4. PICK r : r = SerializeWorkspace(ws)
        OBVIOUS
      <3>5. /\ WellFormed(r)
            /\ \E i \in DOMAIN r.tabs : r.tabs[i] = t
        BY <2>2, <3>4, SavedIsWell DEF LastQueries
      <3>6. r # Nothing
        BY <3>5, TabsAssumption DEF WellFormed
      <3>7. Flushed(deferred) = r
        BY <3>2, <3>3, <3>4 DEF Flushed, KeepsDeferred
      <3>8. disk' = r
        BY <2>6, <3>6, <3>7 DEF Quit, Flush, SaveWorkspace
      <3> QED BY <3>5, <3>6, <3>8
    <2>7. CASE Crash \/ Start
      BY <2>3, <2>7 DEF Crash, Ends, Start
    <2> QED BY <2>4, <2>5, <2>6, <2>7 DEF Next, Changes
  <1>2. [][\A k \in DOMAIN Queries(ws) : Safe(k)]_vars => ClosedTextIsKept
    BY DEF ClosedTextIsKept
  <1> HIDE DEF Safe
  <1> QED BY <1>1, <1>2, StripsInvariance, PTL DEF Spec

----------------------------------------------------------------------------
(* One tab per id. Where no save is lost and no session is left without      *)
(* tabs, the count that comes back at the next start is over every id that   *)
(* has a version: no id is given twice. Between a save that was refused and  *)
(* the next one nothing is due, and the count on disk may be behind.         *)
Tidy == Settled /\ LeavesTab

OneDoc == \A id, d, e : Seen(id, d) /\ Seen(id, e) => d = e

SavedSeq == IF timer # Nothing THEN timer.seq ELSE IF disk # Nothing THEN disk.seq ELSE 0
Due == timer # Nothing \/ ~unsaved
Versioned == DOMAIN hist \cup DOMAIN stored
Ahead ==
  /\ app = "open" => /\ \A id, d : Seen(id, d) => id <= ws.seq
                     /\ \A id \in Versioned : id <= ws.seq
  /\ Due => /\ \A id \in Versioned : id <= SavedSeq
            /\ Written(ws) => ws.seq <= SavedSeq
  /\ app # "open" => ~unsaved /\ (ParseWorkspace(disk) # Nothing \/ Versioned = {})
OInv == SInv /\ OneDoc /\ Ahead

LEMMA EditorsAreSeen ==
  ASSUME NEW s, NEW g, NEW R, Extends(hist, g, R), Editors(s, R)
  PROVE  /\ \A id, d : Keeps(g, id, d) => Keeps(hist, id, d) \/ Has(ws, id, d) \/ Has(s, id, d)
         /\ \A id \in DOMAIN g :
              \/ id \in DOMAIN hist
              \/ Written(ws) /\ \E d : Has(ws, id, d)
              \/ Written(s) /\ \E d : Has(s, id, d)
  <1>1. ASSUME NEW t \in R, t.text # Blank
        PROVE  \/ Has(ws, t.id, t.doc) /\ Written(ws)
               \/ Has(s, t.id, t.doc) /\ Written(s)
    BY <1>1 DEF Editors, Has, Written
  <1> QED BY <1>1 DEF Extends

(* The new pairs of a state in which only the strip has a new tab.           *)
LEMMA StillOne ==
  ASSUME OneDoc, NEW n, NEW e, \A id, d : Seen(id, d) => id # n,
         \A id, d : Seen(id, d)' => Seen(id, d) \/ (id = n /\ d = e)
  PROVE  OneDoc'
  BY DEF OneDoc

LEMMA IdIsNat ==
  ASSUME NEW s, WellFormed(s), NEW id, NEW d, Has(s, id, d)
  PROVE  id \in Nat /\ id <= s.seq
  BY StripShape DEF WellFormed, Has

LEMMA TextIsWorthIn == ASSUME NEW s, WellFormed(s), Written(s) PROVE WorthRestoring(s)
  <1>1. PICK k \in DOMAIN s.tabs : IsQuery(s.tabs[k]) /\ s.tabs[k].text # Blank
    BY DEF Written
  <1>2. \E i \in DOMAIN Queries(s) : Queries(s)[i] = s.tabs[k]
    BY <1>1, QueriesAre DEF WellFormed
  <1> QED BY <1>1, <1>2 DEF WorthRestoring

LEMMA SeenIsNat == ASSUME SInv PROVE \A id, x : Seen(id, x) => id \in Nat
  <1>1. \A id \in Versioned : id \in Nat
    BY DEF SInv, Histories, History, Versioned
  <1>2. \A id, x : Keeps(hist, id, x) \/ Keeps(stored, id, x) => id \in Nat
    BY <1>1 DEF Keeps, Versioned
  <1>3. ASSUME NEW r \in {pending, timer, disk}, NEW id, NEW x, Held(r, id, x) PROVE id \in Nat
    BY <1>3, IdIsNat DEF SInv, Strips, Held
  <1>4. \A id, x : Has(ws, id, x) => id \in Nat
    BY IdIsNat DEF SInv, Strips
  <1> QED BY <1>2, <1>3, <1>4 DEF Seen

(* Records of the editors of ws and s, seen from the histories before.       *)
LEMMA RecordedAreSeen ==
  ASSUME NEW s, NEW g, NEW f, NEW R, Editors(s, R),
         Extends(hist, g, R), f = stored \/ Extends(hist, f, R)
  PROVE  /\ \A id, x : Keeps(g, id, x) \/ Keeps(f, id, x) =>
                Keeps(hist, id, x) \/ Keeps(stored, id, x) \/ Has(ws, id, x) \/ Has(s, id, x)
         /\ \A id \in DOMAIN g \cup DOMAIN f :
              \/ id \in Versioned
              \/ Written(ws) /\ \E x : Has(ws, id, x)
              \/ Written(s) /\ \E x : Has(s, id, x)
  <1>1. /\ \A id, x : Keeps(g, id, x) => Keeps(hist, id, x) \/ Has(ws, id, x) \/ Has(s, id, x)
        /\ \A id \in DOMAIN g :
             \/ id \in DOMAIN hist
             \/ Written(ws) /\ \E x : Has(ws, id, x)
             \/ Written(s) /\ \E x : Has(s, id, x)
    BY EditorsAreSeen
  <1>2. CASE f = stored
    BY <1>1, <1>2 DEF Versioned
  <1>3. CASE Extends(hist, f, R)
    <2>1. /\ \A id, x : Keeps(f, id, x) => Keeps(hist, id, x) \/ Has(ws, id, x) \/ Has(s, id, x)
          /\ \A id \in DOMAIN f :
               \/ id \in DOMAIN hist
               \/ Written(ws) /\ \E x : Has(ws, id, x)
               \/ Written(s) /\ \E x : Has(s, id, x)
      BY <1>3, EditorsAreSeen
    <2> QED BY <1>1, <2>1 DEF Versioned
  <1> QED BY <1>2, <1>3

LEMMA MoveKeepsOne ==
  ASSUME OInv, NEW s, NEW rec, NEW p, NEW d, Become(s, rec, p, d), Move(s, rec, p)
  PROVE  OneDoc' /\ Ahead'
  <1>1. /\ ws' = s /\ pending' = p /\ app' = app /\ disk' = disk /\ app = "open"
        /\ unsaved' = unsaved /\ timer' = IF p # Nothing \/ KeepsDeferred(d, s) THEN timer ELSE s
    BY DEF Become, Move
  <1>2. /\ WellFormed(s) /\ s.seq >= ws.seq /\ p \in {pending, Nothing}
        /\ (p # Nothing => ~Written(s))
    BY DEF Move, Follows
  <1>3. SInv /\ OneDoc /\ WellFormed(ws) /\ ws.seq \in Nat /\ s.seq \in Nat /\ s # Nothing
    BY <1>2, StripShape, TabsAssumption DEF OInv, SInv, Strips, WellFormed
  <1>4. PICK e : \A id, x : Has(s, id, x) => Seen(id, x) \/ (id = s.seq /\ s.seq > ws.seq /\ x = e)
    BY DEF Move, Follows
  <1>5. PICK g, f, R : /\ g = hist' /\ f = stored' /\ Editors(s, R)
                       /\ Extends(hist, g, R) /\ (f = stored \/ Extends(hist, f, R))
    BY <1>3, MoveRecords
  <1>6. /\ \A id, x : Keeps(g, id, x) \/ Keeps(f, id, x) =>
               Keeps(hist, id, x) \/ Keeps(stored, id, x) \/ Has(ws, id, x) \/ Has(s, id, x)
        /\ \A id \in DOMAIN g \cup DOMAIN f :
             \/ id \in Versioned
             \/ Written(ws) /\ \E x : Has(ws, id, x)
             \/ Written(s) /\ \E x : Has(s, id, x)
    BY <1>5, RecordedAreSeen
  <1>7. /\ \A id, x : Seen(id, x) => id \in Nat /\ id <= ws.seq
        /\ \A id \in Versioned : id \in Nat /\ id <= ws.seq /\ (Due => id <= SavedSeq)
    <2>1. \A id, x : Seen(id, x) => id <= ws.seq
      BY <1>1 DEF OInv, Ahead
    <2>2. \A id \in Versioned : id <= ws.seq /\ (Due => id <= SavedSeq)
      BY <1>1 DEF OInv, Ahead
    <2>3. \A id \in Versioned : id \in Nat
      BY <1>3 DEF SInv, Histories, History, Versioned
    <2> QED BY <1>3, <2>1, <2>2, <2>3, SeenIsNat
  <1>8. \A id, x : Seen(id, x)' => Seen(id, x) \/ Has(s, id, x)
    <2>1. \A id, x : /\ Has(ws, id, x)' => Has(s, id, x)
                     /\ Held(pending, id, x)' => Held(pending, id, x)
                     /\ Held(disk, id, x)' => Held(disk, id, x)
                     /\ Held(timer, id, x)' => Held(timer, id, x) \/ Has(s, id, x)
                     /\ Keeps(hist, id, x)' => Keeps(g, id, x)
                     /\ Keeps(stored, id, x)' => Keeps(f, id, x)
      BY <1>1, <1>2, <1>5 DEF Has, Held, Keeps
    <2> QED BY <1>6, <2>1 DEF Seen
  <1>9. OneDoc'
    <2>1. CASE s.seq > ws.seq
      <3>1. \A id, x : Seen(id, x) => id # s.seq
        BY <1>3, <1>7, <2>1
      <3>2. \A id, x : Seen(id, x)' => Seen(id, x) \/ (id = s.seq /\ x = e)
        BY <1>4, <1>8
      <3>3. PICK n : n = s.seq
        OBVIOUS
      <3> QED BY <1>3, <3>1, <3>2, <3>3, StillOne
    <2>2. CASE ~(s.seq > ws.seq)
      <3>1. \A id, x : Seen(id, x)' => Seen(id, x)
        BY <1>4, <1>8, <2>2
      <3> QED BY <1>3, <3>1 DEF OneDoc
    <2> QED BY <2>1, <2>2
  <1>10. \A id, x : Seen(id, x)' => id <= ws'.seq
    <2>1. \A id, x : Seen(id, x) \/ Has(s, id, x) => id <= s.seq
      BY <1>2, <1>3, <1>7, IdIsNat
    <2> QED BY <1>1, <1>8, <2>1
  <1>11. Versioned' = DOMAIN g \cup DOMAIN f
    BY <1>5 DEF Versioned
  <1>12. \A id \in DOMAIN g \cup DOMAIN f : id <= s.seq
    <2>1. \A id, x : Has(ws, id, x) \/ Has(s, id, x) => id <= s.seq
      BY <1>2, <1>3, IdIsNat
    <2>2. \A id \in Versioned : id <= s.seq
      BY <1>2, <1>3, <1>7
    <2> QED BY <1>6, <2>1, <2>2
  <1>13. Due' => (\A id \in DOMAIN g \cup DOMAIN f : id <= SavedSeq') /\ (Written(ws)' => ws'.seq <= SavedSeq')
    <2>1. CASE timer' = s
      <3>1. SavedSeq' = s.seq /\ ws'.seq <= s.seq
        BY <1>1, <1>3, <2>1 DEF SavedSeq
      <3> QED BY <1>12, <3>1
    <2>2. CASE timer' # s
      <3>1. timer' = timer /\ SavedSeq' = SavedSeq /\ Due' = Due
        BY <1>1, <2>2 DEF SavedSeq, Due
      <3>2. ~Written(s)
        BY <1>1, <1>2, <2>2, TextIsWorthIn DEF KeepsDeferred
      <3>3. ~Written(ws)'
        BY <1>1, <3>2 DEF Written
      <3>4. SavedSeq \in Nat
        BY StripShape DEF OInv, SInv, Strips, WellFormed, SavedSeq
      <3>5. ASSUME Due PROVE \A id \in DOMAIN g \cup DOMAIN f : id <= SavedSeq
        <4>1. Written(ws) => ws.seq <= SavedSeq
          BY <3>5 DEF OInv, Ahead
        <4>2. \A id, x : Written(ws) /\ Has(ws, id, x) => id <= SavedSeq
          BY <1>3, <3>4, <4>1, IdIsNat
        <4> QED BY <1>6, <1>7, <3>2, <3>5, <4>2
      <3> QED BY <3>1, <3>3, <3>5
    <2> QED BY <2>1, <2>2
  <1> QED BY <1>1, <1>9, <1>10, <1>11, <1>12, <1>13 DEF Ahead

LEMMA RecordsKeepOne ==
  ASSUME OInv, Run \/ Snapshot PROVE OneDoc' /\ Ahead'
  <1>1. SInv /\ OneDoc /\ WellFormed(ws) /\ ws.seq \in Nat
    BY StripShape DEF OInv, SInv, Strips, WellFormed
  <1>2. /\ app = "open"
        /\ UNCHANGED <<app, ws, pending, deferred, timer, disk, unsaved, born, worked>>
    BY <1>1, RecordsKeep
  <1>3. PICK s, g, f, R : /\ s = ws /\ g = hist' /\ f = stored' /\ Editors(s, R)
                          /\ Extends(hist, g, R) /\ (f = stored \/ Extends(hist, f, R))
    BY <1>1, RecordsKeep
  <1>4. /\ \A id, x : Keeps(g, id, x) \/ Keeps(f, id, x) =>
               Keeps(hist, id, x) \/ Keeps(stored, id, x) \/ Has(ws, id, x)
        /\ \A id \in DOMAIN g \cup DOMAIN f :
             id \in Versioned \/ (Written(ws) /\ \E x : Has(ws, id, x))
    <2>1. /\ \A id, x : Keeps(g, id, x) \/ Keeps(f, id, x) =>
                 Keeps(hist, id, x) \/ Keeps(stored, id, x) \/ Has(ws, id, x) \/ Has(s, id, x)
          /\ \A id \in DOMAIN g \cup DOMAIN f :
               \/ id \in Versioned
               \/ Written(ws) /\ \E x : Has(ws, id, x)
               \/ Written(s) /\ \E x : Has(s, id, x)
      BY <1>3, RecordedAreSeen
    <2> QED BY <1>3, <2>1
  <1>5. \A id, x : Seen(id, x)' => Seen(id, x)
    <2>1. \A id, x : /\ Has(ws, id, x)' => Has(ws, id, x)
                     /\ Held(pending, id, x)' => Held(pending, id, x)
                     /\ Held(disk, id, x)' => Held(disk, id, x)
                     /\ Held(timer, id, x)' => Held(timer, id, x)
                     /\ Keeps(hist, id, x)' => Keeps(g, id, x)
                     /\ Keeps(stored, id, x)' => Keeps(f, id, x)
      BY <1>2, <1>3 DEF Has, Held, Keeps
    <2> QED BY <1>4, <2>1 DEF Seen
  <1>6. OneDoc'
    BY <1>1, <1>5 DEF OneDoc
  <1>7. /\ SavedSeq' = SavedSeq /\ Due' = Due /\ Written(ws)' = Written(ws)
        /\ ws' = ws /\ app' = "open" /\ Versioned' = DOMAIN g \cup DOMAIN f
    BY <1>2, <1>3 DEF SavedSeq, Due, Written, Versioned
  <1>8. /\ \A id, x : Seen(id, x) => id <= ws.seq
        /\ \A id \in Versioned : id <= ws.seq
        /\ Due => (\A id \in Versioned : id <= SavedSeq) /\ (Written(ws) => ws.seq <= SavedSeq)
    BY <1>2 DEF OInv, Ahead
  <1>9. SavedSeq \in Nat
    BY StripShape DEF OInv, SInv, Strips, WellFormed, SavedSeq
  <1>10. \A id, x : Written(ws) /\ Has(ws, id, x) => id <= ws.seq /\ (Due => id <= SavedSeq)
    BY <1>1, <1>8, <1>9, IdIsNat
  <1>11. \A id \in DOMAIN g \cup DOMAIN f : id <= ws.seq /\ (Due => id <= SavedSeq)
    BY <1>4, <1>8, <1>10
  <1> QED BY <1>5, <1>6, <1>7, <1>8, <1>11 DEF Ahead

(* A save, hiding, leaving and dying: what is seen was seen, and unless the  *)
(* store refused it, what is on disk counts as far as what was to be saved.  *)
LEMMA SavesKeepOne ==
  ASSUME OInv, Tidy, Save \/ Hide \/ Quit \/ Crash PROVE OneDoc' /\ Ahead'
  <1>1. Strips /\ OneDoc /\ WellFormed(ws) /\ ws.seq \in Nat /\ Settled
    BY StripShape DEF OInv, SInv, Strips, WellFormed, Tidy
  <1>2. /\ app = "open" /\ timer' = Nothing
        /\ \A id, x : Held(disk', id, x) => Held(disk, id, x) \/ Held(timer, id, x) \/ Has(ws, id, x)
        /\ \/ disk' = disk /\ unsaved' = unsaved /\ timer = Nothing
           \/ disk' = disk /\ unsaved' = TRUE
           \/ /\ unsaved' = FALSE /\ disk' # Nothing
              /\ disk'.seq = ws.seq \/ (timer # Nothing /\ disk'.seq = timer.seq)
    BY <1>1, SavesAre
  <1>3. /\ \A id, x : Seen(id, x) => id <= ws.seq
        /\ \A id \in Versioned : id <= ws.seq
        /\ Due => (\A id \in Versioned : id <= SavedSeq) /\ (Written(ws) => ws.seq <= SavedSeq)
    BY <1>2 DEF OInv, Ahead
  <1>4. /\ stored' = stored /\ hist' \in {hist, stored} /\ pending' \in {pending, Nothing}
        /\ \/ ws' = ws /\ app' = "open"
           \/ /\ ws' = EmptySession(Nothing) /\ app' # "open" /\ hist' = stored /\ ~unsaved'
              /\ ParseWorkspace(disk') # Nothing \/ stored = <<>>
    BY <1>2 DEF Tidy, Save, Hide, Quit, Crash, Ends
  <1>5. EmptySession(Nothing).tabs = <<>> /\ \A id, x : ~Has(EmptySession(Nothing), id, x)
    BY EmptyIsWell
  <1>6. \A id, x : Seen(id, x)' => Seen(id, x)
    <2>1. PICK n, r, p : n = ws' /\ r = disk' /\ p = pending'
      OBVIOUS
    <2>2. \A id, x : /\ Has(ws, id, x)' => Has(n, id, x)
                     /\ Held(pending, id, x)' => Held(p, id, x)
                     /\ Held(disk, id, x)' => Held(r, id, x)
                     /\ ~Held(timer, id, x)'
                     /\ Keeps(hist, id, x)' => Keeps(hist, id, x) \/ Keeps(stored, id, x)
                     /\ Keeps(stored, id, x)' => Keeps(stored, id, x)
      BY <1>2, <1>4, <2>1 DEF Has, Held, Keeps
    <2>3. \A id, x : Has(n, id, x) => Has(ws, id, x)
      BY <1>4, <1>5, <2>1
    <2>4. \A id, x : Held(p, id, x) => Held(pending, id, x)
      BY <1>4, <2>1 DEF Held
    <2>5. \A id, x : Held(r, id, x) => Seen(id, x)
      BY <1>2, <2>1 DEF Seen
    <2> QED BY <2>2, <2>3, <2>4, <2>5 DEF Seen
  <1>7. OneDoc'
    BY <1>1, <1>6 DEF OneDoc
  <1>8. Versioned' \subseteq Versioned
    BY <1>4 DEF Versioned
  <1>9. Due' => SavedSeq' = ws.seq \/ (Due /\ SavedSeq' = SavedSeq)
    BY <1>2 DEF Due, SavedSeq
  <1>10. Written(ws)' => ws' = ws /\ Written(ws)
    BY <1>4, <1>5 DEF Written
  <1>11. Due' => (\A id \in Versioned' : id <= SavedSeq') /\ (Written(ws)' => ws'.seq <= SavedSeq')
    <2>1. Due' => \A id \in Versioned' : id <= SavedSeq'
      BY <1>3, <1>8, <1>9
    <2>2. Due' /\ Written(ws)' => ws'.seq <= SavedSeq'
      BY <1>1, <1>3, <1>9, <1>10
    <2> QED BY <2>1, <2>2
  <1>12. app' # "open" => ~unsaved' /\ (ParseWorkspace(disk)' # Nothing \/ Versioned' = {})
    <2>1. stored = <<>> => DOMAIN stored = {}
      OBVIOUS
    <2> QED BY <1>4, <2>1 DEF Versioned, ParseWorkspace, Top, Ids
  <1>13. app' = "open" => /\ \A id, x : Seen(id, x)' => id <= ws'.seq
                         /\ \A id \in Versioned' : id <= ws'.seq
    BY <1>3, <1>4, <1>6, <1>8
  <1> QED BY <1>7, <1>11, <1>12, <1>13 DEF Ahead

LEMMA StartKeepsOne == ASSUME OInv, Start PROVE OneDoc' /\ Ahead'
  <1>1. PICK n, p, c : n = ws' /\ p = pending' /\ c = timer'
    OBVIOUS
  <1>2. PICK saved : saved = ParseWorkspace(disk)
    OBVIOUS
  <1>3. /\ app # "open" /\ app' = "open" /\ unsaved' = FALSE
        /\ UNCHANGED <<disk, hist, stored>>
        /\ WellFormed(n) /\ p \in {Nothing, disk} /\ c \in {Nothing, n}
        /\ n.tabs = <<>> \/ (disk # Nothing /\ n.tabs = disk.tabs /\ p = Nothing /\ c = n)
        /\ n.seq = IF saved = Nothing THEN 0 ELSE disk.seq
        /\ saved = Nothing => p = Nothing /\ n.tabs = <<>>
    BY <1>1, <1>2, StartIs DEF OInv
  <1>4. n.seq \in Nat /\ n # Nothing
    BY <1>3, StripShape, TabsAssumption DEF WellFormed
  <1>5. /\ (disk = Nothing \/ WellFormed(disk)) /\ timer = Nothing
        /\ saved # Nothing \/ Versioned = {}
        /\ \A id \in Versioned : id <= SavedSeq
        /\ OneDoc
    BY <1>2, <1>3 DEF OInv, SInv, Strips, Shut, Ahead, Due
  <1>6. \A id, x : Has(n, id, x) => Held(disk, id, x)
    BY <1>3 DEF Has, Held
  <1>7. \A id, x : Seen(id, x)' => Held(disk, id, x) \/ Keeps(hist, id, x) \/ Keeps(stored, id, x)
    <2>1. \A id, x : /\ Has(ws, id, x)' => Has(n, id, x)
                     /\ Held(pending, id, x)' => Held(p, id, x)
                     /\ Held(disk, id, x)' => Held(disk, id, x)
                     /\ Held(timer, id, x)' => Held(c, id, x)
                     /\ Keeps(hist, id, x)' => Keeps(hist, id, x)
                     /\ Keeps(stored, id, x)' => Keeps(stored, id, x)
      BY <1>1, <1>3 DEF Has, Held, Keeps
    <2>2. \A id, x : (Held(p, id, x) \/ Held(c, id, x)) => Held(disk, id, x)
      BY <1>3, <1>6 DEF Held
    <2> QED BY <1>6, <2>1, <2>2 DEF Seen
  <1>8. OneDoc'
    <2>1. \A id, x : Seen(id, x)' => Seen(id, x)
      BY <1>7 DEF Seen
    <2> QED BY <1>5, <2>1 DEF OneDoc
  <1>9. saved = Nothing <=> disk = Nothing \/ disk.tabs = <<>>
    <2>1. disk = Nothing \/ WellFormed(disk)
      BY <1>5
    <2>2. PICK d : d = disk
      OBVIOUS
    <2>3. ParseWorkspace(d) = Nothing <=> d = Nothing \/ d.tabs = <<>>
      BY <2>1, <2>2, ParsedIs
    <2> QED BY <1>2, <2>2, <2>3
  <1>10. \A id \in Versioned : saved # Nothing /\ id <= n.seq
    <2>1. saved # Nothing => SavedSeq = disk.seq /\ n.seq = disk.seq
      BY <1>3, <1>5, <1>9 DEF SavedSeq
    <2> QED BY <1>5, <2>1
  <1>11. \A id, x : Held(disk, id, x) \/ Keeps(hist, id, x) \/ Keeps(stored, id, x) => id <= n.seq
    <2>1. \A id, x : Keeps(hist, id, x) \/ Keeps(stored, id, x) => id \in Versioned
      BY DEF Keeps, Versioned
    <2>2. ASSUME NEW id, NEW x, Held(disk, id, x) PROVE id <= n.seq
      <3>1. disk # Nothing /\ Has(disk, id, x) /\ WellFormed(disk) /\ disk.tabs # <<>>
        BY <1>5, <2>2 DEF Held, Has
      <3>2. id <= disk.seq
        BY <3>1, IdIsNat
      <3> QED BY <1>3, <1>9, <3>1, <3>2
    <2> QED BY <1>10, <2>1, <2>2
  <1>12. SavedSeq' = IF c # Nothing THEN c.seq ELSE IF disk # Nothing THEN disk.seq ELSE 0
    BY <1>1, <1>3 DEF SavedSeq
  <1>13. \A id \in Versioned : id <= SavedSeq'
    <2>1. saved # Nothing => SavedSeq' = n.seq
      BY <1>3, <1>4, <1>9, <1>12
    <2> QED BY <1>10, <2>1
  <1>14. Written(ws)' => ws'.seq <= SavedSeq'
    <2>1. Written(ws)' => Written(n)
      BY <1>1 DEF Written
    <2>2. Written(n) => c = n
      BY <1>3 DEF Written
    <2> QED BY <1>1, <1>4, <1>12, <2>1, <2>2
  <1>15. \A id, x : Seen(id, x)' => id <= ws'.seq
    BY <1>1, <1>7, <1>11
  <1>16. \A id \in Versioned' : id <= ws'.seq /\ id <= SavedSeq'
    <2>1. Versioned' = Versioned
      BY <1>3 DEF Versioned
    <2> QED BY <1>1, <1>10, <1>13, <2>1
  <1> QED BY <1>3, <1>8, <1>14, <1>15, <1>16 DEF Ahead

LEMMA OneInvariance == Tidy /\ Spec => []OInv
  <1> SUFFICES ASSUME Tidy PROVE Spec => []OInv
    OBVIOUS
  <1>1. Init => OInv
    <2> SUFFICES ASSUME Init PROVE OInv
      OBVIOUS
    <2>1. SInv
      <3>1. WellFormed(ws)
        BY EmptyIsWell DEF Init
      <3>2. Histories
        BY DEF Init, Histories, Told, History
      <3> QED BY <3>1, <3>2 DEF Init, SInv, Strips, Shut, Quiet
    <2>2. \A id, d : ~Has(ws, id, d)
      BY EmptyIsWell DEF Init
    <2>3. \A id, d : ~Seen(id, d)
      BY <2>2 DEF Init, Seen, Held, Keeps
    <2>4. ~Written(ws)
      BY EmptyIsWell DEF Init, Written
    <2>5. OneDoc /\ Ahead
      BY <2>3, <2>4 DEF Init, OneDoc, Ahead, Versioned
    <2> QED BY <2>1, <2>5 DEF OInv
  <1>2. OInv /\ [Next]_vars => OInv'
    <2> SUFFICES ASSUME OInv, [Next]_vars PROVE OInv'
      OBVIOUS
    <2>0. SInv
      BY DEF OInv
    <2>1. SInv'
      <3>1. CASE Changes
        BY <2>0, <3>1, ChangesMove, MoveKeeps
      <3>2. CASE ~Changes
        BY <2>0, <3>2, OthersKeep DEF Next, Changes
      <3> QED BY <3>1, <3>2
    <2>2. OneDoc' /\ Ahead'
      <3>1. CASE Changes
        BY <2>0, <3>1, ChangesMove, MoveKeepsOne
      <3>2. CASE Run \/ Snapshot
        BY <3>2, RecordsKeepOne
      <3>3. CASE Save \/ Hide \/ Quit \/ Crash
        BY <3>3, SavesKeepOne
      <3>4. CASE Start
        BY <3>4, StartKeepsOne
      <3>5. CASE UNCHANGED vars
        BY <3>5 DEF vars, OInv, OneDoc, Ahead, Seen, Has, Held, Keeps, SavedSeq, Due,
                    Versioned, Written, ParseWorkspace, Top, Ids
      <3> QED BY <3>1, <3>2, <3>3, <3>4, <3>5 DEF Next, Changes
    <2> QED BY <2>1, <2>2 DEF OInv
  <1> QED BY <1>1, <1>2, PTL DEF Spec

(* "Versions are keyed by tab id, which is stable across restarts" (local-   *)
(* History.ts:9): the versions under an id are of one tab, the one that has  *)
(* the id now if one has. It takes that no save is lost, to a second that    *)
(* was not waited for or to a store that refused it, and no session left     *)
(* without tabs (MCTabsReused).                                              *)
THEOREM VersionsOfOneTab == Settled /\ LeavesTab /\ Spec => []VersionsAreOwn
  <1>1. OInv => VersionsAreOwn
    <2> SUFFICES ASSUME OInv, NEW id PROVE
          LET docs == {v.doc : v \in ToSet(VersionsOf(hist, id))}
                      \cup {t.doc : t \in {u \in ToSet(Queries(ws)) : u.id = id}}
          IN \A a, b \in docs : a = b
      BY DEF VersionsAreOwn
    <2>1. WellFormed(ws) /\ History(hist) /\ OneDoc
      BY DEF OInv, SInv, Strips, Histories
    <2>2. \A v \in ToSet(VersionsOf(hist, id)) : Seen(id, v.doc)
      BY <2>1, VersionsAre DEF ToSet, Seen
    <2>3. \A t \in ToSet(Queries(ws)) : Has(ws, t.id, t.doc)
      BY <2>1, QueriesAre DEF WellFormed, Taken, Takes, ToSet, Has
    <2> QED BY <2>1, <2>2, <2>3 DEF OneDoc, Seen
  <1> QED BY <1>1, OneInvariance, PTL DEF Tidy
=============================================================================
