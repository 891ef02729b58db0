-------------------------------- MODULE Tabs --------------------------------
(* The tab strip of the window, what is saved of it, and the local history   *)
(* of the editors, over restarts and crashes (tabs.ts, localHistory.ts,      *)
(* tabsStore.ts and their callers in App.tsx). The strip is the pure         *)
(* TabState of tabs.ts; every change of it goes through Become, which is     *)
(* setTabs with the two effects that watch it: the one that records the last *)
(* text of a tab that disappears, and the one that saves a second later.     *)
(*                                                                           *)
(* What the window stores it may fail to store (localStorage is full or      *)
(* blocked): the history then lives on in memory, and a session is not saved *)
(* until the next change of the strip.                                       *)
(*                                                                           *)
(* A text is a model value; the tab in front, titles, variables, results,    *)
(* tool parameters and the list of tabs to reopen are left out. A tab opened *)
(* for an object holds its definition: data tabs, whose text is generated,   *)
(* keep no versions and are not here. The limits of age and of total size of *)
(* the history are not reached.                                              *)
EXTENDS Naturals, FiniteSets, Sequences, SequencesExt, Subsequences

CONSTANTS
  Conns,        \* saved connections
  Texts,        \* what an editor may hold, besides nothing
  Big,          \* of these, the ones over MAX_VERSION_CHARS
  NoConn, Blank, Nothing,
  Focus,        \* what may be focused when a tab opens: connections, NoConn
  MaxTabs,      \* bound: tabs open at once
  MaxDocs,      \* bound: tabs ever opened
  MaxPinned,    \* bound: tabs pinned at once
  MaxRestored,  \* MAX_RESTORED_TABS
  MaxVersions,  \* setting: versions kept of a tab; 0 is no history
  MaxRefused,   \* bound: tabs ever opened when the store refuses a write
  Settled,      \* no save is lost: no hiding or leaving that drops one that is
                \* due, no dying before it, nor an end after one was refused
  LeavesTab     \* no leaving or dying with a saved session without tabs

Tab ==
  [id : Nat, of : {"plain", "object", "snippet", "tool"}, conn : Conns \cup {NoConn},
   text : Texts \cup {Blank}, pin : BOOLEAN, doc : Nat]
TabState == [tabs : Seq(Tab), seq : Nat]

ASSUME TabsAssumption ==
  /\ MaxTabs \in Nat /\ MaxDocs \in Nat /\ MaxPinned \in Nat /\ MaxRefused \in Nat
  /\ {Settled, LeavesTab} \subseteq BOOLEAN
  /\ MaxRestored \in Nat \ {0} /\ MaxVersions \in Nat
  /\ Blank \notin Texts /\ Big \subseteq Texts
  /\ Nothing \notin TabState /\ Focus \subseteq Conns \cup {NoConn}

VARIABLES
  app,       \* "open", or how it ended: "closed" by the user, or "dead"
  ws,        \* the TabState on screen
  pending,   \* the saved session being offered, or Nothing
  deferred,  \* the offer was put off
  timer,     \* the state the debounced save is to write, or Nothing
  disk,      \* the saved workspace, or Nothing
  unsaved,   \* history variable: the store refused the last saved workspace
  hist,      \* versions by tab id, as the window has them
  stored,    \* and as they are stored
  warned,    \* saveFailWarned: the store refused the last history
  born,      \* history variable: tabs ever opened
  worked     \* history variable: this session had work worth saving

vars == <<app, ws, pending, deferred, timer, disk, unsaved, hist, stored, warned, born,
          worked>>

Largest(S) == CHOOSE n \in S : \A m \in S : m <= n
Ids(s) == {s.tabs[k].id : k \in DOMAIN s.tabs}
At(s, id) == CHOOSE k \in DOMAIN s.tabs : s.tabs[k].id = id
IsQuery(t) == t.of # "tool"
Queries(s) == Only(s.tabs, {t \in ToSet(s.tabs) : IsQuery(t)})

----------------------------------------------------------------------------
(* tabs.ts: from a TabState to the next. doc tells two tabs apart whatever   *)
(* their ids.                                                                *)
Top(s) == Largest({s.seq} \cup Ids(s))

NewTab(s, of, conn, text) ==
  [id |-> Top(s) + 1, of |-> of, conn |-> conn, text |-> text,
   pin |-> FALSE, doc |-> born + 1]
AddTab(s, t) == [tabs |-> Append(s.tabs, t), seq |-> t.id]

(* A snippet has one tab; an object and a tool have one per connection.      *)
Opened(s, of, conn) ==
  {k \in DOMAIN s.tabs : /\ s.tabs[k].of = of
                         /\ of = "snippet" \/ s.tabs[k].conn = conn}
OpenThing(s, of, conn, text) ==
  IF Opened(s, of, conn) = {} THEN AddTab(s, NewTab(s, of, conn, text))
  ELSE s

CopyOfThing(s, id) == [s.tabs[At(s, id)] EXCEPT !.id = Top(s) + 1,
                         !.pin = FALSE, !.doc = born + 1]           \* mutant
Copy(s, id) == NewTab(s, "plain", s.tabs[At(s, id)].conn, s.tabs[At(s, id)].text)
DuplicateTab(s, id) ==
  [tabs |-> InsertAt(s.tabs, At(s, id) + 1, Copy(s, id)), seq |-> Top(s) + 1]

CloseTab(s, id) == [s EXCEPT !.tabs = Only(@, {t \in ToSet(@) : t.id # id})]
CloseTabsForConn(s, c) == [s EXCEPT !.tabs = Only(@, {t \in ToSet(@) : t.conn # c})]
CloseOtherTabs(s, id) == [s EXCEPT !.tabs = Only(@, {t \in ToSet(@) : t.id = id \/ t.pin})]
CloseTabsToRight(s, id) ==
  [s EXCEPT !.tabs = SubSeq(@, 1, At(s, id)) \o
                     Only(SubSeq(@, At(s, id) + 1, Len(@)), {t \in ToSet(@) : t.pin})]
CloseAllTabs(s) == [s EXCEPT !.tabs = Only(@, {t \in ToSet(@) : t.pin})]
TogglePin(s, id) ==
  LET now == [s.tabs EXCEPT ![At(s, id)].pin = ~@]
      pinned == {t \in ToSet(now) : t.pin}
  IN [s EXCEPT !.tabs = Only(now, pinned) \o Only(now, ToSet(now) \ pinned)]
UpdateTabSql(s, id, text) == [s EXCEPT !.tabs[At(s, id)].text = text]
BindTabConn(s, id, c) == [s EXCEPT !.tabs[At(s, id)].conn = c]

(* What is saved, and what comes back: the query tabs, the last ones if too  *)
(* many, and how far the ids went. A workspace without tabs comes back as    *)
(* none at all.                                                              *)
SerializeWorkspace(s) ==
  LET q == Queries(s)
      kept == SubSeq(q, Largest({1, Len(q) + 1 - MaxRestored}), Len(q))
      all == {kept[k].id : k \in DOMAIN kept}
  IN [tabs |-> kept, seq |-> Largest({s.seq} \cup all)]
ParseWorkspace(d) ==
  IF d = Nothing THEN Nothing ELSE IF d.tabs = <<>> THEN Nothing
  ELSE [d EXCEPT !.seq = Top(d)]

WorthRestoring(s) ==
  LET q == Queries(s) IN Len(q) > 1 \/ \E k \in DOMAIN q : q[k].text # Blank

EmptySessionAfresh(d) == [tabs |-> <<>>, seq |-> 0]          \* mutant
EmptySession(d) ==
  [tabs |-> <<>>, seq |-> IF d = Nothing THEN 0 ELSE d.seq]

----------------------------------------------------------------------------
(* localHistory.ts: the versions under each id, newest first.                *)
PruneHistory(versions) ==
  SubSeq(versions, 1, IF Len(versions) > MaxVersions THEN MaxVersions ELSE Len(versions))

VersionsOf(h, id) == IF id \in DOMAIN h THEN h[id] ELSE <<>>
Known(h, t) ==
  LET own == VersionsOf(h, t.id) IN own # <<>> /\ own[1].text = t.text
(* There is a history, and the text is neither blank nor too big for it.     *)
Recordable(t) == MaxVersions # 0 /\ t.text \notin Big \cup {Blank}
RecordVersion(h, t) ==
  IF ~Recordable(t) \/ Known(h, t) THEN h
  ELSE [id \in DOMAIN h \cup {t.id} |->
          IF id # t.id THEN h[id]
          ELSE PruneHistory(<<[doc |-> t.doc, text |-> t.text]>> \o VersionsOf(h, id))]
RecordAll(h, ts) ==
  LET after[k \in 0..Len(ts)] == IF k = 0 THEN h ELSE RecordVersion(after[k - 1], ts[k])
  IN after

----------------------------------------------------------------------------
(* App.tsx. The effect that saves does nothing while the offer is up, nor,   *)
(* once it is put off, until there is something worth saving; a save that    *)
(* was already due is left to fire.                                          *)
KeepsDeferred(d, s) == d /\ ~WorthRestoring(s)

(* The tabs ts are recorded one after the other, and the history is stored   *)
(* whole after each that changed it. Where the store refuses the last of     *)
(* these writes the user is told, and it holds the last it took before.      *)
Records(ts) ==
  LET after   == RecordAll(hist, ts)
      writes  == {k \in 1..Len(ts) : after[k] # after[k - 1]}
      earlier == {k \in writes : \E j \in writes : k < j}
  IN /\ hist' = after[Len(ts)]
     /\ IF writes = {} THEN UNCHANGED <<stored, warned>>
        ELSE \/ stored' = hist' /\ warned' = FALSE
             \/ /\ born <= MaxRefused /\ warned' = TRUE
                /\ stored' \in {stored} \cup {after[k] : k \in earlier}

(* setTabs (and the answers to the offer), with both effects, after the tabs *)
(* rec are recorded.                                                         *)
Lost(s) == Only(ws.tabs, {t \in ToSet(ws.tabs) : IsQuery(t) /\ t.id \notin Ids(s)})
Become(s, rec, p, d) ==
  /\ ws' = s /\ pending' = p /\ deferred' = d
  /\ Records(rec \o Lost(s))
  /\ timer' = IF p # Nothing \/ KeepsDeferred(d, s) THEN timer ELSE s
  /\ worked' = (worked \/ WorthRestoring(s))
  /\ born' = IF \E k \in DOMAIN s.tabs : s.tabs[k].doc = born + 1 THEN born + 1 ELSE born
  /\ UNCHANGED <<app, disk, unsaved>>
SetTabs(s) == Become(s, <<>>, pending, deferred)

Room == app = "open" /\ Len(ws.tabs) < MaxTabs /\ born < MaxDocs
(* The dialog of the offer keeps the mouse and the keys of an editor away,   *)
(* not the shortcuts of the window.                                          *)
Free == app = "open" /\ pending = Nothing

(* An empty tab; or a routine's text, an old version, a tab closed before, in *)
(* a tab of its own.                                                         *)
NewQuery ==
  /\ Room
  /\ \E c \in Focus, x \in Texts \cup {Blank} :
       /\ x # Blank => pending = Nothing
       /\ SetTabs(AddTab(ws, NewTab(ws, "plain", c, x)))
(* A query of the history, run at once.                                      *)
RunFromHistory ==
  /\ Room /\ Free
  /\ \E c \in Focus, x \in Texts :
       LET t == NewTab(ws, "plain", c, x)
       IN Become(AddTab(ws, t), <<t>>, pending, deferred)
Open == Room /\ Free /\ \E of \in {"object", "snippet", "tool"}, c \in Focus :
          \E x \in IF of = "tool" THEN {Blank} ELSE Texts : SetTabs(OpenThing(ws, of, c, x))
Duplicate == Room /\ Free /\ \E id \in Ids(ws) :
               IsQuery(ws.tabs[At(ws, id)]) /\ SetTabs(DuplicateTab(ws, id))

Close == app = "open" /\ \E id \in Ids(ws) : SetTabs(CloseTab(ws, id))
CloseMany ==
  /\ Free
  /\ \/ \E c \in Conns : SetTabs(CloseTabsForConn(ws, c))
     \/ \E id \in Ids(ws) : SetTabs(CloseOtherTabs(ws, id))
     \/ \E id \in Ids(ws) : SetTabs(CloseTabsToRight(ws, id))
CloseAll == app = "open" /\ SetTabs(CloseAllTabs(ws))

Pinned(s) == {k \in DOMAIN s.tabs : s.tabs[k].pin}
Pin == Free /\ \E id \in Ids(ws) :
         /\ At(ws, id) \in Pinned(ws) \/ Cardinality(Pinned(ws)) < MaxPinned
         /\ SetTabs(TogglePin(ws, id))
Bind == Free /\ \E id \in Ids(ws), c \in Conns :
          /\ ws.tabs[At(ws, id)].of \in {"plain", "snippet"} /\ ws.tabs[At(ws, id)].conn # c
          /\ SetTabs(BindTabConn(ws, id, c))
Type == Free /\ \E id \in Ids(ws) :
          LET t == ws.tabs[At(ws, id)]
          IN IsQuery(t) /\ \E x \in (Texts \cup {Blank}) \ {t.text} :
                             SetTabs(UpdateTabSql(ws, id, x))

(* Versions: of the tab that runs, of every editor every two minutes, and of *)
(* a tab before an older version is put back in it.                          *)
Keep(ts) == /\ Records(ts)
            /\ UNCHANGED <<app, ws, pending, deferred, timer, disk, unsaved, born, worked>>
Run == Free /\ \E id \in Ids(ws) :
         IsQuery(ws.tabs[At(ws, id)]) /\ Keep(<<ws.tabs[At(ws, id)]>>)
Snapshot == app = "open" /\ Keep(Queries(ws))
RestoreVersion ==
  /\ Free
  /\ \E id \in Ids(ws) \cap DOMAIN hist : \E k \in DOMAIN hist[id] :
       LET t == ws.tabs[At(ws, id)]  x == hist[id][k].text
       IN /\ IsQuery(t)
          /\ Become(UpdateTabSql(ws, id, x), <<t, [t EXCEPT !.text = x]>>,
                    pending, deferred)

(* saveWorkspace: nobody is told of a write that is refused.                 *)
SaveWorkspace(d) ==
  \/ disk' = d /\ unsaved' = FALSE
  \/ born <= MaxRefused /\ d # disk /\ disk' = disk /\ unsaved' = TRUE

(* The second is over.                                                       *)
Save ==
  /\ app = "open" /\ timer # Nothing
  /\ SaveWorkspace(SerializeWorkspace(timer)) /\ timer' = Nothing
  /\ UNCHANGED <<app, ws, pending, deferred, hist, stored, warned, born, worked>>

(* flushWorkspace: the strip is saved now, or what is due given up.          *)
FlushedNever(d) == Nothing                                        \* mutant
FlushedAlways(d) == IF pending # Nothing THEN Nothing ELSE SerializeWorkspace(ws) \* mutant
Flushed(d) ==
  IF pending # Nothing \/ KeepsDeferred(d, ws) THEN Nothing ELSE SerializeWorkspace(ws)
Flush ==
  /\ Settled => timer = Nothing \/ (pending = Nothing /\ ~KeepsDeferred(deferred, ws))
  /\ IF Flushed(deferred) = Nothing THEN UNCHANGED <<disk, unsaved>>
     ELSE SaveWorkspace(Flushed(deferred))
  /\ timer' = Nothing
Hide ==
  /\ app = "open" /\ Flush
  /\ UNCHANGED <<app, ws, pending, deferred, hist, stored, warned, born, worked>>

(* Of the window, what is stored is left.                                    *)
Ends(how) ==
  /\ app = "open" /\ app' = how
  /\ Settled => ~unsaved'
  /\ LeavesTab => ParseWorkspace(disk') # Nothing \/ stored = <<>>
  /\ ws' = EmptySession(Nothing) /\ pending' = Nothing /\ deferred' = FALSE
  /\ worked' = FALSE /\ hist' = stored /\ warned' = FALSE /\ UNCHANGED <<stored, born>>
Quit  == Flush /\ Ends("closed")
Crash ==
  /\ Settled => timer = Nothing
  /\ timer' = Nothing /\ UNCHANGED <<disk, unsaved>> /\ Ends("dead")

(* The application opens with no tab; the saved session, when worth it, is   *)
(* offered, or resumed or put off at once as the settings say.               *)
Offered(saved) ==
  IF saved = Nothing THEN Nothing
  ELSE IF WorthRestoring(saved) THEN saved ELSE Nothing
Resumed(saved, s) == [saved EXCEPT !.seq = Largest({saved.seq, s.seq})]
Start ==
  LET saved == ParseWorkspace(disk)  offer == Offered(saved)
      empty == EmptySession(saved)
  IN /\ app # "open" /\ app' = "open"
     /\ \/ /\ ws' = empty /\ pending' = offer /\ deferred' = FALSE
           /\ timer' = IF offer = Nothing THEN empty ELSE Nothing
           /\ worked' = FALSE
        \/ /\ offer # Nothing
           /\ ws' = Resumed(offer, empty) /\ pending' = Nothing /\ deferred' = FALSE
           /\ timer' = ws' /\ worked' = TRUE
        \/ /\ offer # Nothing
           /\ ws' = empty /\ pending' = Nothing /\ deferred' = TRUE
           /\ timer' = Nothing /\ worked' = FALSE
     /\ unsaved' = FALSE /\ UNCHANGED <<disk, hist, stored, warned, born>>

(* The answers to the offer.                                                 *)
ResumeSession ==
  pending # Nothing /\ Become(Resumed(pending, ws), <<>>, Nothing, deferred)
Discard == pending # Nothing /\ Become(ws, <<>>, Nothing, deferred)
Later   == pending # Nothing /\ Become(ws, <<>>, Nothing, TRUE)

Init ==
  /\ app = "closed" /\ ws = EmptySession(Nothing) /\ pending = Nothing
  /\ deferred = FALSE /\ timer = Nothing /\ disk = Nothing /\ hist = <<>>
  /\ stored = <<>> /\ unsaved = FALSE /\ warned = FALSE /\ born = 0 /\ worked = FALSE

Next ==
  \/ NewQuery \/ RunFromHistory \/ Open \/ Duplicate
  \/ Close \/ CloseMany \/ CloseAll
  \/ Pin \/ Bind \/ Type
  \/ Run \/ Snapshot \/ RestoreVersion
  \/ Save \/ Hide \/ Quit \/ Crash
  \/ Start \/ ResumeSession \/ Discard \/ Later

Spec == Init /\ [][Next]_vars

----------------------------------------------------------------------------
(* "Versions are keyed by tab id, which is stable across restarts            *)
(* (TabState.seq never hands an id out twice)" (localHistory.ts:9-10): the   *)
(* versions under an id are of one tab, the one that has the id now if one   *)
(* has.                                                                      *)
VersionsAreOwn ==
  \A id \in DOMAIN hist \cup Ids(ws) :
    LET docs == {v.doc : v \in ToSet(VersionsOf(hist, id))}
                \cup {t.doc : t \in {u \in ToSet(Queries(ws)) : u.id = id}}
    IN \A a, b \in docs : a = b

(* "Never lose editor work" (localHistory.ts:1): whatever closes a tab, its  *)
(* text is the newest version under its id, in the window and, unless the    *)
(* user has been warned, where it is stored. There is none of a blank text,  *)
(* of one too big or with the history off: the code gives these up, and      *)
(* tells of the big ones (localHistory.ts:67-69). Leaving the application,   *)
(* even within a second of a change, a text of any size is in the saved      *)
(* session, but for the tabs over MAX_RESTORED_TABS and a refused write.     *)
IsNewest(h, t) == VersionsOf(h, t.id) # <<>> /\ VersionsOf(h, t.id)[1].text = t.text
LastQueries(s) ==
  LET q == Queries(s) IN {q[k] : k \in {j \in DOMAIN q : j + MaxRestored > Len(q)}}
ClosedTextIsKept ==
  [][LET q == Queries(ws) IN \A k \in DOMAIN q :
       LET t == q[k] IN
       /\ app' = "open" /\ t.id \notin Ids(ws)' /\ Recordable(t) =>
            IsNewest(hist', t) /\ (~warned' => IsNewest(stored', t))
       /\ app' = "closed" /\ t.text # Blank /\ t \in LastQueries(ws) /\ ~unsaved' =>
            disk' # Nothing /\ \E i \in DOMAIN disk'.tabs : disk'.tabs[i] = t]_vars

(* One tab per object and per tool on each connection, and per snippet       *)
(* (issues #338, #414, #493), over copies, rebinding and restored sessions.  *)
OneTabPerThing ==
  \A of \in {"object", "snippet", "tool"}, c \in Focus :
    Cardinality(Opened(ws, of, c)) <= 1

(* "Nothing is thrown away. The saved session stays on disk for the next     *)
(* start until there is new work worth saving in its place" (App.tsx:630).   *)
OfferIsKept ==
  [][app = "open" /\ (pending # Nothing \/ deferred) /\ ~worked => disk' = disk]_vars
=============================================================================
