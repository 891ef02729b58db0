--------------------------- MODULE GridEditProofs ---------------------------
(***************************************************************************)
(* What holds of the edits of a page for tables, pages and sequences of     *)
(* changes of any size.                                                     *)
(***************************************************************************)
EXTENDS GridEdit, SequenceFacts

(* A table is rows with an identity and a value; whatever the value is.      *)
IsTable(T) == \A k \in DOMAIN T : T[k] = [id |-> T[k].id, v |-> T[k].v]
IdsOf(T) == {T[k].id : k \in DOMAIN T}
OneRowEach(T) == \A j, k \in DOMAIN T : T[j].id = T[k].id => j = k

(* The identities handed out so far to other sessions and to new rows.       *)
NowIds(n) == {NewId(n, m) : m \in Nat}
NewIds(n) == UNION {NowIds(i) : i \in {j \in Nat : j < n}}
Known == {RowId(k) : k \in Nat} \cup {OtherId(n) : n \in {i \in Nat : i < writes}} \cup NewIds(ops)

Stores ==
  /\ IsTable(db) /\ IsTable(work)
  /\ OneRowEach(db) /\ OneRowEach(work)
  /\ IdsOf(db) \cup IdsOf(work) \subseteq Known
  /\ ops \in Nat /\ writes \in Nat
  /\ ~hasTx \/ st # "applying" => work = db
  /\ grid \in Seq(ToSet(grid))

(* The pending changes: each new row has an identity of its own.             *)
Tidy(p) ==
  /\ p = [edits |-> p.edits, deletes |-> p.deletes, inserts |-> p.inserts,
          modes |-> p.modes, asNull |-> p.asNull]
  /\ p.deletes \in Seq(ToSet(p.deletes)) /\ p.inserts \in Seq(ToSet(p.inserts))
  /\ \A a, b \in DOMAIN p.deletes : p.deletes[a] = p.deletes[b] => a = b
  /\ \A j \in DOMAIN p.inserts :
       p.inserts[j] = [vals |-> p.inserts[j].vals, batch |-> p.inserts[j].batch, n |-> p.inserts[j].n]
  /\ \A a, b \in DOMAIN p.inserts : p.inserts[a].n = p.inserts[b].n => a = b
NewRows(p) == {p.inserts[j].n : j \in DOMAIN p.inserts}

(* Nothing of the pending changes has been applied where it would stay.      *)
Intact == st # "applying" \/ hasTx \/ at = 1

Pending ==
  /\ Tidy(pend) /\ NewRows(pend) \subseteq NewIds(ops)
  /\ Intact => NewRows(pend) \cap IdsOf(db) = {}

(* The items still to run: each new row once, and not in the table yet.      *)
ToRun == {j \in DOMAIN plan : at <= j}
NewToRun == {j \in ToRun : plan[j].kind = "insert"}
Applying ==
  st = "applying" =>
    /\ at \in Nat \ {0} /\ plan \in Seq(ToSet(plan))
    /\ \A j \in ToRun : plan[j].kind \in {"update", "delete", "insert"}
    /\ \A j \in NewToRun : plan[j].n \in NewIds(ops) \ IdsOf(work)
    /\ \A j, k \in NewToRun : plan[j].n = plan[k].n => j = k

IInv == Stores /\ Pending /\ Applying

(* The page, and what the user meant: a patient one, on a table nobody else  *)
(* deletes from.                                                            *)
Careful == Patient /\ "delete" \notin Writes
Marked(p) == {i \in DOMAIN grid : i \in DOMAIN p.edits \/ IsDeleted(p, i)}
Screen ==
  /\ Len(grid) <= PageSize /\ DOMAIN meant = 1..PageSize
  /\ \A i, j \in DOMAIN grid : grid[i].k = grid[j].k => i = j
  /\ Intact => \A i \in DOMAIN grid : grid[i].k \in DOMAIN db /\ db[grid[i].k].id = grid[i].id
  /\ st # "view" => \A i \in Marked(pend) : meant[i] = grid[i].id

(* The items still to run on rows of the page: each row once, and there.     *)
OldToRun == {j \in ToRun : plan[j].kind # "insert"}
Aimed ==
  st = "applying" =>
    /\ \A j \in OldToRun : plan[j].key \in DOMAIN work /\ work[plan[j].key].id = plan[j].n
    /\ \A j, k \in OldToRun : plan[j].key = plan[k].key => j = k

----------------------------------------------------------------------------
(* Tables.                                                                  *)

LEMMA Identities ==
  \A a, b : /\ OtherId(a) = OtherId(b) => a = b
            /\ RowId(a) = RowId(b) => a = b
            /\ OtherId(a) # RowId(b)
            /\ \A x, y : NewId(a, x) = NewId(b, y) => a = b /\ x = y
            /\ \A x : NewId(a, x) # OtherId(b) /\ NewId(a, x) # RowId(b)
  BY DEF NewId, OtherId, RowId

(* A new row of a later change is none of those before.                     *)
LEMMA NowIsNew ==
  ASSUME NEW n \in Nat
  PROVE  /\ NowIds(n) \cap NewIds(n) = {}
         /\ NowIds(n) \subseteq NewIds(n + 1) /\ NewIds(n) \subseteq NewIds(n + 1)
  <1>1. NowIds(n) \cap NewIds(n) = {}
    BY Identities DEF NowIds, NewIds
  <1>2. n \in {j \in Nat : j < n + 1} /\ {j \in Nat : j < n} \subseteq {j \in Nat : j < n + 1}
    OBVIOUS
  <1>3. NowIds(n) \subseteq NewIds(n + 1) /\ NewIds(n) \subseteq NewIds(n + 1)
    BY <1>2 DEF NewIds
  <1> QED BY <1>1, <1>3

LEMMA WithoutRow ==
  ASSUME NEW T, IsTable(T), NEW k
  PROVE  /\ DOMAIN Without(T, k) = DOMAIN T \ {k}
         /\ \A j \in DOMAIN T \ {k} : Without(T, k)[j] = T[j]
         /\ IsTable(Without(T, k)) /\ IdsOf(Without(T, k)) \subseteq IdsOf(T)
         /\ OneRowEach(T) => OneRowEach(Without(T, k))
         /\ OneRowEach(T) /\ k \in DOMAIN T => T[k].id \notin IdsOf(Without(T, k))
  BY DEF Without, IsTable, IdsOf, OneRowEach

(* A row put at a free key, with an identity no other row has.               *)
LEMMA WithRow ==
  ASSUME NEW T, IsTable(T), NEW k, k \notin DOMAIN T, NEW row, row = [id |-> row.id, v |-> row.v]
  PROVE  /\ DOMAIN With(T, k, row) = DOMAIN T \cup {k} /\ With(T, k, row)[k] = row
         /\ \A j \in DOMAIN T : With(T, k, row)[j] = T[j]
         /\ IsTable(With(T, k, row)) /\ IdsOf(With(T, k, row)) = IdsOf(T) \cup {row.id}
         /\ OneRowEach(T) /\ row.id \notin IdsOf(T) => OneRowEach(With(T, k, row))
  <1> DEFINE U == With(T, k, row)
  <1>1. /\ DOMAIN U = DOMAIN T \cup {k} /\ U[k] = row
        /\ \A j \in DOMAIN T : U[j] = T[j]
    BY DEF With
  <1> HIDE DEF U
  <1>2. IsTable(U)
    BY <1>1 DEF IsTable
  <1>3. IdsOf(U) = IdsOf(T) \cup {row.id}
    BY <1>1 DEF IdsOf
  <1>4. OneRowEach(T) /\ row.id \notin IdsOf(T) => OneRowEach(U)
    BY <1>1 DEF OneRowEach, IdsOf
  <1> QED BY <1>1, <1>2, <1>3, <1>4 DEF U

(* A statement on a row of the page leaves every other row where it is.      *)
LEMMA OldRowEffect ==
  ASSUME NEW T, IsTable(T), NEW item, item.kind \in {"update", "delete"},
         NEW U \in Effects(item, T)
  PROVE  /\ IsTable(U) /\ IdsOf(U) \subseteq IdsOf(T) /\ (OneRowEach(T) => OneRowEach(U))
         /\ \A k \in DOMAIN T \ {item.key} : k \in DOMAIN U /\ U[k].id = T[k].id
  <1>1. CASE item.kind = "delete"
    <2>1. U = Without(T, item.key)
      BY <1>1 DEF Effects
    <2>2. /\ IsTable(U) /\ IdsOf(U) \subseteq IdsOf(T) /\ (OneRowEach(T) => OneRowEach(U))
          /\ DOMAIN U = DOMAIN T \ {item.key} /\ \A j \in DOMAIN T \ {item.key} : U[j] = T[j]
      BY <2>1, WithoutRow
    <2> QED BY <2>2
  <1>2. CASE item.kind = "update" /\ item.key \notin DOMAIN T
    BY <1>2 DEF Effects
  <1>3. CASE item.kind = "update" /\ item.key \in DOMAIN T
    <2> DEFINE to == IF "k" \in DOMAIN item.set THEN item.set["k"] ELSE item.key
               x == IF "v" \in DOMAIN item.set THEN item.set["v"] ELSE T[item.key].v
               row == [T[item.key] EXCEPT !.v = x]
               V == Without(T, item.key)
    <2>1. U = With(V, to, row) /\ (to # item.key => to \notin DOMAIN T)
      BY <1>3 DEF Effects
    <2>2. T[item.key] = [id |-> T[item.key].id, v |-> T[item.key].v]
      BY <1>3 DEF IsTable
    <2>3. row = [id |-> T[item.key].id, v |-> x]
      BY <2>2
    <2>4. /\ DOMAIN V = DOMAIN T \ {item.key} /\ IsTable(V) /\ IdsOf(V) \subseteq IdsOf(T)
          /\ \A j \in DOMAIN T \ {item.key} : V[j] = T[j]
          /\ OneRowEach(T) => OneRowEach(V) /\ T[item.key].id \notin IdsOf(V)
      BY <1>3, WithoutRow DEF OneRowEach
    <2> HIDE DEF row, x, V
    <2>5. row = [id |-> row.id, v |-> row.v] /\ row.id = T[item.key].id
      BY <2>3
    <2>6. to \notin DOMAIN V
      BY <2>1, <2>4
    <2> HIDE DEF to
    <2>7. /\ DOMAIN U = DOMAIN V \cup {to} /\ IsTable(U) /\ IdsOf(U) = IdsOf(V) \cup {row.id}
          /\ \A j \in DOMAIN V : U[j] = V[j]
          /\ OneRowEach(V) /\ row.id \notin IdsOf(V) => OneRowEach(U)
      BY <2>1, <2>4, <2>5, <2>6, WithRow
    <2>8. row.id \in IdsOf(T)
      BY <1>3, <2>5 DEF IdsOf
    <2> QED BY <2>4, <2>5, <2>7, <2>8
  <1> QED BY <1>1, <1>2, <1>3

(* An insert adds one row, its own.                                         *)
LEMMA NewRowEffect ==
  ASSUME NEW T, IsTable(T), NEW item, item.kind = "insert", NEW U \in Effects(item, T)
  PROVE  /\ IsTable(U) /\ IdsOf(U) = IdsOf(T) \cup {item.n}
         /\ OneRowEach(T) /\ item.n \notin IdsOf(T) => OneRowEach(U)
         /\ \A k \in DOMAIN T : k \in DOMAIN U /\ U[k].id = T[k].id
  <1>1. PICK row : /\ row = [id |-> item.n,
                             v |-> IF "v" \in DOMAIN item.set THEN item.set["v"] ELSE Null]
    OBVIOUS
  <1>2. PICK k : k \notin DOMAIN T /\ U = With(T, k, row)
    BY <1>1 DEF Effects
  <1>3. row = [id |-> row.id, v |-> row.v] /\ row.id = item.n
    BY <1>1
  <1>4. /\ DOMAIN U = DOMAIN T \cup {k} /\ U[k] = row /\ \A j \in DOMAIN T : U[j] = T[j]
    BY <1>2 DEF With
  <1>5. IsTable(U)
    BY <1>3, <1>4 DEF IsTable
  <1>6. IdsOf(U) = IdsOf(T) \cup {item.n}
    BY <1>3, <1>4 DEF IdsOf
  <1>7. OneRowEach(T) /\ item.n \notin IdsOf(T) => OneRowEach(U)
    BY <1>2, <1>3, <1>4 DEF OneRowEach, IdsOf
  <1> QED BY <1>4, <1>5, <1>6, <1>7

----------------------------------------------------------------------------
(* The plan.                                                                *)

LEMMA OwnSeq == ASSUME NEW S, NEW s \in Seq(S) PROVE s \in Seq(ToSet(s))
  <1>1. Len(s) \in Nat /\ DOMAIN s = 1..Len(s) /\ s = [k \in 1..Len(s) |-> s[k]]
    BY LenProperties
  <1>2. \A k \in 1..Len(s) : s[k] \in ToSet(s)
    BY <1>1 DEF ToSet
  <1> QED BY <1>1, <1>2

LEMMA InOrderKeeps ==
  ASSUME NEW n \in Nat, NEW S
  PROVE  /\ InOrder(S, n) \in Seq(1..n)
         /\ \A i \in DOMAIN InOrder(S, n) : InOrder(S, n)[i] \in S \cap (1..n)
         /\ \A i, j \in DOMAIN InOrder(S, n) : InOrder(S, n)[i] = InOrder(S, n)[j] => i = j
  <1> DEFINE s == [k \in 1..n |-> k]
             q == Only(s, S)
  <1>1. s \in Seq(1..n) /\ DOMAIN s = 1..n /\ \A k \in 1..n : s[k] = k
    OBVIOUS
  <1> HIDE DEF s
  <1>2. q \in Seq(1..n)
    BY <1>1, OnlyPicks
  <1>3. PICK p \in [DOMAIN q -> DOMAIN s] :
           /\ \A i \in DOMAIN q : q[i] = s[p[i]] /\ s[p[i]] \in S
           /\ \A i, j \in DOMAIN q : p[i] = p[j] => i = j
    BY <1>1, OnlyKeeps
  <1> HIDE DEF q
  <1>4. \A i \in DOMAIN q : q[i] = p[i] /\ q[i] \in S /\ q[i] \in 1..n
    BY <1>1, <1>3
  <1>5. q = InOrder(S, n)
    BY DEF q, s, InOrder
  <1> QED BY <1>2, <1>3, <1>4, <1>5

(* Each item of the plan stands for one pending change, and each change has  *)
(* one item: src says which.                                                *)
Stands(p, P, src) ==
  /\ \A a \in DOMAIN P :
       \/ src[a] \in Changed(p) /\ P[a] = Update(p, src[a])
       \/ src[a] \in DOMAIN grid /\ IsDeleted(p, src[a]) /\ P[a] = Delete(p, src[a])
       \/ src[a] \in DOMAIN p.inserts /\ P[a] = Insert(p, src[a])
  /\ \A a, b \in DOMAIN P :
       (P[a].kind = "insert" <=> P[b].kind = "insert") /\ src[a] = src[b] => a = b

LEMMA Kinds ==
  \A p, i : Update(p, i).kind = "update" /\ Delete(p, i).kind = "delete" /\ Insert(p, i).kind = "insert"
  BY DEF Update, Delete, Insert

LEMMA PlanStands ==
  ASSUME NEW p, Tidy(p), grid \in Seq(ToSet(grid))
  PROVE  /\ BuildPlan(p) \in Seq(ToSet(BuildPlan(p)))
         /\ \E src : Stands(p, BuildPlan(p), src)
  <1> DEFINE sent == {j \in DOMAIN p.inserts : DOMAIN Sent(p, j) # {}}
             u == InOrder(Changed(p), Len(grid))
             d == Only(p.deletes, DOMAIN grid)
             s == InOrder(sent, Len(p.inserts))
             S == {Update(p, i) : i \in DOMAIN grid} \cup {Delete(p, i) : i \in DOMAIN grid}
                  \cup {Insert(p, j) : j \in DOMAIN p.inserts}
             U == Updates(p)
             D == Deletes(p)
             I == Inserts(p)
             P == BuildPlan(p)
  <1>1. /\ Len(grid) \in Nat /\ DOMAIN grid = 1..Len(grid)
        /\ Len(p.inserts) \in Nat /\ DOMAIN p.inserts = 1..Len(p.inserts)
        /\ p.deletes \in Seq(ToSet(p.deletes))
    BY LenProperties DEF Tidy
  <1>2. /\ u \in Seq(1..Len(grid)) /\ \A i \in DOMAIN u : u[i] \in Changed(p)
        /\ \A i, j \in DOMAIN u : u[i] = u[j] => i = j
    BY <1>1, InOrderKeeps
  <1>3. /\ d \in Seq(ToSet(p.deletes)) /\ \A i \in DOMAIN d : d[i] \in DOMAIN grid /\ IsDeleted(p, d[i])
        /\ \A i, j \in DOMAIN d : d[i] = d[j] => i = j
    <2>1. d \in Seq(ToSet(p.deletes))
      BY <1>1, OnlyPicks
    <2>2. PICK w \in [DOMAIN d -> DOMAIN p.deletes] :
             /\ \A i \in DOMAIN d : d[i] = p.deletes[w[i]] /\ p.deletes[w[i]] \in DOMAIN grid
             /\ \A i, j \in DOMAIN d : w[i] = w[j] => i = j
      <3>1. PICK x, X, T : x = p.deletes /\ X = ToSet(p.deletes) /\ T = DOMAIN grid
        OBVIOUS
      <3>2. PICK e : e = Only(x, T)
        OBVIOUS
      <3>3. PICK w \in [DOMAIN e -> DOMAIN x] :
             /\ \A i \in DOMAIN e : e[i] = x[w[i]] /\ x[w[i]] \in T
             /\ \A i, j \in DOMAIN e : w[i] = w[j] => i = j
        BY <1>1, <3>1, <3>2, OnlyKeeps
      <3>4. e = d
        BY <3>1, <3>2
      <3> HIDE DEF d
      <3> QED BY <3>1, <3>3, <3>4
    <2> HIDE DEF d
    <2>3. \A i, j \in DOMAIN d : d[i] = d[j] => i = j
      BY <2>2 DEF Tidy
    <2>4. \A i \in DOMAIN d : d[i] \in DOMAIN grid /\ IsDeleted(p, d[i])
      BY <2>2 DEF IsDeleted, ToSet
    <2> QED BY <2>1, <2>3, <2>4
  <1>4. /\ s \in Seq(1..Len(p.inserts)) /\ \A i \in DOMAIN s : s[i] \in DOMAIN p.inserts
        /\ \A i, j \in DOMAIN s : s[i] = s[j] => i = j
    BY <1>1, InOrderKeeps
  <1>5. /\ U = [i \in DOMAIN u |-> Update(p, u[i])]
        /\ D = [i \in DOMAIN d |-> Delete(p, d[i])]
        /\ I = [i \in DOMAIN s |-> Insert(p, s[i])]
    BY DEF Updates, Deletes, Inserts, Mapped
  <1>6. P = (U \o D) \o I
    BY DEF BuildPlan
  <1>7. Changed(p) \subseteq DOMAIN grid /\ \A i \in Changed(p) : ~IsDeleted(p, i)
    BY DEF Changed
  <1> HIDE DEF u, d, s, U, D, I, P, sent
  <1> DEFINE lu == Len(u)
             ld == Len(d)
             li == Len(s)
  <1>8. /\ DOMAIN u = 1..lu /\ lu \in Nat /\ DOMAIN d = 1..ld /\ ld \in Nat
        /\ DOMAIN s = 1..li /\ li \in Nat
    BY <1>2, <1>3, <1>4, LenProperties
  <1>9. U \in Seq(S) /\ D \in Seq(S) /\ I \in Seq(S) /\ Len(U) = lu /\ Len(D) = ld /\ Len(I) = li
    <2>1. \A i \in DOMAIN u : Update(p, u[i]) \in S
      BY <1>2, <1>7
    <2>2. \A i \in DOMAIN d : Delete(p, d[i]) \in S
      BY <1>3
    <2>3. \A i \in DOMAIN s : Insert(p, s[i]) \in S
      BY <1>4
    <2> HIDE DEF S, lu, ld, li
    <2>4. U \in Seq(S) /\ Len(U) = lu
      BY <2>1, <1>5, <1>8
    <2>5. D \in Seq(S) /\ Len(D) = ld
      BY <2>2, <1>5, <1>8
    <2>6. I \in Seq(S) /\ Len(I) = li
      BY <2>3, <1>5, <1>8
    <2> QED BY <2>4, <2>5, <2>6
  <1> HIDE DEF S, lu, ld, li
  <1>10. /\ P \in Seq(S) /\ Len(P) = lu + ld + li
         /\ \A a \in 1..lu : P[a] = Update(p, u[a])
         /\ \A a \in (lu + 1)..(lu + ld) : P[a] = Delete(p, d[a - lu])
         /\ \A a \in (lu + ld + 1)..(lu + ld + li) : P[a] = Insert(p, s[a - lu - ld])
    <2> DEFINE V == U \o D
    <2>1. /\ V \in Seq(S) /\ Len(V) = lu + ld
          /\ \A a \in 1..(lu + ld) : V[a] = IF a <= lu THEN U[a] ELSE D[a - lu]
      BY <1>9, ConcatProperties
    <2> HIDE DEF V
    <2>2. /\ P \in Seq(S) /\ Len(P) = lu + ld + li
          /\ \A a \in 1..(lu + ld + li) : P[a] = IF a <= lu + ld THEN V[a] ELSE I[a - (lu + ld)]
      BY <1>6, <1>9, <2>1, ConcatProperties DEF V
    <2>3. ASSUME NEW a \in 1..lu PROVE P[a] = Update(p, u[a])
      BY <2>1, <2>2, <1>5, <1>8
    <2>4. ASSUME NEW a \in (lu + 1)..(lu + ld) PROVE P[a] = Delete(p, d[a - lu])
      <3>1. P[a] = V[a] /\ V[a] = D[a - lu] /\ a - lu \in 1..ld
        BY <2>1, <2>2, <1>8
      <3> QED BY <3>1, <1>5, <1>8
    <2>5. ASSUME NEW a \in (lu + ld + 1)..(lu + ld + li) PROVE P[a] = Insert(p, s[a - lu - ld])
      <3>1. P[a] = I[a - (lu + ld)] /\ a - (lu + ld) = a - lu - ld /\ a - lu - ld \in 1..li
        BY <2>2, <1>8
      <3> QED BY <3>1, <1>5, <1>8
    <2> QED BY <2>2, <2>3, <2>4, <2>5
  <1>11. DOMAIN P = 1..(lu + ld + li)
    BY <1>10, LenProperties
  <1> DEFINE src == [a \in 1..(lu + ld + li) |->
                       IF a <= lu THEN u[a] ELSE IF a <= lu + ld THEN d[a - lu] ELSE s[a - lu - ld]]
  <1>12. ASSUME NEW a \in DOMAIN P
         PROVE  \/ /\ a \in 1..lu /\ src[a] = u[a] /\ src[a] \in Changed(p)
                   /\ P[a] = Update(p, src[a]) /\ P[a].kind # "insert"
                \/ /\ a \in (lu + 1)..(lu + ld) /\ src[a] = d[a - lu] /\ a - lu \in 1..ld
                   /\ src[a] \in DOMAIN grid /\ IsDeleted(p, src[a])
                   /\ P[a] = Delete(p, src[a]) /\ P[a].kind # "insert"
                \/ /\ a \in (lu + ld + 1)..(lu + ld + li) /\ src[a] = s[a - lu - ld] /\ a - lu - ld \in 1..li
                   /\ src[a] \in DOMAIN p.inserts
                   /\ P[a] = Insert(p, src[a]) /\ P[a].kind = "insert"
    <2>1. CASE a \in 1..lu
      BY <2>1, <1>2, <1>8, <1>10, <1>11, Kinds
    <2>2. CASE a \in (lu + 1)..(lu + ld)
      BY <2>2, <1>3, <1>8, <1>10, <1>11, Kinds
    <2>3. CASE a \in (lu + ld + 1)..(lu + ld + li)
      <3>1. a - lu - ld \in 1..li /\ src[a] = s[a - lu - ld]
        BY <2>3, <1>8, <1>11
      <3>2. P[a] = Insert(p, src[a])
        BY <2>3, <3>1, <1>10
      <3>3. src[a] \in DOMAIN p.inserts
        BY <3>1, <1>4, <1>8
      <3> HIDE DEF src
      <3> QED BY <2>3, <3>1, <3>2, <3>3, Kinds
    <2> QED BY <1>8, <1>11, <2>1, <2>2, <2>3
  <1> HIDE DEF src
  <1>13. ASSUME NEW a \in DOMAIN P, NEW b \in DOMAIN P, src[a] = src[b],
                P[a].kind = "insert" <=> P[b].kind = "insert"
         PROVE  a = b
    <2>1. CASE P[a].kind = "insert"
      <3>1. /\ a \in (lu + ld + 1)..(lu + ld + li) /\ src[a] = s[a - lu - ld] /\ a - lu - ld \in 1..li
            /\ b \in (lu + ld + 1)..(lu + ld + li) /\ src[b] = s[b - lu - ld] /\ b - lu - ld \in 1..li
        BY <2>1, <1>13, <1>12
      <3>2. a - lu - ld = b - lu - ld
        BY <3>1, <1>13, <1>4, <1>8
      <3> QED BY <3>1, <3>2, <1>8
    <2>2. CASE P[a].kind # "insert"
      BY SMTT(30), <2>2, <1>13, <1>12, <1>2, <1>3, <1>7, <1>8
    <2> QED BY <2>1, <2>2
  <1>14. Stands(p, P, src)
    BY <1>12, <1>13 DEF Stands
  <1>15. P \in Seq(ToSet(P))
    BY <1>10, OwnSeq
  <1> QED BY <1>14, <1>15 DEF P

----------------------------------------------------------------------------
(* The pending changes: what the user does to them gives tidy ones, whose    *)
(* new rows were there or are those of this step, and marks no row          *)
(* of the page but those of the step.                                       *)
Sensible(p, rows) ==
  /\ Tidy(p) /\ NewRows(p) \subseteq NewRows(pend) \cup NowIds(ops)
  /\ rows \subseteq DOMAIN grid /\ Marked(p) \subseteq Marked(pend) \cup rows

LEMMA NothingPending == Tidy(NoPending) /\ NewRows(NoPending) = {} /\ Marked(NoPending) = {}
  <1>1. /\ NoPending = [edits |-> NoPending.edits, deletes |-> <<>>, inserts |-> <<>>,
                        modes |-> <<>>, asNull |-> <<>>]
        /\ DOMAIN NoPending.edits = {}
    BY DEF NoPending
  <1>2. <<>> \in Seq(ToSet(<<>>)) /\ ToSet(<<>>) = {}
    BY DEF ToSet
  <1>3. NoPending.deletes = <<>> /\ NoPending.inserts = <<>>
        /\ NoPending.modes = <<>> /\ NoPending.asNull = <<>> /\ DOMAIN <<>> = {}
    BY <1>1
  <1>4. Tidy(NoPending)
    BY <1>1, <1>2, <1>3 DEF Tidy
  <1>5. NewRows(NoPending) = {}
    BY <1>3 DEF NewRows
  <1>6. Marked(NoPending) = {}
    BY <1>1, <1>2, <1>3 DEF Marked, IsDeleted
  <1> QED BY <1>4, <1>5, <1>6

(* Changes that leave the new rows alone.                                   *)
LEMMA EditsOnly ==
  ASSUME IInv, NEW p, NEW e, p = [pend EXCEPT !.edits = e], NEW rows, rows \subseteq DOMAIN grid,
         DOMAIN e \subseteq DOMAIN pend.edits \cup rows
  PROVE  Sensible(p, rows)
  <1>1. pend = [edits |-> pend.edits, deletes |-> pend.deletes, inserts |-> pend.inserts,
                modes |-> pend.modes, asNull |-> pend.asNull]
    BY DEF IInv, Pending, Tidy
  <1>2. p = [edits |-> e, deletes |-> pend.deletes, inserts |-> pend.inserts,
             modes |-> pend.modes, asNull |-> pend.asNull]
    BY <1>1
  <1>3. p.edits = e /\ p.deletes = pend.deletes /\ p.inserts = pend.inserts
        /\ p.modes = pend.modes /\ p.asNull = pend.asNull
    BY <1>2
  <1>4. Tidy(p)
    BY <1>2, <1>3 DEF IInv, Pending, Tidy
  <1>5. NewRows(p) = NewRows(pend)
    BY <1>3 DEF NewRows
  <1>6. Marked(p) \subseteq Marked(pend) \cup rows
    BY <1>3 DEF Marked, IsDeleted
  <1> QED BY <1>4, <1>5, <1>6 DEF Sensible

LEMMA DeletesOnly ==
  ASSUME IInv, NEW p, NEW e, NEW ds, p = [pend EXCEPT !.edits = e, !.deletes = ds],
         ds \in Seq(ToSet(ds)), \A a, b \in DOMAIN ds : ds[a] = ds[b] => a = b,
         NEW rows, rows \subseteq DOMAIN grid,
         DOMAIN e \subseteq DOMAIN pend.edits, ToSet(ds) \subseteq ToSet(pend.deletes) \cup rows
  PROVE  Sensible(p, rows)
  <1>1. pend = [edits |-> pend.edits, deletes |-> pend.deletes, inserts |-> pend.inserts,
                modes |-> pend.modes, asNull |-> pend.asNull]
    BY DEF IInv, Pending, Tidy
  <1>2. p = [edits |-> e, deletes |-> ds, inserts |-> pend.inserts,
             modes |-> pend.modes, asNull |-> pend.asNull]
    BY <1>1
  <1>3. p.edits = e /\ p.deletes = ds /\ p.inserts = pend.inserts
        /\ p.modes = pend.modes /\ p.asNull = pend.asNull
    BY <1>2
  <1>4. Tidy(p)
    BY <1>2, <1>3 DEF IInv, Pending, Tidy
  <1>5. NewRows(p) = NewRows(pend)
    BY <1>3 DEF NewRows
  <1>6. Marked(p) \subseteq Marked(pend) \cup rows
    BY <1>3 DEF Marked, IsDeleted
  <1> QED BY <1>4, <1>5, <1>6 DEF Sensible

(* Changes to the new rows alone.                                           *)
LEMMA InsertsOnly ==
  ASSUME IInv, NEW p, NEW ins, NEW ms, NEW ns, NEW rows, rows \subseteq DOMAIN grid,
         p = [edits |-> pend.edits, deletes |-> pend.deletes, inserts |-> ins,
              modes |-> ms, asNull |-> ns],
         ins \in Seq(ToSet(ins)),
         \A j \in DOMAIN ins : /\ ins[j] = [vals |-> ins[j].vals, batch |-> ins[j].batch, n |-> ins[j].n]
                               /\ ins[j].n \in NewRows(pend) \cup NowIds(ops),
         \A a, b \in DOMAIN ins : ins[a].n = ins[b].n => a = b
  PROVE  Sensible(p, rows)
  <1>1. p.edits = pend.edits /\ p.deletes = pend.deletes /\ p.inserts = ins
        /\ p.modes = ms /\ p.asNull = ns
    OBVIOUS
  <1>2. Tidy(p)
    BY <1>1 DEF IInv, Pending, Tidy
  <1>3. NewRows(p) \subseteq NewRows(pend) \cup NowIds(ops)
    BY <1>1 DEF NewRows
  <1>4. Marked(p) = Marked(pend)
    BY <1>1 DEF Marked, IsDeleted
  <1> QED BY <1>2, <1>3, <1>4 DEF Sensible

LEMMA CellSetSensible ==
  ASSUME IInv, NEW i \in DOMAIN grid, NEW c, NEW x
  PROVE  Sensible(CellSet(pend, i, c, x), {i})
  <1> DEFINE e == With(pend.edits, i, With(EditsOf(pend, i), c, x))
  <1>1. DOMAIN e \subseteq DOMAIN pend.edits \cup {i}
    BY DEF With
  <1> HIDE DEF e
  <1>2. CellSet(pend, i, c, x) = [pend EXCEPT !.edits = e]
    BY DEF CellSet, e
  <1> QED BY <1>1, <1>2, EditsOnly

LEMMA RevertedSensible ==
  ASSUME IInv, NEW i, NEW c, i \in DOMAIN pend.edits \/ c \notin DOMAIN EditsOf(pend, i)
  PROVE  c \in DOMAIN EditsOf(pend, i) => Sensible(CellReverted(pend, i, c), {})
  <1> SUFFICES ASSUME i \in DOMAIN pend.edits PROVE Sensible(CellReverted(pend, i, c), {})
    OBVIOUS
  <1> DEFINE rest == Without(EditsOf(pend, i), c)
             e == IF DOMAIN rest = {} THEN Without(pend.edits, i) ELSE With(pend.edits, i, rest)
  <1>1. DOMAIN e \subseteq DOMAIN pend.edits \cup {}
    BY DEF With, Without
  <1>2. CellReverted(pend, i, c) = [pend EXCEPT !.edits = e]
    BY DEF CellReverted
  <1> HIDE DEF e
  <1> QED BY <1>1, <1>2, EditsOnly

(* A filter of the marked rows.                                             *)
LEMMA FewerDeletes ==
  ASSUME IInv, NEW T
  PROVE  LET ds == Only(pend.deletes, T) IN
         /\ ds \in Seq(ToSet(ds)) /\ \A a, b \in DOMAIN ds : ds[a] = ds[b] => a = b
         /\ ToSet(ds) \subseteq ToSet(pend.deletes)
  <1>1. PICK x, X : x = pend.deletes /\ X = ToSet(x) /\ x \in Seq(X)
    BY DEF IInv, Pending, Tidy
  <1>2. PICK ds : ds = Only(x, T)
    OBVIOUS
  <1>3. ds \in Seq(X)
    BY <1>1, <1>2, OnlyPicks
  <1>4. PICK w \in [DOMAIN ds -> DOMAIN x] :
          /\ \A i \in DOMAIN ds : ds[i] = x[w[i]] /\ x[w[i]] \in T
          /\ \A i, j \in DOMAIN ds : w[i] = w[j] => i = j
    BY <1>1, <1>2, OnlyKeeps
  <1>5. \A a, b \in DOMAIN ds : ds[a] = ds[b] => a = b
    BY <1>1, <1>4 DEF IInv, Pending, Tidy
  <1>6. ToSet(ds) \subseteq ToSet(pend.deletes)
    BY <1>1, <1>4 DEF ToSet
  <1>7. ds \in Seq(ToSet(ds))
    BY <1>3, OwnSeq
  <1> QED BY <1>1, <1>2, <1>5, <1>6, <1>7

LEMMA RowRevertedSensible == ASSUME IInv, NEW i PROVE Sensible(RowReverted(pend, i), {})
  <1> DEFINE e == Without(pend.edits, i)
             ds == Only(pend.deletes, ToSet(pend.deletes) \ {i})
  <1>1. RowReverted(pend, i) = [pend EXCEPT !.edits = e, !.deletes = ds]
    BY DEF RowReverted
  <1>2. DOMAIN e \subseteq DOMAIN pend.edits
    BY DEF Without
  <1>3. /\ ds \in Seq(ToSet(ds)) /\ \A a, b \in DOMAIN ds : ds[a] = ds[b] => a = b
        /\ ToSet(ds) \subseteq ToSet(pend.deletes)
    BY FewerDeletes
  <1> HIDE DEF e, ds
  <1>4. PICK none : none = {}
    OBVIOUS
  <1>5. none \subseteq DOMAIN grid /\ ToSet(ds) \subseteq ToSet(pend.deletes) \cup none
    BY <1>3, <1>4
  <1>6. Sensible(RowReverted(pend, i), none)
    BY <1>1, <1>2, <1>3, <1>5, DeletesOnly
  <1> QED BY <1>4, <1>6

LEMMA ToggledSensible ==
  ASSUME IInv, NEW rows, rows \subseteq DOMAIN grid
  PROVE  Sensible(DeletesToggled(pend, rows), rows)
  <1>0. pend = [pend EXCEPT !.edits = pend.edits]
    BY DEF IInv, Pending, Tidy
  <1>1. CASE \A i \in rows : IsDeleted(pend, i)
    <2> DEFINE ds == Only(pend.deletes, ToSet(pend.deletes) \ rows)
    <2>1. DeletesToggled(pend, rows) = [pend EXCEPT !.deletes = ds]
      BY <1>1 DEF DeletesToggled
    <2>2. /\ ds \in Seq(ToSet(ds)) /\ \A a, b \in DOMAIN ds : ds[a] = ds[b] => a = b
          /\ ToSet(ds) \subseteq ToSet(pend.deletes) \cup rows
      BY FewerDeletes
    <2> HIDE DEF ds
    <2>3. DeletesToggled(pend, rows) = [pend EXCEPT !.edits = pend.edits, !.deletes = ds]
      BY <2>1, <1>0
    <2> QED BY <2>2, <2>3, DeletesOnly
  <1>2. CASE ~\A i \in rows : IsDeleted(pend, i)
    <2> DEFINE new == {i \in rows : ~IsDeleted(pend, i)}
               m == InOrder(new, Len(grid))
               old == pend.deletes
               ds == old \o m
               S == ToSet(old) \cup (1..Len(grid))
    <2>1. DeletesToggled(pend, rows) = [pend EXCEPT !.deletes = ds]
      BY <1>2 DEF DeletesToggled
    <2>2. DeletesToggled(pend, rows) = [pend EXCEPT !.edits = pend.edits, !.deletes = ds]
      BY <2>1, <1>0
    <2>3. Len(grid) \in Nat /\ DOMAIN grid = 1..Len(grid)
      BY LenProperties DEF IInv, Stores
    <2>4. /\ m \in Seq(1..Len(grid)) /\ \A i \in DOMAIN m : m[i] \in new
          /\ \A i, j \in DOMAIN m : m[i] = m[j] => i = j
      BY <2>3, InOrderKeeps
    <2>5. old \in Seq(ToSet(old)) /\ \A a, b \in DOMAIN old : old[a] = old[b] => a = b
      BY DEF IInv, Pending, Tidy
    <2>6. \A a \in DOMAIN old : old[a] \in ToSet(old)
      BY DEF ToSet
    <2>7. new \cap ToSet(old) = {} /\ new \subseteq rows
      BY DEF IsDeleted
    <2> HIDE DEF new, m, old
    <2>8. old \in Seq(S) /\ m \in Seq(S)
      BY <2>4, <2>5, SeqMonotonic
    <2> HIDE DEF S
    <2>9. /\ Len(old) \in Nat /\ Len(m) \in Nat /\ DOMAIN old = 1..Len(old) /\ DOMAIN m = 1..Len(m)
          /\ ds \in Seq(S) /\ DOMAIN ds = 1..(Len(old) + Len(m))
          /\ \A a \in 1..(Len(old) + Len(m)) :
               ds[a] = IF a <= Len(old) THEN old[a] ELSE m[a - Len(old)]
      BY <2>8, ConcatProperties, LenProperties
    <2> HIDE DEF ds
    <2>10. \A a \in DOMAIN ds : \/ a \in DOMAIN old /\ ds[a] = old[a] /\ ds[a] \in ToSet(old)
                                \/ /\ a > Len(old) /\ a - Len(old) \in DOMAIN m
                                   /\ ds[a] = m[a - Len(old)] /\ ds[a] \in new
      BY <2>4, <2>6, <2>9
    <2>11. ASSUME NEW a \in DOMAIN ds, NEW b \in DOMAIN ds, ds[a] = ds[b] PROVE a = b
      <3>1. CASE a \in DOMAIN old /\ ds[a] = old[a] /\ ds[a] \in ToSet(old)
        BY <3>1, <2>5, <2>7, <2>10, <2>11
      <3>2. CASE /\ a > Len(old) /\ a - Len(old) \in DOMAIN m
                 /\ ds[a] = m[a - Len(old)] /\ ds[a] \in new
        <4>1. b > Len(old) /\ b - Len(old) \in DOMAIN m /\ ds[b] = m[b - Len(old)]
          BY <3>2, <2>7, <2>10, <2>11
        <4>2. a - Len(old) = b - Len(old)
          BY <3>2, <4>1, <2>4, <2>11
        <4> QED BY <3>2, <4>1, <4>2, <2>9
      <3> QED BY <3>1, <3>2, <2>10
    <2>12. ToSet(ds) \subseteq ToSet(old) \cup rows
      <3>1. \A a \in DOMAIN ds : ds[a] \in ToSet(old) \cup rows
        BY <2>7, <2>10
      <3> QED BY <3>1 DEF ToSet
    <2>13. ds \in Seq(ToSet(ds))
      BY <2>9, OwnSeq
    <2> QED BY <2>2, <2>11, <2>12, <2>13, DeletesOnly DEF old
  <1> QED BY <1>1, <1>2

(* The pending rows, as the steps on them know them.                        *)
LEMMA PendingRows ==
  ASSUME IInv
  PROVE  /\ pend = [edits |-> pend.edits, deletes |-> pend.deletes, inserts |-> pend.inserts,
                    modes |-> pend.modes, asNull |-> pend.asNull]
         /\ pend.inserts \in Seq(ToSet(pend.inserts))
         /\ Len(pend.inserts) \in Nat /\ DOMAIN pend.inserts = 1..Len(pend.inserts)
         /\ \A j \in DOMAIN pend.inserts :
              /\ pend.inserts[j] = [vals |-> pend.inserts[j].vals, batch |-> pend.inserts[j].batch,
                                    n |-> pend.inserts[j].n]
              /\ pend.inserts[j].n \in NewRows(pend) /\ pend.inserts[j].n \notin NowIds(ops)
         /\ \A a, b \in DOMAIN pend.inserts : pend.inserts[a].n = pend.inserts[b].n => a = b
  <1>1. NowIds(ops) \cap NewRows(pend) = {}
    <2>1. NewRows(pend) \subseteq NewIds(ops) /\ ops \in Nat
      BY DEF IInv, Pending, Stores
    <2> QED BY <2>1, NowIsNew
  <1>2. /\ pend = [edits |-> pend.edits, deletes |-> pend.deletes, inserts |-> pend.inserts,
                    modes |-> pend.modes, asNull |-> pend.asNull]
        /\ pend.inserts \in Seq(ToSet(pend.inserts))
        /\ \A j \in DOMAIN pend.inserts :
              /\ pend.inserts[j] = [vals |-> pend.inserts[j].vals, batch |-> pend.inserts[j].batch,
                                    n |-> pend.inserts[j].n]
        /\ \A a, b \in DOMAIN pend.inserts : pend.inserts[a].n = pend.inserts[b].n => a = b
    BY DEF IInv, Pending, Tidy
  <1>3. \A j \in DOMAIN pend.inserts : pend.inserts[j].n \in NewRows(pend)
    BY DEF NewRows
  <1>4. Len(pend.inserts) \in Nat /\ DOMAIN pend.inserts = 1..Len(pend.inserts)
    BY <1>2, LenProperties
  <1> QED BY <1>1, <1>2, <1>3, <1>4

(* New rows after the others, each with an identity of this step.           *)
LEMMA AddedSensible ==
  ASSUME IInv, NEW R, NEW new \in Seq(R),
         \A j \in DOMAIN new : /\ new[j] = [vals |-> new[j].vals, batch |-> new[j].batch, n |-> new[j].n]
                               /\ new[j].n \in NowIds(ops),
         \A a, b \in DOMAIN new : new[a].n = new[b].n => a = b,
         NEW p, NEW ms, NEW ns,
         p = [edits |-> pend.edits, deletes |-> pend.deletes, inserts |-> pend.inserts \o new,
              modes |-> ms, asNull |-> ns]
  PROVE  Sensible(p, {})
  <1>1. PICK old : old = pend.inserts
    OBVIOUS
  <1>2. PICK ins : ins = old \o new
    OBVIOUS
  <1>3. PICK S : S = ToSet(old) \cup R
    OBVIOUS
  <1>4. old \in Seq(S) /\ new \in Seq(S)
    BY <1>1, <1>3, PendingRows, SeqMonotonic
  <1>5. PICK l \in Nat, m \in Nat : l = Len(old) /\ m = Len(new)
    BY <1>4, LenProperties
  <1>6. /\ DOMAIN old = 1..l /\ DOMAIN new = 1..m
        /\ ins \in Seq(S) /\ DOMAIN ins = 1..(l + m)
        /\ \A j \in 1..(l + m) : ins[j] = IF j <= l THEN old[j] ELSE new[j - l]
    BY <1>2, <1>4, <1>5, ConcatProperties, LenProperties
  <1>7. ASSUME NEW j \in DOMAIN ins
        PROVE  \/ j \in DOMAIN old /\ j <= l /\ ins[j] = old[j]
               \/ j - l \in DOMAIN new /\ ~(j <= l) /\ ins[j] = new[j - l]
    <2>1. j \in 1..(l + m)
      BY <1>6
    <2>2. CASE j <= l
      BY <2>1, <2>2, <1>6
    <2>3. CASE ~(j <= l)
      <3>1. j - l \in 1..m
        BY <2>1, <2>3
      <3> QED BY <3>1, <2>1, <2>3, <1>6
    <2> QED BY <2>2, <2>3
  <1>8. \A j \in DOMAIN old :
          /\ old[j] = [vals |-> old[j].vals, batch |-> old[j].batch, n |-> old[j].n]
          /\ old[j].n \in NewRows(pend) /\ old[j].n \notin NowIds(ops)
    BY <1>1, PendingRows
  <1>9. \A j \in DOMAIN ins : /\ ins[j] = [vals |-> ins[j].vals, batch |-> ins[j].batch, n |-> ins[j].n]
                               /\ ins[j].n \in NewRows(pend) \cup NowIds(ops)
    BY <1>7, <1>8
  <1>10. ASSUME NEW a \in DOMAIN ins, NEW b \in DOMAIN ins, ins[a].n = ins[b].n PROVE a = b
    <2>1. \A x, y \in DOMAIN old : old[x].n = old[y].n => x = y
      BY <1>1, PendingRows
    <2>2. CASE a <= l /\ b <= l
      BY <2>1, <2>2, <1>7, <1>10
    <2>3. CASE ~(a <= l) /\ ~(b <= l)
      <3>1. a - l = b - l
        BY <2>3, <1>7, <1>10
      <3>2. a \in Nat /\ b \in Nat
        BY <1>6
      <3> QED BY <3>1, <3>2
    <2>4. CASE a <= l /\ ~(b <= l)
      BY <2>4, <1>7, <1>8, <1>10
    <2>5. CASE ~(a <= l) /\ b <= l
      BY <2>5, <1>7, <1>8, <1>10
    <2> QED BY <2>2, <2>3, <2>4, <2>5
  <1>11. ins \in Seq(ToSet(ins))
    BY <1>6, OwnSeq
  <1>12. PICK none : none = {}
    OBVIOUS
  <1>13. p = [edits |-> pend.edits, deletes |-> pend.deletes, inserts |-> ins,
              modes |-> ms, asNull |-> ns] /\ none \subseteq DOMAIN grid
    BY <1>1, <1>2, <1>12
  <1>14. Sensible(p, none)
    BY <1>9, <1>10, <1>11, <1>13, InsertsOnly
  <1> QED BY <1>12, <1>14

(* A batch of rows, and a row by hand.                                      *)
LEMMA BatchAddedSensible ==
  ASSUME IInv, NEW R, NEW rows \in Seq(R), NEW mode, NEW from
  PROVE  Sensible(BatchAdded(pend, rows, mode, from, ops), {})
  <1>1. PICK c : c = Len(pend.modes) + 1
    OBVIOUS
  <1>2. PICK new : new = [m \in DOMAIN rows |-> [vals |-> rows[m], batch |-> c, n |-> NewId(ops, m)]]
    OBVIOUS
  <1>3. PICK ms, ns : BatchAdded(pend, rows, mode, from, ops) =
          [pend EXCEPT !.inserts = pend.inserts \o new, !.modes = ms, !.asNull = ns]
    BY <1>1, <1>2 DEF BatchAdded
  <1>4. PICK ins : ins = pend.inserts \o new
    OBVIOUS
  <1>5. BatchAdded(pend, rows, mode, from, ops) =
          [edits |-> pend.edits, deletes |-> pend.deletes, inserts |-> ins, modes |-> ms, asNull |-> ns]
    BY <1>3, <1>4, PendingRows
  <1>6. PICK m \in Nat : DOMAIN rows = 1..m
    BY LenProperties
  <1>7. DOMAIN new = 1..m
    BY <1>2, <1>6
  <1>8. ASSUME NEW j \in DOMAIN new
        PROVE  /\ new[j] = [vals |-> new[j].vals, batch |-> new[j].batch, n |-> new[j].n]
               /\ new[j].n = NewId(ops, j) /\ new[j].n \in NowIds(ops)
    <2>1. new[j] = [vals |-> rows[j], batch |-> c, n |-> NewId(ops, j)] /\ j \in Nat
      BY <1>2, <1>7
    <2>2. new[j].vals = rows[j] /\ new[j].batch = c /\ new[j].n = NewId(ops, j)
      BY <2>1
    <2>3. NewId(ops, j) \in NowIds(ops)
      BY <2>1 DEF NowIds
    <2> QED BY <2>1, <2>2, <2>3
  <1>9. ASSUME NEW a \in DOMAIN new, NEW b \in DOMAIN new, new[a].n = new[b].n PROVE a = b
    <2>1. new[a].n = NewId(ops, a) /\ new[b].n = NewId(ops, b)
      BY <1>8
    <2>2. NewId(ops, a) = NewId(ops, b)
      BY <1>9, <2>1
    <2> QED BY <2>2 DEF NewId
  <1>10. new \in Seq(ToSet(new))
    <2>1. new = [j \in 1..m |-> new[j]] /\ \A j \in 1..m : new[j] \in ToSet(new)
      BY <1>2, <1>6, <1>7 DEF ToSet
    <2> QED BY <2>1
  <1> QED BY <1>4, <1>5, <1>8, <1>9, <1>10, AddedSensible

LEMMA BlankAddedSensible == ASSUME IInv PROVE Sensible(BlankAdded(pend, NewId(ops, 1)), {})
  <1>1. PICK r : r = [vals |-> NoFields, batch |-> 0, n |-> NewId(ops, 1)]
    OBVIOUS
  <1>2. PICK new : new = <<r>>
    OBVIOUS
  <1>3. pend.inserts \in Seq(ToSet(pend.inserts) \cup {r}) /\ r \in ToSet(pend.inserts) \cup {r}
    BY PendingRows, SeqMonotonic
  <1>4. Append(pend.inserts, r) = pend.inserts \o new
    BY <1>2, <1>3, AppendIsConcat
  <1>5. PICK ins : ins = pend.inserts \o new
    OBVIOUS
  <1>6. BlankAdded(pend, NewId(ops, 1)) = [pend EXCEPT !.inserts = ins]
    BY <1>1, <1>4, <1>5 DEF BlankAdded
  <1>7. BlankAdded(pend, NewId(ops, 1)) =
          [edits |-> pend.edits, deletes |-> pend.deletes, inserts |-> ins,
           modes |-> pend.modes, asNull |-> pend.asNull]
    BY <1>6, PendingRows
  <1>8. /\ r = [vals |-> r.vals, batch |-> r.batch, n |-> r.n] /\ r.n = NewId(ops, 1)
    BY <1>1
  <1>9. NewId(ops, 1) \in NowIds(ops)
    BY DEF NowIds
  <1>10. new \in Seq({r}) /\ DOMAIN new = {1} /\ new[1] = r
    BY <1>2
  <1>11. \A j \in DOMAIN new : /\ new[j] = [vals |-> new[j].vals, batch |-> new[j].batch, n |-> new[j].n]
                               /\ new[j].n \in NowIds(ops)
    BY <1>8, <1>9, <1>10
  <1>12. \A a, b \in DOMAIN new : new[a].n = new[b].n => a = b
    BY <1>10
  <1> QED BY <1>5, <1>7, <1>10, <1>11, <1>12, AddedSensible

(* Rows taken away: those that stay are rows that were there, each once.     *)
LEMMA FewerInserts ==
  ASSUME IInv, NEW p, NEW ins, NEW w \in [DOMAIN ins -> DOMAIN pend.inserts],
         p = [pend EXCEPT !.inserts = ins], ins \in Seq(ToSet(ins)),
         \A i \in DOMAIN ins : ins[i] = pend.inserts[w[i]],
         \A i, j \in DOMAIN ins : w[i] = w[j] => i = j
  PROVE  Sensible(p, {})
  <1>1. PICK none : none = {}
    OBVIOUS
  <1>2. p = [edits |-> pend.edits, deletes |-> pend.deletes, inserts |-> ins,
             modes |-> pend.modes, asNull |-> pend.asNull] /\ none \subseteq DOMAIN grid
    BY <1>1, PendingRows
  <1>3. \A j \in DOMAIN ins : /\ ins[j] = [vals |-> ins[j].vals, batch |-> ins[j].batch, n |-> ins[j].n]
                              /\ ins[j].n \in NewRows(pend) \cup NowIds(ops)
    BY PendingRows
  <1>4. ASSUME NEW a \in DOMAIN ins, NEW b \in DOMAIN ins, ins[a].n = ins[b].n PROVE a = b
    <2>1. w[a] = w[b]
      BY <1>4, PendingRows
    <2> QED BY <2>1
  <1>5. Sensible(p, none)
    BY <1>2, <1>3, <1>4, InsertsOnly
  <1> QED BY <1>1, <1>5

LEMMA BatchDroppedSensible == ASSUME IInv, NEW b PROVE Sensible(BatchDropped(pend, b), {})
  <1>1. PICK x, X, T : /\ x = pend.inserts /\ X = ToSet(x) /\ x \in Seq(X)
                       /\ T = {r \in X : r.batch # b}
    BY PendingRows
  <1>. x \in Seq(X)
    BY <1>1
  <1>2. PICK ins : ins = Only(x, T)
    OBVIOUS
  <1>3. ins \in Seq(X)
    BY <1>1, <1>2, OnlyPicks
  <1>4. PICK w \in [DOMAIN ins -> DOMAIN x] :
          /\ \A i \in DOMAIN ins : ins[i] = x[w[i]] /\ x[w[i]] \in T
          /\ \A i, j \in DOMAIN ins : w[i] = w[j] => i = j
    BY <1>2, OnlyKeeps
  <1>5. ins \in Seq(ToSet(ins))
    BY <1>3, OwnSeq
  <1>6. BatchDropped(pend, b) = [pend EXCEPT !.inserts = ins]
    BY <1>1, <1>2 DEF BatchDropped
  <1> QED BY <1>1, <1>4, <1>5, <1>6, FewerInserts

LEMMA DroppedSensible ==
  ASSUME IInv, NEW j \in DOMAIN pend.inserts
  PROVE  Sensible(InsertDropped(pend, j), {})
  <1>1. PICK x, X : x = pend.inserts /\ X = ToSet(x) /\ x \in Seq(X)
    BY PendingRows
  <1>2. PICK n : n = Len(x) /\ n \in Nat /\ DOMAIN x = 1..n /\ j \in 1..n
    BY <1>1, LenProperties
  <1>3. PICK A, B : A = SubSeq(x, 1, j - 1) /\ B = SubSeq(x, j + 1, n)
    OBVIOUS
  <1>4. /\ A \in Seq(X) /\ Len(A) = j - 1 /\ \A i \in 1..(j - 1) : A[i] = x[i]
    <2>1. \A i \in 1..(j - 1) : x[i] \in X
      BY <1>1, <1>2
    <2>2. A = [i \in 1..(j - 1) |-> x[i]]
      BY <1>1, <1>2, <1>3, SubSeqProperties
    <2> QED BY <1>2, <2>1, <2>2
  <1>5. /\ B \in Seq(X) /\ Len(B) = n - j /\ \A i \in 1..(n - j) : B[i] = x[i + j]
    <2>1. \A i \in 1..(n - j) : x[i + j] \in X
      BY <1>1, <1>2
    <2>2. B = [i \in 1..(n - j) |-> x[i + j]]
      BY SMTT(30), <1>1, <1>2, <1>3, SubSeqProperties
    <2> QED BY <1>2, <2>1, <2>2
  <1>6. PICK ins : ins = A \o B
    OBVIOUS
  <1>7. /\ ins \in Seq(X) /\ DOMAIN ins = 1..(n - 1)
        /\ \A i \in 1..(n - 1) : ins[i] = IF i < j THEN x[i] ELSE x[i + 1]
    <2>0. /\ ins \in Seq(X) /\ Len(ins) = Len(A) + Len(B)
          /\ \A i \in 1..(Len(A) + Len(B)) : ins[i] = IF i <= Len(A) THEN A[i] ELSE B[i - Len(A)]
      <3>1. A \in Seq(X) /\ B \in Seq(X)
        BY <1>4, <1>5
      <3> QED BY <3>1, <1>6, ConcatProperties
    <2>2. (j - 1) + (n - j) = n - 1
      BY <1>2
    <2>1. /\ ins \in Seq(X) /\ Len(ins) = n - 1
          /\ \A i \in 1..(n - 1) : ins[i] = IF i <= j - 1 THEN A[i] ELSE B[i - (j - 1)]
      BY <2>0, <2>2, <1>4, <1>5
    <2>3. DOMAIN ins = 1..(n - 1)
      BY <2>1, LenProperties
    <2>4. ASSUME NEW i \in 1..(n - 1) PROVE ins[i] = IF i < j THEN x[i] ELSE x[i + 1]
      <3>1. CASE i < j
        <4>1. i \in 1..(j - 1) /\ i <= j - 1
          BY <3>1, <1>2
        <4>2. ins[i] = A[i]
          BY <4>1, <2>1
        <4> QED BY <3>1, <4>1, <4>2, <1>4
      <3>2. CASE ~(i < j)
        <4>1. i - (j - 1) \in 1..(n - j) /\ (i - (j - 1)) + j = i + 1
          BY <3>2, <1>2
        <4>2. ins[i] = B[i - (j - 1)]
          <5>1. ~(i <= j - 1)
            BY <3>2, <1>2
          <5> QED BY <5>1, <2>1
        <4>3. B[i - (j - 1)] = x[(i - (j - 1)) + j]
          BY <4>1, <1>5
        <4> QED BY <3>2, <4>1, <4>2, <4>3
      <3> QED BY <3>1, <3>2
    <2> QED BY <2>1, <2>3, <2>4
  <1> DEFINE w == [i \in 1..(n - 1) |-> IF i < j THEN i ELSE i + 1]
  <1>8. w \in [DOMAIN ins -> DOMAIN x] /\ \A i \in DOMAIN ins : ins[i] = x[w[i]]
    BY <1>2, <1>7
  <1>9. \A a, b \in DOMAIN ins : w[a] = w[b] => a = b
    BY <1>2, <1>7
  <1> HIDE DEF w
  <1>10. ins \in Seq(ToSet(ins))
    BY <1>7, OwnSeq
  <1>11. InsertDropped(pend, j) = [pend EXCEPT !.inserts = ins]
    BY <1>1, <1>2, <1>3, <1>6 DEF InsertDropped, RemoveAt
  <1> QED BY <1>1, <1>8, <1>9, <1>10, <1>11, FewerInserts

(* Rows changed where they stand.                                           *)
LEMMA SameInserts ==
  ASSUME IInv, NEW p, NEW ins, NEW ms, NEW ns,
         p = [edits |-> pend.edits, deletes |-> pend.deletes, inserts |-> ins,
              modes |-> ms, asNull |-> ns],
         DOMAIN ins = DOMAIN pend.inserts, ins = [j \in DOMAIN ins |-> ins[j]],
         \A j \in DOMAIN pend.inserts :
           ins[j] = [vals |-> ins[j].vals, batch |-> ins[j].batch, n |-> pend.inserts[j].n]
  PROVE  Sensible(p, {})
  <1>1. PICK none : none = {}
    OBVIOUS
  <1>2. ASSUME NEW j \in DOMAIN ins PROVE ins[j].n = pend.inserts[j].n
    <2>1. ins[j] = [vals |-> ins[j].vals, batch |-> ins[j].batch, n |-> pend.inserts[j].n]
      OBVIOUS
    <2> QED BY <2>1
  <1>3. \A j \in DOMAIN ins : /\ ins[j] = [vals |-> ins[j].vals, batch |-> ins[j].batch, n |-> ins[j].n]
                              /\ ins[j].n \in NewRows(pend) \cup NowIds(ops)
    BY <1>2, PendingRows
  <1>4. \A a, b \in DOMAIN ins : ins[a].n = ins[b].n => a = b
    BY <1>2, PendingRows
  <1>5. ins \in Seq(ToSet(ins))
    <2>1. PICK n \in Nat : DOMAIN ins = 1..n
      BY PendingRows
    <2>2. \A j \in 1..n : ins[j] \in ToSet(ins)
      BY <2>1 DEF ToSet
    <2> QED BY <2>1, <2>2
  <1>6. none \subseteq DOMAIN grid
    BY <1>1
  <1>7. Sensible(p, none)
    BY <1>3, <1>4, <1>5, <1>6, InsertsOnly
  <1> QED BY <1>1, <1>7

LEMMA InsertSetSensible ==
  ASSUME IInv, NEW j \in DOMAIN pend.inserts, NEW c, NEW x
  PROVE  Sensible(InsertSet(pend, j, c, x), {})
  <1>1. PICK old : old = pend.inserts
    OBVIOUS
  <1>2. PICK v : v = With(old[j].vals, c, x)
    OBVIOUS
  <1>3. PICK ins : ins = [old EXCEPT ![j].vals = v]
    OBVIOUS
  <1>4. InsertSet(pend, j, c, x) = [pend EXCEPT !.inserts = ins]
    BY <1>1, <1>2, <1>3 DEF InsertSet
  <1>5. InsertSet(pend, j, c, x) =
          [edits |-> pend.edits, deletes |-> pend.deletes, inserts |-> ins,
           modes |-> pend.modes, asNull |-> pend.asNull]
    BY <1>4, PendingRows
  <1>6. DOMAIN ins = DOMAIN old /\ ins = [k \in DOMAIN ins |-> ins[k]]
    BY <1>3
  <1>7. \A k \in DOMAIN old : old[k] = [vals |-> old[k].vals, batch |-> old[k].batch, n |-> old[k].n]
    BY <1>1, PendingRows
  <1>8. \A k \in DOMAIN old :
          ins[k] = [vals |-> ins[k].vals, batch |-> ins[k].batch, n |-> old[k].n]
    BY <1>3, <1>7
  <1> QED BY <1>1, <1>5, <1>6, <1>8, SameInserts

LEMMA FlippedSensible ==
  ASSUME IInv, NEW b
  PROVE  Sensible(ModeFlipped(pend, b), {}) /\ Sensible(EmptyFlipped(pend, b), {})
  <1>1. PICK old : old = pend.inserts
    OBVIOUS
  <1>2. \A k \in DOMAIN old : old[k] = [vals |-> old[k].vals, batch |-> old[k].batch, n |-> old[k].n]
    BY <1>1, PendingRows
  <1>3. old = [k \in DOMAIN old |-> old[k]]
    BY <1>1, PendingRows
  <1>4. Sensible(ModeFlipped(pend, b), {})
    <2>1. PICK ms : ModeFlipped(pend, b) = [pend EXCEPT !.modes = ms]
      BY DEF ModeFlipped
    <2>2. ModeFlipped(pend, b) =
            [edits |-> pend.edits, deletes |-> pend.deletes, inserts |-> old,
             modes |-> ms, asNull |-> pend.asNull]
      BY <2>1, <1>1, PendingRows
    <2> QED BY <2>2, <1>1, <1>2, <1>3, SameInserts
  <1>5. Sensible(EmptyFlipped(pend, b), {})
    <2> DEFINE on == pend.asNull[b] # "null"
               ns == [pend.asNull EXCEPT ![b] = IF on THEN "null" ELSE "text"]
               ins == [j \in DOMAIN old |->
                         IF old[j].batch = b THEN RowReadAs(on, old[j]) ELSE old[j]]
    <2>1. EmptyFlipped(pend, b) = [pend EXCEPT !.asNull = ns, !.inserts = ins]
      BY <1>1 DEF EmptyFlipped
    <2> HIDE DEF ns
    <2>2. EmptyFlipped(pend, b) =
            [edits |-> pend.edits, deletes |-> pend.deletes, inserts |-> ins,
             modes |-> pend.modes, asNull |-> ns]
      BY <2>1, PendingRows
    <2>3. DOMAIN ins = DOMAIN old /\ ins = [k \in DOMAIN ins |-> ins[k]]
      OBVIOUS
    <2>4. ASSUME NEW k \in DOMAIN old
          PROVE  ins[k] = [vals |-> ins[k].vals, batch |-> ins[k].batch, n |-> old[k].n]
      <3>1. PICK v : ins[k] = IF old[k].batch = b THEN [old[k] EXCEPT !.vals = v] ELSE old[k]
        BY DEF RowReadAs
      <3> HIDE DEF ins
      <3> QED BY <3>1, <1>2
    <2> HIDE DEF ins
    <2> QED BY <2>2, <2>3, <2>4, <1>1, SameInserts
  <1> QED BY <1>4, <1>5

(* Whatever the user stages is sensible.                                    *)
LEMMA StagedSensible ==
  ASSUME IInv, Staged PROVE \E p, rows : Stage(p, rows) /\ Sensible(p, rows)
  <1>1. ASSUME NEW i \in DOMAIN grid, NEW c, NEW x, OnEditCell(i, c, x)
        PROVE  \E p, rows : Stage(p, rows) /\ Sensible(p, rows)
    BY <1>1, CellSetSensible DEF OnEditCell
  <1>2. ASSUME NEW i, NEW c, OnRevertCell(i, c)
        PROVE  \E p, rows : Stage(p, rows) /\ Sensible(p, rows)
    <2>1. i \in DOMAIN pend.edits \/ c \notin DOMAIN EditsOf(pend, i)
      BY DEF EditsOf, NoFields
    <2> QED BY <1>2, <2>1, RevertedSensible DEF OnRevertCell
  <1>3. ASSUME NEW i, OnRevertRow(i)
        PROVE  \E p, rows : Stage(p, rows) /\ Sensible(p, rows)
    BY <1>3, RowRevertedSensible DEF OnRevertRow
  <1>4. ASSUME NEW set, NEW from, DuplicateRows(set) \/ Paste(set, from) \/ OnAddInsert
        PROVE  \E p, rows : Stage(p, rows) /\ Sensible(p, rows)
    <2>1. CASE OnAddInsert
      BY <2>1, BlankAddedSensible DEF OnAddInsert
    <2>2. CASE DuplicateRows(set)
      <3>1. PICK is : is = InOrder(set, Len(grid))
        OBVIOUS
      <3>2. PICK rows : rows = [m \in DOMAIN is |-> NewRow(grid[is[m]].k, grid[is[m]].v)]
        OBVIOUS
      <3>3. Stage(BatchAdded(pend, rows, "generate", "duplicate", ops), {})
        BY <2>2, <3>1, <3>2 DEF DuplicateRows
      <3>4. \E n \in Nat : DOMAIN is = 1..n
        <4>1. Len(grid) \in Nat
          BY LenProperties DEF IInv, Stores
        <4>2. is \in Seq(1..Len(grid))
          BY <3>1, <4>1, InOrderKeeps
        <4> QED BY <4>2, LenProperties
      <3>5. rows \in Seq(ToSet(rows))
        <4>1. PICK n \in Nat : DOMAIN is = 1..n
          BY <3>4
        <4>2. rows = [j \in 1..n |-> rows[j]] /\ \A j \in 1..n : rows[j] \in ToSet(rows)
          BY <3>2, <4>1 DEF ToSet
        <4> QED BY <4>2
      <3> QED BY <3>3, <3>5, BatchAddedSensible
    <2>3. CASE Paste(set, from)
      <3>1. PICK ks : ks = InOrder(set, MaxKey)
        OBVIOUS
      <3>2. PICK v : v = IF from = "copy" THEN Old ELSE Null
        OBVIOUS
      <3>3. PICK rows : rows = [m \in DOMAIN ks |-> NewRow(ks[m], v)]
        OBVIOUS
      <3>4. Stage(BatchAdded(pend, rows, "keep", from, ops), {})
        BY <2>3, <3>1, <3>2, <3>3 DEF Paste
      <3>5. \E n \in Nat : DOMAIN ks = 1..n
        <4>1. MaxKey \in Nat
          BY ConstantsAssumption
        <4>2. ks \in Seq(1..MaxKey)
          BY <3>1, <4>1, InOrderKeeps
        <4> QED BY <4>2, LenProperties
      <3>6. rows \in Seq(ToSet(rows))
        <4>1. PICK n \in Nat : DOMAIN ks = 1..n
          BY <3>5
        <4>2. rows = [j \in 1..n |-> rows[j]] /\ \A j \in 1..n : rows[j] \in ToSet(rows)
          BY <3>3, <4>1 DEF ToSet
        <4> QED BY <4>2
      <3> QED BY <3>4, <3>6, BatchAddedSensible
    <2> QED BY <1>4, <2>1, <2>2, <2>3
  <1>5. ASSUME NEW rows, OnToggleDeleteRows(rows)
        PROVE  \E p, q : Stage(p, q) /\ Sensible(p, q)
    BY <1>5, ToggledSensible DEF OnToggleDeleteRows
  <1>6. ASSUME NEW j, NEW c, NEW x, OnInsertCell(j, c, x) \/ OnRemoveInsert(j)
        PROVE  \E p, rows : Stage(p, rows) /\ Sensible(p, rows)
    BY <1>6, InsertSetSensible, DroppedSensible DEF OnInsertCell, OnRemoveInsert
  <1>7. ASSUME NEW b, TogglePastePk(b) \/ TogglePasteEmptyAsNull(b) \/ ImportLastPaste(b)
        PROVE  \E p, rows : Stage(p, rows) /\ Sensible(p, rows)
    BY <1>7, FlippedSensible, BatchDroppedSensible
       DEF TogglePastePk, TogglePasteEmptyAsNull, ImportLastPaste
  <1> QED BY <1>1, <1>2, <1>3, <1>4, <1>5, <1>6, <1>7 DEF Staged

----------------------------------------------------------------------------
(* Each new row once: the steps.                                            *)

LEMMA PageIsSeq ==
  ASSUME NEW T
  PROVE  /\ PageOf(T) \in Seq(ToSet(PageOf(T))) /\ Len(PageOf(T)) <= PageSize
         /\ \A i \in DOMAIN PageOf(T) :
              PageOf(T)[i].k \in DOMAIN T /\ PageOf(T)[i].id = T[PageOf(T)[i].k].id
         /\ \A i, j \in DOMAIN PageOf(T) : PageOf(T)[i].k = PageOf(T)[j].k => i = j
  <1>1. PICK ks : ks = InOrder(DOMAIN T, MaxKey)
    OBVIOUS
  <1>2. /\ ks \in Seq(1..MaxKey) /\ \A i \in DOMAIN ks : ks[i] \in DOMAIN T
        /\ \A i, j \in DOMAIN ks : ks[i] = ks[j] => i = j
    BY <1>1, InOrderKeeps, ConstantsAssumption
  <1>3. PICK n : n = IF Len(ks) < PageSize THEN Len(ks) ELSE PageSize
    OBVIOUS
  <1>4. n \in Nat /\ n <= PageSize /\ 1..n \subseteq DOMAIN ks
    BY <1>2, <1>3, LenProperties, ConstantsAssumption
  <1>5. PICK g : g = [i \in 1..n |-> [k |-> ks[i], v |-> T[ks[i]].v, id |-> T[ks[i]].id]]
    OBVIOUS
  <1>6. g = PageOf(T)
    BY <1>1, <1>3, <1>5 DEF PageOf
  <1>7. \A i \in 1..n : g[i].k = ks[i] /\ g[i].id = T[ks[i]].id /\ g[i] \in ToSet(g)
    BY <1>5 DEF ToSet
  <1>8. g \in Seq(ToSet(g)) /\ Len(g) = n /\ DOMAIN g = 1..n
    BY <1>4, <1>5, <1>7
  <1> QED BY <1>2, <1>4, <1>6, <1>7, <1>8

(* What a write of another session leaves of a table.                       *)
After(w, k, T) ==
  CASE w = "insert" -> With(T, k, [id |-> OtherId(writes), v |-> Old])
    [] w = "update" -> [T EXCEPT ![k].v = Empty]
    [] w = "delete" -> Without(T, k)

LEMMA OtherWrites ==
  ASSUME NEW T, IsTable(T), NEW w \in {"insert", "update", "delete"}, NEW k,
         (w = "insert") = (k \notin DOMAIN T)
  PROVE  /\ IsTable(After(w, k, T))
         /\ IdsOf(After(w, k, T)) \subseteq IdsOf(T) \cup {OtherId(writes)}
         /\ OneRowEach(T) /\ OtherId(writes) \notin IdsOf(T) => OneRowEach(After(w, k, T))
         /\ w # "delete" => \A j \in DOMAIN T :
              j \in DOMAIN After(w, k, T) /\ After(w, k, T)[j].id = T[j].id
  <1>0. PICK U : U = After(w, k, T)
    OBVIOUS
  <1>1. CASE w = "insert"
    <2>1. PICK row : row = [id |-> OtherId(writes), v |-> Old]
      OBVIOUS
    <2>2. U = With(T, k, row) /\ k \notin DOMAIN T
      BY <1>0, <1>1, <2>1 DEF After
    <2>3. row = [id |-> row.id, v |-> row.v] /\ row.id = OtherId(writes)
      BY <2>1
    <2>4. DOMAIN U = DOMAIN T \cup {k} /\ U[k] = row /\ \A j \in DOMAIN T : U[j] = T[j]
      BY <2>2 DEF With
    <2>5. IsTable(U)
      BY <2>3, <2>4 DEF IsTable
    <2>6. IdsOf(U) \subseteq IdsOf(T) \cup {OtherId(writes)}
      BY <2>3, <2>4 DEF IdsOf
    <2>7. OneRowEach(T) /\ OtherId(writes) \notin IdsOf(T) => OneRowEach(U)
      BY <2>2, <2>3, <2>4 DEF OneRowEach, IdsOf
    <2> QED BY <1>0, <2>4, <2>5, <2>6, <2>7
  <1>2. CASE w = "update"
    <2>1. U = [T EXCEPT ![k].v = Empty] /\ k \in DOMAIN T
      BY <1>0, <1>2 DEF After
    <2>2. T[k] = [id |-> T[k].id, v |-> T[k].v]
      BY <2>1 DEF IsTable
    <2>3. U[k] = [id |-> T[k].id, v |-> Empty]
      BY <2>1, <2>2
    <2>4. DOMAIN U = DOMAIN T /\ \A j \in DOMAIN T : j # k => U[j] = T[j]
      BY <2>1
    <2>5. \A j \in DOMAIN T : U[j].id = T[j].id /\ U[j] = [id |-> U[j].id, v |-> U[j].v]
      BY <2>3, <2>4 DEF IsTable
    <2>6. IsTable(U) /\ IdsOf(U) \subseteq IdsOf(T) /\ (OneRowEach(T) => OneRowEach(U))
      BY <2>4, <2>5 DEF IsTable, IdsOf, OneRowEach
    <2> QED BY <1>0, <2>4, <2>5, <2>6
  <1>3. CASE w = "delete"
    <2>1. U = Without(T, k)
      BY <1>0, <1>3 DEF After
    <2>2. IsTable(U) /\ IdsOf(U) \subseteq IdsOf(T) /\ (OneRowEach(T) => OneRowEach(U))
      BY <2>1, WithoutRow
    <2> QED BY <1>0, <1>3, <2>2
  <1> QED BY <1>1, <1>2, <1>3

LEMMA OtherIdIsNew ==
  ASSUME Stores PROVE OtherId(writes) \notin Known /\ \A n : OtherId(writes) \notin NewIds(n)
  <1>1. ASSUME NEW n, OtherId(writes) \in NewIds(n) PROVE FALSE
    <2>1. PICK i, m : OtherId(writes) = NewId(i, m)
      BY <1>1 DEF NewIds, NowIds
    <2> QED BY <2>1, Identities
  <1>2. writes \in Nat
    BY DEF Stores
  <1>3. ASSUME NEW k, OtherId(writes) = RowId(k) PROVE FALSE
    BY <1>3, Identities
  <1>4. ASSUME NEW n \in Nat, n < writes, OtherId(writes) = OtherId(n) PROVE FALSE
    BY <1>2, <1>4, Identities
  <1> QED BY <1>1, <1>3, <1>4 DEF Known

LEMMA ForeignStep ==
  ASSUME IInv, NEW w \in Writes, NEW k, Foreign(w, k) PROVE IInv'
  <1>1. w \in {"insert", "update", "delete"}
    BY ConstantsAssumption
  <1>2. /\ db' = After(w, k, db) /\ work' = After(w, k, work) /\ writes' = writes + 1
        /\ (w = "insert") = (k \notin DOMAIN work) /\ (w = "insert") = (k \notin DOMAIN db)
        /\ UNCHANGED <<hasTx, locks, grid, st, pend, plan, at, meant, ops>>
    BY DEF Foreign, After, session
  <1>3. /\ IsTable(db) /\ IsTable(work) /\ OneRowEach(db) /\ OneRowEach(work)
        /\ IdsOf(db) \subseteq Known /\ IdsOf(work) \subseteq Known
        /\ ops \in Nat /\ writes \in Nat /\ grid \in Seq(ToSet(grid))
        /\ (~hasTx \/ st # "applying" => work = db)
    BY DEF IInv, Stores
  <1>4. OtherId(writes) \notin Known /\ \A n : OtherId(writes) \notin NewIds(n)
    BY OtherIdIsNew DEF IInv
  <1>5. OtherId(writes) \notin IdsOf(db) /\ OtherId(writes) \notin IdsOf(work)
    BY <1>3, <1>4
  <1>6. /\ IsTable(db') /\ OneRowEach(db') /\ IdsOf(db') \subseteq IdsOf(db) \cup {OtherId(writes)}
    BY <1>1, <1>2, <1>3, <1>5, OtherWrites
  <1>7. /\ IsTable(work') /\ OneRowEach(work') /\ IdsOf(work') \subseteq IdsOf(work) \cup {OtherId(writes)}
    BY <1>1, <1>2, <1>3, <1>5, OtherWrites
  <1>8. Known \cup {OtherId(writes)} \subseteq Known'
    BY <1>2, <1>3 DEF Known
  <1>9. Stores'
    <2>1. IdsOf(db') \cup IdsOf(work') \subseteq Known'
      BY <1>3, <1>6, <1>7, <1>8
    <2>2. IsTable(db)' /\ IsTable(work)' /\ OneRowEach(db)' /\ OneRowEach(work)'
          /\ (IdsOf(db) \cup IdsOf(work))' \subseteq Known'
      BY <2>1, <1>6, <1>7 DEF IsTable, OneRowEach, IdsOf
    <2>3. ops' \in Nat /\ writes' \in Nat /\ (grid \in Seq(ToSet(grid)))'
          /\ (~hasTx \/ st # "applying" => work = db)'
      BY <1>2, <1>3
    <2> QED BY <2>2, <2>3 DEF Stores
  <1>10. Pending'
    <2>1. Tidy(pend)' /\ NewRows(pend)' = NewRows(pend) /\ NewIds(ops)' = NewIds(ops)
      BY <1>2 DEF IInv, Pending, Tidy, NewRows, NewIds
    <2>2. ASSUME Intact PROVE NewRows(pend) \cap IdsOf(db') = {}
      <3>1. NewRows(pend) \cap IdsOf(db) = {} /\ NewRows(pend) \subseteq NewIds(ops)
        BY <2>2 DEF IInv, Pending
      <3> QED BY <3>1, <1>4, <1>6
    <2>3. Intact' <=> Intact
      BY <1>2 DEF Intact
    <2>4. NewRows(pend) \subseteq NewIds(ops) /\ IdsOf(db)' = IdsOf(db')
      BY DEF IInv, Pending, IdsOf
    <2> QED BY <2>1, <2>2, <2>3, <2>4 DEF Pending
  <1>11. Applying'
    <2> SUFFICES ASSUME st = "applying" PROVE Applying'
      BY <1>2 DEF Applying
    <2>1. /\ at \in Nat \ {0} /\ plan \in Seq(ToSet(plan))
          /\ \A j \in ToRun : plan[j].kind \in {"update", "delete", "insert"}
          /\ \A j \in NewToRun : plan[j].n \in NewIds(ops) \ IdsOf(work)
          /\ \A j, i \in NewToRun : plan[j].n = plan[i].n => j = i
      BY DEF IInv, Applying
    <2>2. ToRun' = ToRun /\ NewToRun' = NewToRun /\ NewIds(ops)' = NewIds(ops)
          /\ IdsOf(work)' = IdsOf(work')
      BY <1>2 DEF ToRun, NewToRun, NewIds, IdsOf
    <2>3. \A j \in NewToRun : plan[j].n \in NewIds(ops) \ IdsOf(work')
      BY <2>1, <1>4, <1>7
    <2> QED BY <2>1, <2>2, <2>3, <1>2 DEF Applying
  <1> QED BY <1>9, <1>10, <1>11 DEF IInv

(* The tables stay, and so does who may be in them.                         *)
LEMMA StoresStay ==
  ASSUME Stores, UNCHANGED <<hasTx, db, work, writes>>, ops' \in Nat, ops <= ops',
         (grid \in Seq(ToSet(grid)))', work # db => st' = "applying"
  PROVE  Stores'
  <1>1. Known \subseteq Known'
    BY DEF Known, NewIds, Stores
  <1>2. (IdsOf(db) \cup IdsOf(work))' = IdsOf(db) \cup IdsOf(work)
    BY DEF IdsOf
  <1>3. (IdsOf(db) \cup IdsOf(work))' \subseteq Known'
    BY <1>1, <1>2 DEF Stores
  <1> QED BY <1>3 DEF Stores, IsTable, OneRowEach

LEMMA StageStep ==
  ASSUME IInv, NEW p, NEW rows, Stage(p, rows), Sensible(p, rows) PROVE IInv'
  <1>1. /\ st \in {"editing", "previewing"} /\ ops' = ops + 1 /\ pend' = p
        /\ UNCHANGED <<hasTx, db, work, locks, grid, st, plan, at, writes>>
    BY DEF Stage, Staging, table
  <1>2. ops \in Nat /\ grid \in Seq(ToSet(grid)) /\ work = db /\ IdsOf(db) \subseteq Known
    BY <1>1 DEF IInv, Stores
  <1>3. Stores'
    BY <1>1, <1>2, StoresStay DEF IInv
  <1>4. NewRows(pend) \subseteq NewIds(ops) /\ NewRows(pend) \cap IdsOf(db) = {}
    BY <1>1 DEF IInv, Pending, Intact
  <1>5. /\ NowIds(ops) \cap Known = {}
        /\ NowIds(ops) \subseteq NewIds(ops + 1) /\ NewIds(ops) \subseteq NewIds(ops + 1)
    <2>1. /\ NowIds(ops) \cap NewIds(ops) = {}
          /\ NowIds(ops) \subseteq NewIds(ops + 1) /\ NewIds(ops) \subseteq NewIds(ops + 1)
      BY <1>2, NowIsNew
    <2>2. ASSUME NEW x \in NowIds(ops) PROVE x \notin Known
      <3>1. PICK m \in Nat : x = NewId(ops, m)
        BY DEF NowIds
      <3>2. x \notin NewIds(ops)
        BY <2>1
      <3> QED BY <3>1, <3>2, Identities DEF Known
    <2> QED BY <2>1, <2>2
  <1>6. NewRows(p) \subseteq NewIds(ops + 1) /\ NewRows(p) \cap IdsOf(db) = {}
    BY <1>2, <1>4, <1>5 DEF Sensible
  <1>7. /\ Tidy(pend)' = Tidy(p) /\ NewRows(pend)' = NewRows(p) /\ NewIds(ops)' = NewIds(ops + 1)
        /\ IdsOf(db)' = IdsOf(db)
    BY <1>1 DEF Tidy, NewRows, NewIds, IdsOf
  <1>8. Pending'
    BY <1>6, <1>7 DEF Sensible, Pending
  <1>9. Applying'
    BY <1>1 DEF Applying
  <1> QED BY <1>3, <1>8, <1>9 DEF IInv

LEMMA PendingCleared ==
  ASSUME pend' = NoPending PROVE Pending'
  <1>1. Tidy(pend)' /\ NewRows(pend)' = {}
    BY NothingPending DEF Tidy, NewRows
  <1> QED BY <1>1 DEF Pending

LEMMA PendingStays ==
  ASSUME Pending, UNCHANGED <<pend, ops, db>>, Intact' => Intact PROVE Pending'
  BY SMTT(30) DEF Pending, Tidy, NewRows, NewIds, IdsOf

(* The steps that touch neither the table nor the plan.                     *)
LEMMA QuietStep ==
  ASSUME IInv, BeginEdit \/ ConfirmEdit \/ Previewed \/ CancelPreview \/ ApplyRefused \/ RunAgain
               \/ UNCHANGED vars
  PROVE  IInv'
  <1>1. /\ UNCHANGED <<hasTx, db, work, plan, at, ops, writes>>
        /\ st' = st \/ st' # "applying"
        /\ st # "applying" => st' # "applying"
        /\ pend' = pend \/ pend' = NoPending
        /\ grid' = grid \/ grid' = PageOf(work)
        /\ st' # st => st # "applying"
    BY DEF BeginEdit, ConfirmEdit, Previewed, CancelPreview, ApplyRefused, RunAgain, vars, table, session
  <1>2. (grid \in Seq(ToSet(grid)))'
    BY <1>1, PageIsSeq DEF IInv, Stores
  <1>3. Stores'
    <2>1. ops' \in Nat /\ ops <= ops' /\ (work # db => st' = "applying")
      BY <1>1 DEF IInv, Stores
    <2> QED BY <1>1, <1>2, <2>1, StoresStay DEF IInv
  <1>4. Pending'
    <2>1. Intact' => Intact
      BY <1>1 DEF Intact
    <2> QED BY <1>1, <2>1, PendingCleared, PendingStays DEF IInv
  <1>5. Applying'
    <2> SUFFICES ASSUME st' = "applying" PROVE Applying'
      BY DEF Applying
    <2>1. st = "applying"
      BY <1>1
    <2> QED BY <1>1, <2>1 DEF IInv, Applying, ToRun, NewToRun, NewIds, IdsOf
  <1> QED BY <1>3, <1>4, <1>5 DEF IInv

LEMMA ApplyEditStep == ASSUME IInv, ApplyEdit PROVE IInv'
  <1>1. /\ st = "preview" /\ st' = "applying" /\ plan' = BuildPlan(pend) /\ at' = 1
        /\ UNCHANGED <<hasTx, db, work, locks, grid, pend, meant, ops, writes>>
    BY DEF ApplyEdit, table
  <1>2. Stores'
    BY <1>1, StoresStay DEF IInv, Stores
  <1>3. Pending'
    BY <1>1, PendingStays DEF IInv, Intact
  <1>4. Tidy(pend) /\ grid \in Seq(ToSet(grid)) /\ work = db
    BY <1>1 DEF IInv, Pending, Stores
  <1>5. PICK P : P = BuildPlan(pend)
    OBVIOUS
  <1>6. PICK src : P \in Seq(ToSet(P)) /\ Stands(pend, P, src)
    BY <1>4, <1>5, PlanStands
  <1>7. \A a \in DOMAIN P : P[a].kind \in {"update", "delete", "insert"}
    BY <1>6, Kinds DEF Stands
  <1>8. ASSUME NEW a \in DOMAIN P, P[a].kind = "insert"
        PROVE  src[a] \in DOMAIN pend.inserts /\ P[a].n = pend.inserts[src[a]].n
    <2>1. src[a] \in DOMAIN pend.inserts /\ P[a] = Insert(pend, src[a])
      BY <1>6, <1>8, Kinds DEF Stands
    <2> QED BY <2>1 DEF Insert
  <1>9. NewRows(pend) \subseteq NewIds(ops) \ IdsOf(work)
    BY <1>1, <1>4 DEF IInv, Pending, Intact
  <1>10. ASSUME NEW a \in DOMAIN P, P[a].kind = "insert" PROVE P[a].n \in NewIds(ops) \ IdsOf(work)
    BY <1>8, <1>9, <1>10 DEF NewRows
  <1>11. ASSUME NEW a \in DOMAIN P, NEW b \in DOMAIN P, P[a].kind = "insert", P[b].kind = "insert",
                P[a].n = P[b].n
         PROVE  a = b
    <2>1. src[a] = src[b]
      BY <1>8, <1>11, <1>4 DEF Tidy
    <2> QED BY <2>1, <1>6, <1>11 DEF Stands
  <1>12. /\ ToRun' \subseteq DOMAIN P /\ NewToRun' \subseteq {j \in DOMAIN P : P[j].kind = "insert"}
         /\ NewIds(ops)' = NewIds(ops) /\ IdsOf(work)' = IdsOf(work)
    BY <1>1, <1>5 DEF ToRun, NewToRun, NewIds, IdsOf
  <1>13. Applying'
    BY <1>1, <1>5, <1>6, <1>7, <1>10, <1>11, <1>12 DEF Applying
  <1> QED BY <1>2, <1>3, <1>13 DEF IInv

LEMMA ItemRunsStep == ASSUME IInv, ItemRuns PROVE IInv'
  <1>1. PICK item : item = plan[at]
    OBVIOUS
  <1>2. PICK T \in Effects(item, work) :
          /\ work' = T /\ at' = at + 1 /\ st = "applying" /\ at <= Len(plan)
          /\ IF hasTx THEN db' = db ELSE db' = T
          /\ UNCHANGED <<hasTx, grid, st, pend, plan, meant, ops, writes>>
    BY <1>1 DEF ItemRuns
  <1>3. /\ IsTable(db) /\ IsTable(work) /\ OneRowEach(db) /\ OneRowEach(work)
        /\ IdsOf(db) \subseteq Known /\ IdsOf(work) \subseteq Known
        /\ ops \in Nat /\ writes \in Nat /\ grid \in Seq(ToSet(grid)) /\ (~hasTx => work = db)
    BY DEF IInv, Stores
  <1>4. /\ at \in Nat \ {0} /\ plan \in Seq(ToSet(plan))
        /\ \A j \in ToRun : plan[j].kind \in {"update", "delete", "insert"}
        /\ \A j \in NewToRun : plan[j].n \in NewIds(ops) \ IdsOf(work)
        /\ \A j, i \in NewToRun : plan[j].n = plan[i].n => j = i
    BY <1>2 DEF IInv, Applying
  <1>5. at \in ToRun
    BY <1>2, <1>4, LenProperties DEF ToRun
  <1>6. /\ IsTable(T) /\ OneRowEach(T)
        /\ item.kind # "insert" => IdsOf(T) \subseteq IdsOf(work)
        /\ item.kind = "insert" => at \in NewToRun /\ IdsOf(T) = IdsOf(work) \cup {item.n}
    <2>1. CASE item.kind = "insert"
      <3>1. at \in NewToRun /\ item.n \notin IdsOf(work)
        BY <2>1, <1>1, <1>4, <1>5 DEF NewToRun
      <3>2. IsTable(T) /\ IdsOf(T) = IdsOf(work) \cup {item.n}
            /\ (OneRowEach(work) /\ item.n \notin IdsOf(work) => OneRowEach(T))
        BY <2>1, <1>3, NewRowEffect
      <3> QED BY <2>1, <3>1, <3>2, <1>3
    <2>2. CASE item.kind # "insert"
      <3>1. item.kind \in {"update", "delete"}
        BY <2>2, <1>1, <1>4, <1>5
      <3>2. IsTable(T) /\ IdsOf(T) \subseteq IdsOf(work) /\ (OneRowEach(work) => OneRowEach(T))
        BY <3>1, <1>3, OldRowEffect
      <3> QED BY <2>2, <3>2, <1>3
    <2> QED BY <2>1, <2>2
  <1>7. IdsOf(T) \subseteq Known
    <2>1. NewIds(ops) \subseteq Known
      BY DEF Known
    <2> QED BY <2>1, <1>1, <1>3, <1>4, <1>6
  <1>8. Stores'
    <2>1. IsTable(db') /\ OneRowEach(db') /\ IdsOf(db') \subseteq Known
      BY <1>2, <1>3, <1>6, <1>7
    <2>2. Known' = Known
      BY <1>2 DEF Known, NewIds
    <2>3. IsTable(db)' /\ IsTable(work)' /\ OneRowEach(db)' /\ OneRowEach(work)'
          /\ (IdsOf(db) \cup IdsOf(work))' \subseteq Known'
      BY <2>1, <2>2, <1>2, <1>6, <1>7 DEF IsTable, OneRowEach, IdsOf
    <2>4. ops' \in Nat /\ writes' \in Nat /\ (grid \in Seq(ToSet(grid)))'
          /\ (~hasTx \/ st # "applying" => work = db)'
      BY <1>2, <1>3
    <2> QED BY <2>3, <2>4 DEF Stores
  <1>9. Pending'
    <2>1. Intact' => hasTx /\ Intact
      BY <1>2, <1>4 DEF Intact
    <2>2. CASE hasTx
      BY <2>1, <2>2, <1>2, PendingStays DEF IInv
    <2>3. CASE ~hasTx
      BY <2>1, <2>3, <1>2 DEF IInv, Pending, Tidy, NewRows, NewIds
    <2> QED BY <2>2, <2>3
  <1>10. Applying'
    <2>1. ToRun' = ToRun \ {at} /\ NewToRun' = NewToRun \ {at}
      BY <1>2, <1>4, LenProperties DEF ToRun, NewToRun
    <2>2. NewIds(ops)' = NewIds(ops) /\ IdsOf(work)' = IdsOf(T)
      BY <1>2 DEF NewIds, IdsOf
    <2>3. ASSUME NEW j \in NewToRun \ {at} PROVE plan[j].n \in NewIds(ops) \ IdsOf(T)
      <3>1. item.kind = "insert" => plan[j].n # item.n
        BY <1>1, <1>4, <1>6
      <3> QED BY <3>1, <1>4, <1>6
    <2>4. at + 1 \in Nat \ {0}
      BY <1>4
    <2> QED BY <2>1, <2>2, <2>3, <2>4, <1>2, <1>4 DEF Applying
  <1> QED BY <1>8, <1>9, <1>10 DEF IInv

(* The application ends, or the session does: one table is left.             *)
LEMMA EndStep ==
  ASSUME IInv, ItemFails \/ Commit \/ CommitRefused \/ DiscardEdit PROVE IInv'
  <1>1. /\ UNCHANGED <<hasTx, ops, writes>> /\ work' = db' /\ (db' = db \/ db' = work)
        /\ st' # "applying"
        /\ \/ pend' = NoPending /\ grid' = PageOf(db')
           \/ /\ UNCHANGED <<pend, grid, db>> /\ st = "applying"
              /\ ~(~hasTx /\ at > 1)
    BY DEF ItemFails, AfterFailure, Commit, CommitRefused, DiscardEdit, Closed
  <1>2. /\ IsTable(db) /\ IsTable(work) /\ OneRowEach(db) /\ OneRowEach(work)
        /\ IdsOf(db) \subseteq Known /\ IdsOf(work) \subseteq Known
        /\ ops \in Nat /\ writes \in Nat /\ grid \in Seq(ToSet(grid))
    BY DEF IInv, Stores
  <1>3. (grid \in Seq(ToSet(grid)))'
    <2>1. CASE grid' = PageOf(db')
      <3>1. PageOf(db') \in Seq(ToSet(PageOf(db')))
        BY PageIsSeq
      <3> QED BY <2>1, <3>1
    <2>2. CASE grid' = grid
      BY <2>2, <1>2
    <2> QED BY <1>1, <2>1, <2>2
  <1>4. Stores'
    <2>1. IsTable(db') /\ OneRowEach(db') /\ IdsOf(db') \subseteq Known
      BY <1>1, <1>2
    <2>2. Known' = Known
      BY <1>1 DEF Known, NewIds
    <2>3. IsTable(db)' /\ IsTable(work)' /\ OneRowEach(db)' /\ OneRowEach(work)'
          /\ (IdsOf(db) \cup IdsOf(work))' \subseteq Known'
      BY <2>1, <2>2, <1>1 DEF IsTable, OneRowEach, IdsOf
    <2> QED BY <2>3, <1>1, <1>2, <1>3 DEF Stores
  <1>5. Pending'
    <2>1. CASE pend' = NoPending
      BY <2>1, PendingCleared
    <2>2. CASE UNCHANGED <<pend, grid, db>> /\ st = "applying" /\ ~(~hasTx /\ at > 1)
      <3>1. Intact
        BY <2>2 DEF IInv, Applying, Intact
      <3> QED BY <2>2, <3>1, <1>1, PendingStays DEF IInv
    <2> QED BY <1>1, <2>1, <2>2
  <1>6. Applying'
    BY <1>1 DEF Applying
  <1> QED BY <1>4, <1>5, <1>6 DEF IInv

LEMMA InitHolds == ASSUME Init PROVE IInv
  <1>1. /\ db = [k \in 1..PageSize |-> [id |-> RowId(k), v |-> Old]] /\ work = db
        /\ st = "view" /\ pend = NoPending /\ ops = 0 /\ writes = 0 /\ grid = PageOf(db)
    BY DEF Init
  <1>2. PageSize \in Nat
    BY ConstantsAssumption
  <1>3. \A k \in DOMAIN db : db[k] = [id |-> RowId(k), v |-> Old] /\ db[k].id = RowId(k) /\ k \in Nat
    BY <1>1, <1>2
  <1>8. IsTable(db)
    BY <1>3, <1>1 DEF IsTable
  <1>9. OneRowEach(db)
    <2>1. \A j, k : RowId(j) = RowId(k) => j = k
      BY Identities
    <2>2. \A k \in DOMAIN db : db[k].id = RowId(k)
      BY <1>3
    <2> QED BY <2>1, <2>2 DEF OneRowEach
  <1>10. IdsOf(db) \subseteq Known
    <2>1. \A k \in DOMAIN db : RowId(k) \in Known
      BY <1>3 DEF Known
    <2> QED BY <2>1, <1>3 DEF IdsOf
  <1>4. IsTable(db) /\ OneRowEach(db) /\ IdsOf(db) \subseteq Known
    BY <1>8, <1>9, <1>10
  <1>5. Stores
    BY <1>1, <1>4, PageIsSeq DEF Stores
  <1>6. Pending
    BY <1>1, NothingPending DEF Pending
  <1>7. Applying
    BY <1>1 DEF Applying
  <1> QED BY <1>5, <1>6, <1>7 DEF IInv

LEMMA Invariance == ASSUME IInv, [Next]_vars PROVE IInv'
  BY ForeignStep, StagedSensible, StageStep, QuietStep, ApplyEditStep, ItemRunsStep, EndStep DEF Next

(* "No duplicates" (editApply.ts:7): no new row is in the table twice,       *)
(* however many attempts fail, whatever the user does between them and      *)
(* whatever other sessions write, with transactions or without.             *)
THEOREM NewRowsOnce == Spec => []NoInsertTwice
  <1>1. Init => IInv
    BY InitHolds
  <1>2. IInv /\ [Next]_vars => IInv'
    BY Invariance
  <1>3. IInv => NoInsertTwice
    BY DEF IInv, Stores, OneRowEach, NoInsertTwice
  <1> QED BY <1>1, <1>2, <1>3, PTL DEF Spec

----------------------------------------------------------------------------
(* Each change on the row the user meant: the steps.                        *)

JInv == IInv /\ Screen /\ Aimed

LEMMA NoMarks == DOMAIN NoPending.edits = {} /\ \A i : ~IsDeleted(NoPending, i)
  <1>1. DOMAIN NoPending.edits = {} /\ NoPending.deletes = <<>>
    BY DEF NoPending
  <1> QED BY <1>1 DEF IsDeleted, ToSet

(* A page just loaded, with no change on it.                                *)
LEMMA ScreenFresh ==
  ASSUME DOMAIN meant' = 1..PageSize, grid' = PageOf(db'), pend' = NoPending \/ st' = "view"
  PROVE  Screen'
  <1>1. PICK T, g : T = db' /\ g = PageOf(T) /\ grid' = g
    OBVIOUS
  <1>2. /\ Len(g) <= PageSize
        /\ \A i \in DOMAIN g : g[i].k \in DOMAIN T /\ g[i].id = T[g[i].k].id
        /\ \A i, j \in DOMAIN g : g[i].k = g[j].k => i = j
    BY <1>1, PageIsSeq
  <1>3. st' # "view" => Marked(pend)' = {}
    BY NoMarks DEF Marked, IsDeleted
  <1> QED BY <1>1, <1>2, <1>3 DEF Screen

(* The same page, over a table that keeps its rows where they are.          *)
LEMMA ScreenStays ==
  ASSUME Screen, UNCHANGED <<pend, grid, meant>>, Intact' => Intact, st' # "view" => st # "view",
         Intact' => \A k \in DOMAIN db : k \in DOMAIN db' /\ db'[k].id = db[k].id
  PROVE  Screen'
  <1>1. Marked(pend)' = Marked(pend)
    BY DEF Marked, IsDeleted
  <1>2. Intact' => \A i \in DOMAIN grid : grid[i].k \in DOMAIN db' /\ db'[grid[i].k].id = grid[i].id
    BY DEF Screen
  <1> QED BY <1>1, <1>2 DEF Screen

LEMMA ForeignAims ==
  ASSUME JInv, Careful, NEW w \in Writes, NEW k, Foreign(w, k) PROVE Screen' /\ Aimed'
  <1>1. w \in {"insert", "update", "delete"} /\ w # "delete"
    BY ConstantsAssumption DEF Careful
  <1>2. /\ db' = After(w, k, db) /\ work' = After(w, k, work)
        /\ (w = "insert") = (k \notin DOMAIN work) /\ (w = "insert") = (k \notin DOMAIN db)
        /\ UNCHANGED <<hasTx, locks, grid, st, pend, plan, at, meant, ops>>
    BY DEF Foreign, After, session
  <1>3. IsTable(db) /\ IsTable(work)
    BY DEF JInv, IInv, Stores
  <1>4. \A j \in DOMAIN db : j \in DOMAIN db' /\ db'[j].id = db[j].id
    BY <1>1, <1>2, <1>3, OtherWrites
  <1>5. \A j \in DOMAIN work : j \in DOMAIN work' /\ work'[j].id = work[j].id
    BY <1>1, <1>2, <1>3, OtherWrites
  <1>6. Screen'
    BY <1>2, <1>4, ScreenStays DEF JInv, Intact
  <1>7. Aimed'
    BY <1>2, <1>5 DEF JInv, Aimed, OldToRun, ToRun
  <1> QED BY <1>6, <1>7

LEMMA StageAims ==
  ASSUME JInv, NEW p, NEW rows, Stage(p, rows), Sensible(p, rows) PROVE Screen' /\ Aimed'
  <1>1. /\ st \in {"editing", "previewing"} /\ pend' = p
        /\ meant' = [i \in DOMAIN meant |->
                       IF i \notin DOMAIN p.edits /\ ~IsDeleted(p, i) THEN Nobody
                       ELSE IF i \in rows THEN grid[i].id ELSE meant[i]]
        /\ UNCHANGED <<hasTx, db, grid, st, plan, at>>
    BY DEF Stage, Staging, table
  <1>2. DOMAIN grid = 1..Len(grid) /\ Len(grid) \in Nat /\ Len(grid) <= PageSize
        /\ DOMAIN meant = 1..PageSize /\ PageSize \in Nat
    BY LenProperties, ConstantsAssumption DEF JInv, IInv, Stores, Screen
  <1>3. Marked(p)' = Marked(p)
    BY <1>1 DEF Marked
  <1>4. ASSUME NEW i \in Marked(p) PROVE meant'[i] = grid[i].id
    <2>1. i \in DOMAIN meant /\ ~(i \notin DOMAIN p.edits /\ ~IsDeleted(p, i))
      BY <1>2 DEF Marked
    <2>2. i \in rows \/ i \in Marked(pend)
      BY DEF Sensible
    <2>3. i \in Marked(pend) => meant[i] = grid[i].id
      BY <1>1 DEF JInv, Screen
    <2> QED BY <1>1, <2>1, <2>2, <2>3
  <1>5. Marked(pend)' = Marked(p)
    BY <1>1, <1>3 DEF Marked, IsDeleted
  <1>6. Screen'
    BY <1>1, <1>2, <1>4, <1>5 DEF JInv, Screen, Intact
  <1>7. Aimed'
    BY <1>1 DEF Aimed
  <1> QED BY <1>6, <1>7

LEMMA QuietAims ==
  ASSUME JInv, Careful,
         BeginEdit \/ ConfirmEdit \/ Previewed \/ CancelPreview \/ ApplyRefused \/ RunAgain
               \/ UNCHANGED vars
  PROVE  Screen' /\ Aimed'
  <1>1. CASE BeginEdit
    <2>1. /\ st' = "editing" /\ pend' = NoPending /\ DOMAIN meant' = DOMAIN meant
          /\ UNCHANGED <<hasTx, db, grid, at>> /\ st = "view"
      BY <1>1 DEF BeginEdit, table
    <2>2. Marked(pend)' = {}
      BY <2>1, NoMarks DEF Marked, IsDeleted
    <2> QED BY <2>1, <2>2 DEF JInv, Screen, Aimed, Intact
  <1>2. CASE ConfirmEdit \/ Previewed \/ CancelPreview
    <2>1. /\ UNCHANGED <<hasTx, db, grid, pend, meant, at>> /\ st # "view" /\ st # "applying"
          /\ st' # "applying"
      BY <1>2 DEF ConfirmEdit, Previewed, CancelPreview, table
    <2>2. Screen'
      BY <2>1, ScreenStays DEF JInv, Intact
    <2> QED BY <2>1, <2>2 DEF Aimed
  <1>3. CASE RunAgain
    <2>1. st = "view" /\ grid' = PageOf(work) /\ UNCHANGED <<db, work, st, meant>>
      BY <1>3 DEF RunAgain, Careful, table, session
    <2>2. work = db
      BY <2>1 DEF JInv, IInv, Stores
    <2>3. Screen'
      BY <2>1, <2>2, ScreenFresh DEF JInv, Screen
    <2> QED BY <2>1, <2>3 DEF Aimed
  <1>4. CASE ApplyRefused \/ UNCHANGED vars
    <2>1. UNCHANGED <<hasTx, db, work, grid, st, pend, plan, at, meant>>
      BY <1>4 DEF ApplyRefused, vars, table, session
    <2>2. Screen'
      BY <2>1, ScreenStays DEF JInv, Intact
    <2>3. Aimed'
      BY <2>1 DEF JInv, Aimed, OldToRun, ToRun
    <2> QED BY <2>2, <2>3
  <1> QED BY <1>1, <1>2, <1>3, <1>4

LEMMA ApplyEditAims == ASSUME JInv, ApplyEdit PROVE Screen' /\ Aimed'
  <1>1. /\ st = "preview" /\ st' = "applying" /\ plan' = BuildPlan(pend) /\ at' = 1
        /\ UNCHANGED <<hasTx, db, work, locks, grid, pend, meant, ops, writes>>
    BY DEF ApplyEdit, table
  <1>2. Screen'
    BY <1>1, ScreenStays DEF JInv, Intact
  <1>3. Tidy(pend) /\ grid \in Seq(ToSet(grid)) /\ work = db
    BY <1>1 DEF JInv, IInv, Pending, Stores
  <1>4. PICK P : P = BuildPlan(pend)
    OBVIOUS
  <1>5. PICK src : Stands(pend, P, src)
    BY <1>3, <1>4, PlanStands
  <1>6. ASSUME NEW a \in DOMAIN P, P[a].kind # "insert"
        PROVE  /\ src[a] \in DOMAIN grid /\ src[a] \in Marked(pend)
               /\ P[a].key = grid[src[a]].k /\ P[a].n = meant[src[a]]
    <2>1. \/ src[a] \in Changed(pend) /\ P[a] = Update(pend, src[a])
          \/ src[a] \in DOMAIN grid /\ IsDeleted(pend, src[a]) /\ P[a] = Delete(pend, src[a])
      BY <1>5, <1>6, Kinds DEF Stands
    <2>2. src[a] \in DOMAIN grid /\ src[a] \in Marked(pend)
      BY <2>1 DEF Changed, Marked
    <2>3. P[a].key = grid[src[a]].k /\ P[a].n = meant[src[a]]
      BY <2>1 DEF Update, Delete
    <2> QED BY <2>2, <2>3
  <1>7. /\ \A i \in DOMAIN grid : grid[i].k \in DOMAIN work /\ work[grid[i].k].id = grid[i].id
        /\ \A i \in Marked(pend) : meant[i] = grid[i].id
        /\ \A i, j \in DOMAIN grid : grid[i].k = grid[j].k => i = j
    BY <1>1, <1>3 DEF JInv, Screen, Intact
  <1>8. ASSUME NEW a \in DOMAIN P, P[a].kind # "insert"
        PROVE  P[a].key \in DOMAIN work /\ work[P[a].key].id = P[a].n
    BY <1>6, <1>7, <1>8
  <1>9. ASSUME NEW a \in DOMAIN P, NEW b \in DOMAIN P, P[a].kind # "insert", P[b].kind # "insert",
               P[a].key = P[b].key
        PROVE  a = b
    <2>1. src[a] = src[b]
      BY <1>6, <1>7, <1>9
    <2> QED BY <2>1, <1>5, <1>9 DEF Stands
  <1>10. OldToRun' \subseteq {j \in DOMAIN P : P[j].kind # "insert"}
    BY <1>1, <1>4 DEF OldToRun, ToRun
  <1>11. Aimed'
    BY <1>1, <1>4, <1>8, <1>9, <1>10 DEF Aimed
  <1> QED BY <1>2, <1>11

LEMMA ItemRunsAims == ASSUME JInv, ItemRuns PROVE Screen' /\ Aimed'
  <1>1. PICK item : item = plan[at]
    OBVIOUS
  <1>2. PICK T \in Effects(item, work) :
          /\ work' = T /\ at' = at + 1 /\ st = "applying" /\ at <= Len(plan)
          /\ IF hasTx THEN db' = db ELSE db' = T
          /\ UNCHANGED <<hasTx, grid, st, pend, plan, meant, ops, writes>>
    BY <1>1 DEF ItemRuns
  <1>3. /\ at \in Nat \ {0} /\ plan \in Seq(ToSet(plan)) /\ IsTable(work)
        /\ \A j \in ToRun : plan[j].kind \in {"update", "delete", "insert"}
        /\ \A j \in OldToRun : plan[j].key \in DOMAIN work /\ work[plan[j].key].id = plan[j].n
        /\ \A j, i \in OldToRun : plan[j].key = plan[i].key => j = i
    BY <1>2 DEF JInv, IInv, Stores, Applying, Aimed
  <1>4. at \in ToRun
    BY <1>2, <1>3, LenProperties DEF ToRun
  <1>5. Screen'
    <2>1. Intact' => hasTx
      BY <1>2, <1>3 DEF Intact
    <2> QED BY <2>1, <1>2, ScreenStays DEF JInv, Intact
  <1>6. ToRun' = ToRun \ {at} /\ OldToRun' = OldToRun \ {at}
    BY <1>2, <1>3, LenProperties DEF ToRun, OldToRun
  <1>7. ASSUME NEW j \in OldToRun \ {at}
        PROVE  plan[j].key \in DOMAIN T /\ T[plan[j].key].id = plan[j].n
    <2>1. plan[j].key \in DOMAIN work /\ work[plan[j].key].id = plan[j].n
      BY <1>3
    <2>2. CASE item.kind = "insert"
      <3>1. \A k \in DOMAIN work : k \in DOMAIN T /\ T[k].id = work[k].id
        BY <2>2, <1>3, NewRowEffect
      <3> QED BY <2>1, <3>1
    <2>3. CASE item.kind # "insert"
      <3>1. item.kind \in {"update", "delete"} /\ at \in OldToRun
        BY <2>3, <1>1, <1>3, <1>4 DEF OldToRun
      <3>2. \A k \in DOMAIN work \ {item.key} : k \in DOMAIN T /\ T[k].id = work[k].id
        BY <3>1, <1>3, OldRowEffect
      <3>3. plan[j].key # item.key
        BY <3>1, <1>1, <1>3
      <3> QED BY <2>1, <3>2, <3>3
    <2> QED BY <2>2, <2>3
  <1>8. Aimed'
    BY <1>2, <1>3, <1>6, <1>7 DEF Aimed
  <1> QED BY <1>5, <1>8

LEMMA EndAims ==
  ASSUME JInv, ItemFails \/ Commit \/ CommitRefused \/ DiscardEdit PROVE Screen' /\ Aimed'
  <1>1. /\ st' # "applying" /\ DOMAIN meant' = DOMAIN meant
        /\ \/ pend' = NoPending /\ grid' = PageOf(db')
           \/ /\ UNCHANGED <<pend, grid, db, meant>> /\ st = "applying"
              /\ ~(~hasTx /\ at > 1)
    BY DEF ItemFails, AfterFailure, Commit, CommitRefused, DiscardEdit, Closed
  <1>2. Aimed'
    BY <1>1 DEF Aimed
  <1>3. CASE pend' = NoPending /\ grid' = PageOf(db')
    BY <1>1, <1>2, <1>3, ScreenFresh DEF JInv, Screen
  <1>4. CASE UNCHANGED <<pend, grid, db, meant>> /\ st = "applying" /\ ~(~hasTx /\ at > 1)
    <2>1. Intact
      BY <1>4 DEF JInv, IInv, Applying, Intact
    <2> QED BY <1>2, <1>4, <2>1, ScreenStays DEF JInv
  <1> QED BY <1>1, <1>3, <1>4

LEMMA InitAims == ASSUME Init PROVE Screen /\ Aimed
  <1>1. /\ st = "view" /\ grid = PageOf(db) /\ DOMAIN meant = 1..PageSize
    BY DEF Init
  <1>2. /\ Len(grid) <= PageSize
        /\ \A i \in DOMAIN grid : grid[i].k \in DOMAIN db /\ grid[i].id = db[grid[i].k].id
        /\ \A i, j \in DOMAIN grid : grid[i].k = grid[j].k => i = j
    BY <1>1, PageIsSeq
  <1> QED BY <1>1, <1>2 DEF Screen, Aimed

LEMMA AimStays == ASSUME JInv, Careful, [Next]_vars PROVE JInv'
  <1>1. IInv'
    BY Invariance DEF JInv
  <1>2. ASSUME Staged PROVE Screen' /\ Aimed'
    <2>1. PICK p, rows : Stage(p, rows) /\ Sensible(p, rows)
      BY <1>2, StagedSensible DEF JInv
    <2> QED BY <2>1, StageAims
  <1>3. Screen' /\ Aimed'
    BY <1>2, ForeignAims, QuietAims, ApplyEditAims, ItemRunsAims, EndAims DEF Next
  <1> QED BY <1>1, <1>3 DEF JInv

(* A row statement reaches the row the user changed, or none               *)
(* (editSession.ts:283), if the user runs nothing in the tab meanwhile and  *)
(* the other sessions delete no rows: what they insert and update, what the *)
(* user edits, reverts, deletes and adds, and the attempts that fail in     *)
(* between change nothing of it.                                            *)
THEOREM ChangesOnTheirRow == Careful /\ Spec => []ChangesHitTheirRow
  <1> SUFFICES ASSUME Careful PROVE Spec => []ChangesHitTheirRow
    OBVIOUS
  <1>1. Init => JInv
    BY InitHolds, InitAims DEF JInv
  <1>2. JInv /\ [Next]_vars => JInv'
    BY AimStays
  <1>3. JInv => ChangesHitTheirRow
    <2> SUFFICES ASSUME JInv, st = "applying", at <= Len(plan), plan[at].kind # "insert",
                        plan[at].key \in DOMAIN work
                 PROVE  work[plan[at].key].id = plan[at].n
      BY DEF ChangesHitTheirRow
    <2>1. at \in OldToRun
      BY LenProperties DEF JInv, IInv, Applying, OldToRun, ToRun
    <2> QED BY <2>1 DEF JInv, Aimed
  <1> QED BY <1>1, <1>2, <1>3, PTL DEF Spec

=============================================================================
