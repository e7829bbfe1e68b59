--------------------------- MODULE Editor_proofs ---------------------------
(***************************************************************************)
(* Proofs about Bindings and Editor.  Every operation on the table of      *)
(* bindings keeps its five indexes in agreement, so they agree after any   *)
(* commands, executed, undone and redone in any order.  Every operation on *)
(* a project keeps it made of dictionaries, and every command can be taken *)
(* back: undoing and redoing walk along the history of the project.        *)
(***************************************************************************)
EXTENDS EditorHistory, FiniteSetTheorems, FunctionTheorems, SequenceTheorems,
        WellFoundedInduction, TLAPS

(***************************************************************************)
(* Levels and keys.                                                        *)
(***************************************************************************)
LEMMA LevelFields ==
  ASSUME NEW L \in Levels
  PROVE  L \subseteq Fields
BY DEF Levels, ConnLevel, VarLevel, ViewLevel, PanelLevel, TemplLevel, Fields

LEMMA KeyOfIs ==
  ASSUME NEW b, NEW L
  PROVE  /\ DOMAIN KeyOf(b, L) = L
         /\ \A f \in L : KeyOf(b, L)[f] = b[f]
         /\ KeyOf(b, L) = [f \in L |-> b[f]]
BY DEF KeyOf

\* Two functions with the same values are the same.
LEMMA SameKey ==
  ASSUME NEW x, NEW y, x = [f \in DOMAIN x |-> x[f]],
         y = [f \in DOMAIN y |-> y[f]], DOMAIN x = DOMAIN y,
         \A f \in DOMAIN x : x[f] = y[f]
  PROVE  x = y
<1>1. [f \in DOMAIN x |-> x[f]] = [f \in DOMAIN y |-> y[f]]
  OBVIOUS
<1> QED BY <1>1, Zenon

LEMMA KeyOfKey ==
  ASSUME NEW b, NEW L \in Levels
  PROVE  IsKey(KeyOf(b, L))
BY KeyOfIs DEF IsKey

\* A binding is listed under its own keys and no other.
LEMMA OwnKeys ==
  ASSUME NEW b, IsBinding(b)
  PROVE  /\ \A L \in Levels : /\ KeyOf(b, L) \in KeysOf(b)
                              /\ Under(b, KeyOf(b, L))
         /\ \A k : IsKey(k) /\ Under(b, k) => k \in KeysOf(b)
         /\ \A k \in KeysOf(b) : IsKey(k) /\ Under(b, k)
<1>1. ASSUME NEW L \in Levels
      PROVE  KeyOf(b, L) \in KeysOf(b) /\ Under(b, KeyOf(b, L))
  <2>1. L \subseteq DOMAIN b
    BY LevelFields DEF IsBinding
  <2> QED BY <2>1, KeyOfIs DEF KeysOf, Under
<1>2. ASSUME NEW k, IsKey(k), Under(b, k)
      PROVE  k \in KeysOf(b)
  <2>1. DOMAIN k \in Levels /\ k = [f \in DOMAIN k |-> k[f]]
    BY <1>2 DEF IsKey
  <2>2. \A f \in DOMAIN k : k[f] = b[f]
    BY <1>2 DEF Under
  <2>3. k = KeyOf(b, DOMAIN k)
    BY <2>1, <2>2, Zenon DEF KeyOf
  <2> QED BY <1>1, <2>1, <2>3
<1>3. \A k \in KeysOf(b) : IsKey(k) /\ Under(b, k)
  BY <1>1, KeyOfKey DEF KeysOf
<1> QED BY <1>1, <1>2, <1>3, Zenon

\* A key's own keys at the levels above it.
LEMMA UpperKeys ==
  ASSUME NEW b, NEW L \in Levels, NEW M, M \subseteq L
  PROVE  KeyOf(KeyOf(b, L), M) = KeyOf(b, M)
BY DEF KeyOf

-----------------------------------------------------------------------------
(***************************************************************************)
(* What is taken from the table, and put back.                             *)
(***************************************************************************)
LEMMA RemovedAllTable ==
  ASSUME NEW bs, NEW S, Table(bs)
  PROVE  Table(RemovedAll(bs, S)) /\ RemovedAll(bs, S).cell = bs.cell
<1> DEFINE rs == RemovedAll(bs, S)
<1>1. /\ DOMAIN rs = DOMAIN bs /\ rs.cell = bs.cell /\ rs.list = bs.list \ S
      /\ rs.index = [k \in DOMAIN bs.index |-> bs.index[k] \ S]
  BY DEF RemovedAll, Table, WellFormed
<1> HIDE DEF rs
<1>2. DOMAIN rs.index = DOMAIN bs.index
  BY <1>1
<1>3. WellFormed(rs)
  BY <1>1, <1>2 DEF Table, WellFormed
<1>4. Consistent(rs)
  <2>1. \A k \in DOMAIN rs.index :
          rs.index[k] = {i \in rs.list : Under(rs.cell[i], k)}
    BY <1>1, <1>2 DEF Table, Consistent
  <2>2. \A i \in rs.list : KeysOf(rs.cell[i]) \subseteq DOMAIN rs.index
    BY <1>1, <1>2 DEF Table, Consistent
  <2>3. \A i, j \in rs.list : rs.cell[i] = rs.cell[j] => i = j
    BY <1>1 DEF Table, Consistent
  <2> QED BY <2>1, <2>2, <2>3 DEF Consistent
<1>5. Nested(rs)
  BY <1>2 DEF Table, Nested
<1> QED BY <1>1, <1>3, <1>4, <1>5 DEF Table, rs

\* Objects made before get in unless they equal a binding of the table.
LEMMA AddedAllTable ==
  ASSUME NEW bs, NEW S, Table(bs), S \subseteq DOMAIN bs.cell
  PROVE  Table(AddedAll(bs, S)) /\ AddedAll(bs, S).cell = bs.cell
<1> DEFINE as == AddedAll(bs, S)
           new == Admitted(bs, S)
<1>0. /\ DOMAIN bs = {"cell", "list", "index"}
      /\ \A i \in DOMAIN bs.cell : IsBinding(bs.cell[i])
      /\ bs.list \subseteq DOMAIN bs.cell /\ DOMAIN bs.cell \subseteq Int
      /\ \A k \in DOMAIN bs.index : IsKey(k)
      /\ \A k \in DOMAIN bs.index :
           bs.index[k] = {i \in bs.list : Under(bs.cell[i], k)}
      /\ \A i \in bs.list : KeysOf(bs.cell[i]) \subseteq DOMAIN bs.index
      /\ \A i, j \in bs.list : bs.cell[i] = bs.cell[j] => i = j
  BY DEF Table, WellFormed, Consistent
<1>1. /\ DOMAIN as = DOMAIN bs /\ as.cell = bs.cell /\ as.list = bs.list \cup new
      /\ as.index = [k \in DOMAIN bs.index \cup UNION {KeysOf(bs.cell[i]) : i \in new}
                       |-> Listed(bs, k) \cup {i \in new : Under(bs.cell[i], k)}]
  BY <1>0 DEF AddedAll
<1>2. /\ new \subseteq S
      /\ \A i \in new, j \in bs.list : bs.cell[i] # bs.cell[j]
      /\ \A i, j \in new : bs.cell[i] = bs.cell[j] => i <= j
  BY DEF Admitted, InTable
<1> HIDE DEF as, new
<1>3. /\ DOMAIN as.index = DOMAIN bs.index
                             \cup UNION {KeysOf(bs.cell[i]) : i \in new}
      /\ \A k \in DOMAIN as.index :
           as.index[k] = Listed(bs, k) \cup {i \in new : Under(bs.cell[i], k)}
  BY <1>1
<1>4. \A i \in new : IsBinding(bs.cell[i])
  BY <1>0, <1>2
<1>5. \A i \in as.list : /\ i \in DOMAIN bs.cell /\ i \in Int
                         /\ IsBinding(bs.cell[i])
                         /\ KeysOf(bs.cell[i]) \subseteq DOMAIN as.index
  BY <1>0, <1>1, <1>2, <1>3
<1>6. \A k \in DOMAIN as.index : IsKey(k)
  BY <1>0, <1>3, <1>4, OwnKeys
<1>7. WellFormed(as)
  BY <1>0, <1>1, <1>5, <1>6 DEF Table, WellFormed
<1>8. ASSUME NEW k \in DOMAIN as.index
      PROVE  as.index[k] = {i \in as.list : Under(as.cell[i], k)}
  <2>1. Listed(bs, k) = {i \in bs.list : Under(bs.cell[i], k)}
    <3>1. CASE k \in DOMAIN bs.index
      BY <1>0, <3>1 DEF Listed
    <3>2. CASE k \notin DOMAIN bs.index
      <4>1. \A i \in bs.list : ~Under(bs.cell[i], k)
        BY <1>0, <1>6, <3>2, OwnKeys
      <4> QED BY <4>1, <3>2 DEF Listed
    <3> QED BY <3>1, <3>2, Zenon
  <2> QED BY <1>1, <1>3, <2>1
<1>9. \A i, j \in as.list : as.cell[i] = as.cell[j] => i = j
  <2> TAKE i, j \in as.list
  <2> HAVE as.cell[i] = as.cell[j]
  <2>1. bs.cell[i] = bs.cell[j] /\ i \in Int /\ j \in Int
    BY <1>1, <1>5
  <2>2. CASE i \in new /\ j \in new
    BY <1>2, <2>1, <2>2
  <2>3. CASE i \notin new \/ j \notin new
    BY <1>0, <1>1, <1>2, <2>1, <2>3
  <2> QED BY <2>2, <2>3, Zenon
<1>10. Consistent(as)
  BY <1>1, <1>5, <1>8, <1>9 DEF Consistent
<1>11. Nested(as)
  <2> SUFFICES ASSUME NEW k \in DOMAIN as.index, NEW L \in Levels,
                      L \subseteq DOMAIN k
               PROVE  KeyOf(k, L) \in DOMAIN as.index
    BY DEF Nested
  <2>1. CASE k \in DOMAIN bs.index
    BY <1>3, <2>1 DEF Table, Nested
  <2>2. ASSUME NEW i \in new, k \in KeysOf(bs.cell[i])
        PROVE  KeyOf(k, L) \in DOMAIN as.index
    <3>1. PICK M \in Levels : k = KeyOf(bs.cell[i], M)
      BY <2>2 DEF KeysOf
    <3>2. L \subseteq M
      BY <3>1, KeyOfIs
    <3>3. KeyOf(k, L) = KeyOf(bs.cell[i], L)
      BY <3>1, <3>2, UpperKeys
    <3>4. KeyOf(bs.cell[i], L) \in KeysOf(bs.cell[i])
      BY <1>4, OwnKeys
    <3> QED BY <1>3, <3>3, <3>4
  <2> QED BY <1>3, <2>1, <2>2
<1> QED BY <1>1, <1>7, <1>10, <1>11 DEF Table, as


\* New objects change nothing of the table.
LEMMA CreatedAllTable ==
  ASSUME NEW bs, NEW T, NEW seq \in Seq(T), Table(bs),
         \A b \in T : IsBinding(b)
  PROVE  /\ Table(CreatedAll(bs, seq))
         /\ Len(CreatedAll(bs, seq).cell) = Len(bs.cell) + Len(seq)
<1> DEFINE cs == CreatedAll(bs, seq)
           O == {bs.cell[i] : i \in DOMAIN bs.cell}
           P == {cs.cell[i] : i \in DOMAIN cs.cell}
<1>0. /\ DOMAIN bs = {"cell", "list", "index"}
      /\ bs.cell \in Seq(O)
      /\ \A i \in DOMAIN bs.cell : IsBinding(bs.cell[i])
      /\ bs.list \subseteq DOMAIN bs.cell
      /\ \A k \in DOMAIN bs.index : IsKey(k)
  BY DEF Table, WellFormed
<1>1. /\ DOMAIN cs = DOMAIN bs /\ cs.list = bs.list /\ cs.index = bs.index
      /\ cs.cell = bs.cell \o seq
  BY <1>0 DEF CreatedAll
<1> HIDE DEF O
<1>2. /\ bs.cell \in Seq(O \cup T) /\ seq \in Seq(O \cup T)
      /\ Len(bs.cell) \in Nat /\ Len(seq) \in Nat
      /\ DOMAIN bs.cell = 1..Len(bs.cell)
      /\ DOMAIN seq = 1..Len(seq) /\ \A i \in DOMAIN seq : seq[i] \in T
  BY <1>0
<1> HIDE DEF cs
<1>3. /\ cs.cell \in Seq(O \cup T) /\ Len(cs.cell) = Len(bs.cell) + Len(seq)
      /\ DOMAIN cs.cell = 1..(Len(bs.cell) + Len(seq))
  BY <1>1, <1>2
<1>4. /\ \A i \in DOMAIN bs.cell : cs.cell[i] = bs.cell[i]
      /\ \A i \in DOMAIN cs.cell \ DOMAIN bs.cell :
           cs.cell[i] = seq[i - Len(bs.cell)] /\ i - Len(bs.cell) \in DOMAIN seq
  BY <1>1, <1>2, <1>3
<1>5. \A i \in DOMAIN cs.cell : IsBinding(cs.cell[i])
  BY <1>0, <1>2, <1>4
<1>6. DOMAIN bs.cell \subseteq DOMAIN cs.cell
  BY <1>2, <1>3
<1>7. cs.cell \in Seq(P)
  BY <1>3
<1>8. WellFormed(cs)
  BY <1>0, <1>1, <1>5, <1>6, <1>7 DEF WellFormed
<1>9. \A i \in cs.list : cs.cell[i] = bs.cell[i]
  BY <1>0, <1>1, <1>4
<1>10. Consistent(cs)
  <2>1. \A k \in DOMAIN cs.index :
          cs.index[k] = {i \in cs.list : Under(cs.cell[i], k)}
    <3> TAKE k \in DOMAIN cs.index
    <3>1. bs.index[k] = {i \in bs.list : Under(bs.cell[i], k)}
      BY <1>1 DEF Table, Consistent
    <3>2. {i \in cs.list : Under(cs.cell[i], k)}
            = {i \in bs.list : Under(bs.cell[i], k)}
      BY <1>1, <1>9
    <3> QED BY <1>1, <3>1, <3>2
  <2>2. \A i \in cs.list : KeysOf(cs.cell[i]) \subseteq DOMAIN cs.index
    BY <1>1, <1>9 DEF Table, Consistent
  <2>3. \A i, j \in cs.list : cs.cell[i] = cs.cell[j] => i = j
    BY <1>1, <1>9 DEF Table, Consistent
  <2> QED BY <2>1, <2>2, <2>3 DEF Consistent
<1>11. Nested(cs)
  BY <1>1 DEF Table, Nested
<1> QED BY <1>3, <1>8, <1>10, <1>11 DEF Table, cs

LEMMA AppendOne ==
  ASSUME NEW T, NEW seq \in Seq(T), NEW e
  PROVE  Append(seq, e) = seq \o <<e>>
<1> DEFINE W == T \cup {e}
<1>1. seq \in Seq(W) /\ e \in W
  OBVIOUS
<1> HIDE DEF W
<1>2. Append(seq, e) = seq \o <<e>>
  BY <1>1
<1> QED BY <1>2

LEMMA CreatedTable ==
  ASSUME NEW bs, NEW b, Table(bs), IsBinding(b)
  PROVE  /\ Table(Created(bs, b))
         /\ Len(Created(bs, b).cell) = Len(bs.cell) + 1
<1>1. Append(bs.cell, b) = bs.cell \o <<b>>
  BY AppendOne DEF Table, WellFormed
<1> DEFINE one == <<b>>
           B == {b}
<1>2. Created(bs, b) = CreatedAll(bs, one)
  BY <1>1 DEF Created, CreatedAll
<1>3. one \in Seq(B) /\ Len(one) = 1 /\ \A x \in B : IsBinding(x)
  OBVIOUS
<1> HIDE DEF one, B
<1>4. /\ Table(CreatedAll(bs, one))
      /\ Len(CreatedAll(bs, one).cell) = Len(bs.cell) + Len(one)
  BY <1>3, CreatedAllTable
<1> QED BY <1>2, <1>3, <1>4

-----------------------------------------------------------------------------
(***************************************************************************)
(* Renaming.                                                               *)
(***************************************************************************)
\* What renaming the field f to n makes of a binding or of a key.
Retitled(x, f, n) == [x EXCEPT ![f] = n]

LEMMA RetitledIs ==
  ASSUME NEW x, NEW f \in DOMAIN x, NEW n
  PROVE  /\ DOMAIN Retitled(x, f, n) = DOMAIN x
         /\ Retitled(x, f, n)[f] = n
         /\ \A g \in DOMAIN x : g # f => Retitled(x, f, n)[g] = x[g]
         /\ Retitled(x, f, n) = [g \in DOMAIN x |-> Retitled(x, f, n)[g]]
BY DEF Retitled

\* The field renamed is the last of its key's level: a level with that field
\* has the whole key.
Lowest(k, f) ==
  /\ DOMAIN k \in Levels /\ f \in DOMAIN k
  /\ \A L \in Levels : f \in L => DOMAIN k \subseteq L

LEMMA RetitledBack ==
  ASSUME NEW x, NEW f \in DOMAIN x, NEW n, x = [g \in DOMAIN x |-> x[g]]
  PROVE  Retitled(Retitled(x, f, n), f, x[f]) = x
<1> DEFINE y == Retitled(x, f, n)
           z == Retitled(y, f, x[f])
<1>1. /\ DOMAIN y = DOMAIN x /\ \A g \in DOMAIN x : g # f => y[g] = x[g]
  BY RetitledIs
<1>2. /\ DOMAIN z = DOMAIN y /\ z[f] = x[f]
      /\ \A g \in DOMAIN y : g # f => z[g] = y[g]
      /\ z = [g \in DOMAIN z |-> z[g]]
  <2> HIDE DEF y
  <2> QED BY <1>1, RetitledIs
<1> HIDE DEF y, z
<1>3. \A g \in DOMAIN x : z[g] = x[g]
  BY <1>1, <1>2
<1>4. z = x
  BY <1>1, <1>2, <1>3, SameKey
<1> QED BY <1>4 DEF y, z

\* An object or key x that lies under k lies under the new key once renamed,
\* and under the others it did.
LEMMA RetitledUnder ==
  ASSUME NEW k, NEW f \in DOMAIN k, NEW n, NEW x, Under(x, k)
  PROVE  /\ f \in DOMAIN x /\ x[f] = k[f] /\ DOMAIN k \subseteq DOMAIN x
         /\ Under(Retitled(x, f, n), Retitled(k, f, n))
         /\ \A y : Under(x, y) /\ f \notin DOMAIN y => Under(Retitled(x, f, n), y)
         /\ \A y : Under(Retitled(x, f, n), y) /\ f \notin DOMAIN y => Under(x, y)
         /\ \A y : Under(y, k) =>
              (Under(Retitled(x, f, n), Retitled(y, f, n)) <=> Under(x, y))
<1>1. f \in DOMAIN x /\ x[f] = k[f] /\ DOMAIN k \subseteq DOMAIN x
  BY DEF Under
<1> DEFINE r == Retitled(x, f, n)
<1>2. /\ DOMAIN r = DOMAIN x /\ r[f] = n
      /\ \A g \in DOMAIN x : g # f => r[g] = x[g]
  BY <1>1, RetitledIs
<1> HIDE DEF r
<1>3. Under(r, Retitled(k, f, n))
  BY <1>1, <1>2, RetitledIs DEF Under
<1>4. ASSUME NEW y, f \notin DOMAIN y
      PROVE  Under(x, y) <=> Under(r, y)
  BY <1>2, <1>4 DEF Under
<1>5. ASSUME NEW y, Under(y, k)
      PROVE  Under(r, Retitled(y, f, n)) <=> Under(x, y)
  <2> DEFINE s == Retitled(y, f, n)
  <2>1. f \in DOMAIN y /\ y[f] = k[f]
    BY <1>5 DEF Under
  <2>2. /\ DOMAIN s = DOMAIN y /\ s[f] = n
        /\ \A g \in DOMAIN y : g # f => s[g] = y[g]
    BY <2>1, RetitledIs
  <2> HIDE DEF s
  <2>3. Under(r, s) <=> Under(x, y)
    BY <1>1, <1>2, <2>1, <2>2 DEF Under
  <2> QED BY <2>3 DEF s
<1> QED BY <1>1, <1>3, <1>4, <1>5 DEF r


LEMMA UnderTransitive ==
  ASSUME NEW x, NEW y, NEW z, Under(x, y), Under(y, z)
  PROVE  Under(x, z)
BY DEF Under

LEMMA UnderOwn ==
  ASSUME NEW x, NEW L, L \subseteq DOMAIN x
  PROVE  Under(x, KeyOf(x, L))
BY KeyOfIs DEF Under

\* Of two keys of the same object the longer lies under the shorter.
LEMMA UnderBoth ==
  ASSUME NEW c, NEW x, NEW k, Under(c, x), Under(c, k), DOMAIN k \subseteq DOMAIN x
  PROVE  Under(x, k)
BY DEF Under

\* The keys of what lies under k: those that go down to k's level are renamed
\* with it.
LEMMA RetitledKeys ==
  ASSUME NEW k, NEW f, Lowest(k, f), NEW n, NEW x, Under(x, k),
         NEW L \in Levels, L \subseteq DOMAIN x
  PROVE  /\ f \in L => /\ Under(KeyOf(x, L), k)
                       /\ KeyOf(Retitled(x, f, n), L) = Retitled(KeyOf(x, L), f, n)
         /\ f \notin L => /\ ~Under(KeyOf(x, L), k)
                          /\ KeyOf(Retitled(x, f, n), L) = KeyOf(x, L)
<1>1. f \in DOMAIN k /\ f \in DOMAIN x
  BY DEF Under, Lowest
<1> DEFINE r == Retitled(x, f, n)
           q == KeyOf(x, L)
<1>2. /\ DOMAIN r = DOMAIN x /\ r[f] = n
      /\ \A g \in DOMAIN x : g # f => r[g] = x[g]
  BY <1>1, RetitledIs
<1>3. DOMAIN q = L /\ \A g \in L : q[g] = x[g]
  BY KeyOfIs
<1> HIDE DEF r, q
<1>4. CASE f \in L
  <2>1. DOMAIN k \subseteq L
    BY <1>4 DEF Lowest
  <2>2. Under(q, k)
    BY <1>3, <2>1 DEF Under
  <2> DEFINE u == Retitled(q, f, n)
             v == KeyOf(r, L)
  <2>3. /\ DOMAIN u = L /\ u[f] = n /\ u = [g \in DOMAIN u |-> u[g]]
        /\ \A g \in L : g # f => u[g] = q[g]
    BY <1>3, <1>4, RetitledIs
  <2>4. /\ DOMAIN v = L /\ v = [g \in DOMAIN v |-> v[g]]
        /\ \A g \in L : v[g] = r[g]
    BY KeyOfIs DEF KeyOf
  <2> HIDE DEF u, v
  <2>5. \A g \in L : u[g] = v[g]
    BY <1>2, <1>3, <2>3, <2>4
  <2>6. u = v
    BY <2>3, <2>4, <2>5, SameKey
  <2> QED BY <1>4, <2>2, <2>6 DEF u, v, q, r
<1>5. CASE f \notin L
  <2>1. ~Under(q, k)
    BY <1>1, <1>3, <1>5 DEF Under
  <2> DEFINE v == KeyOf(r, L)
  <2>2. /\ DOMAIN v = L /\ v = [g \in DOMAIN v |-> v[g]]
        /\ \A g \in L : v[g] = r[g]
    BY KeyOfIs DEF KeyOf
  <2>3. q = [g \in DOMAIN q |-> q[g]]
    BY KeyOfIs DEF KeyOf, q
  <2> HIDE DEF v
  <2>4. \A g \in L : q[g] = v[g]
    BY <1>2, <1>3, <1>5, <2>2
  <2>5. q = v
    BY <1>3, <2>2, <2>3, <2>4, SameKey
  <2> QED BY <1>5, <2>1, <2>5 DEF v, q, r
<1> QED BY <1>4, <1>5, Zenon


\* What a renaming that is not refused makes of a table, part by part.
LEMMA RenamedIs ==
  ASSUME NEW bs, NEW k, NEW f, NEW n, k \in DOMAIN bs.index,
         Retitled(k, f, n) \notin DOMAIN bs.index
  PROVE  LET rs   == Renamed(bs, k, f, n)
             kept == {x \in DOMAIN bs.index : ~Under(x, k)}
             rekeyed == {Retitled(x, f, n) : x \in DOMAIN bs.index \ kept}
         IN  /\ DOMAIN rs = {"cell", "list", "index"} /\ rs.list = bs.list
             /\ rs.cell = [i \in DOMAIN bs.cell |->
                             IF i \in bs.index[k] THEN Retitled(bs.cell[i], f, n)
                             ELSE bs.cell[i]]
             /\ DOMAIN rs.index = kept \cup rekeyed
             /\ \A x \in kept \ rekeyed : rs.index[x] = bs.index[x]
             /\ \A x \in rekeyed : rs.index[x] = bs.index[Retitled(x, f, k[f])]
BY DEF Renamed, Refused, Retitled

LEMMA RenamedTable ==
  ASSUME NEW bs, NEW k, NEW f, NEW n, Table(bs), Lowest(k, f)
  PROVE  /\ Table(Renamed(bs, k, f, n))
         /\ Len(Renamed(bs, k, f, n).cell) = Len(bs.cell)
<1> DEFINE nk == Retitled(k, f, n)
<1>1. CASE k \notin DOMAIN bs.index \/ nk \in DOMAIN bs.index
  <2>1. Renamed(bs, k, f, n) = bs
    BY <1>1 DEF Renamed, Refused, Retitled
  <2> QED BY <2>1
<1>2. CASE k \in DOMAIN bs.index /\ nk \notin DOMAIN bs.index
  <2> DEFINE rs      == Renamed(bs, k, f, n)
             D       == DOMAIN bs.index
             kept    == {x \in D : ~Under(x, k)}
             rekeyed == {Retitled(x, f, n) : x \in D \ kept}
             R       == bs.index[k]
             P       == {rs.cell[i] : i \in DOMAIN rs.cell}
  <2>a. /\ DOMAIN bs = {"cell", "list", "index"}
        /\ bs.cell \in Seq({bs.cell[i] : i \in DOMAIN bs.cell})
        /\ \A i \in DOMAIN bs.cell : IsBinding(bs.cell[i])
        /\ bs.list \subseteq DOMAIN bs.cell
        /\ \A x \in D : IsKey(x)
    BY DEF Table, WellFormed
  <2>b. /\ \A x \in D : bs.index[x] = {i \in bs.list : Under(bs.cell[i], x)}
        /\ \A i \in bs.list : KeysOf(bs.cell[i]) \subseteq D
        /\ \A i, j \in bs.list : bs.cell[i] = bs.cell[j] => i = j
    BY DEF Table, Consistent
  <2>c. \A x \in D : \A L \in Levels : L \subseteq DOMAIN x => KeyOf(x, L) \in D
    BY DEF Table, Nested
  <2>d. /\ DOMAIN rs = {"cell", "list", "index"} /\ rs.list = bs.list
        /\ rs.cell = [i \in DOMAIN bs.cell |->
                        IF i \in R THEN Retitled(bs.cell[i], f, n) ELSE bs.cell[i]]
        /\ DOMAIN rs.index = kept \cup rekeyed
        /\ \A x \in kept \ rekeyed : rs.index[x] = bs.index[x]
        /\ \A x \in rekeyed : rs.index[x] = bs.index[Retitled(x, f, k[f])]
    BY <1>2, RenamedIs
  <2>e. R = {i \in bs.list : Under(bs.cell[i], k)}
    BY <1>2, <2>b
  <2>f. /\ k \in D /\ nk \notin D /\ f \in DOMAIN k /\ DOMAIN k \in Levels
        /\ \A L \in Levels : f \in L => DOMAIN k \subseteq L
    BY <1>2 DEF Lowest
  <2>g. DOMAIN nk = DOMAIN k /\ nk = [g \in DOMAIN nk |-> nk[g]] /\ IsKey(nk)
    BY <2>f, RetitledIs DEF IsKey
  <2> HIDE DEF rs, R, nk
  \* Nothing lies under the new key: its own key would have been listed.
  <2>1. \A x \in D : ~Under(x, nk)
    <3> SUFFICES ASSUME NEW x \in D, Under(x, nk) PROVE FALSE
      OBVIOUS
    <3>1. DOMAIN k \subseteq DOMAIN x /\ \A g \in DOMAIN k : x[g] = nk[g]
      BY <2>g DEF Under
    <3>2. KeyOf(x, DOMAIN k) \in D
      BY <2>c, <2>f, <3>1
    <3> DEFINE q == KeyOf(x, DOMAIN k)
    <3>3. DOMAIN q = DOMAIN k /\ q = [g \in DOMAIN q |-> q[g]]
          /\ \A g \in DOMAIN k : q[g] = x[g]
      BY KeyOfIs DEF KeyOf
    <3> HIDE DEF q
    <3>4. q = nk
      BY <2>g, <3>1, <3>3, SameKey
    <3> QED BY <2>f, <3>2, <3>4 DEF q
  <2>2. \A i \in bs.list : ~Under(bs.cell[i], nk)
    BY <2>a, <2>b, <2>f, <2>g, OwnKeys
  <2>3. \A x : Under(x, k) => Under(Retitled(x, f, n), nk)
    BY <2>f, RetitledUnder DEF nk
  <2>4. kept \cap rekeyed = {}
    BY <2>1, <2>3
  <2>5. /\ \A x \in kept : rs.index[x] = bs.index[x]
        /\ \A y \in D : Under(y, k) =>
             /\ Retitled(y, f, n) \in rekeyed
             /\ rs.index[Retitled(y, f, n)] = bs.index[y]
    <3>1. \A x \in kept : rs.index[x] = bs.index[x]
      BY <2>4, <2>d
    <3>2. ASSUME NEW y \in D, Under(y, k)
          PROVE  /\ Retitled(y, f, n) \in rekeyed
                 /\ rs.index[Retitled(y, f, n)] = bs.index[y]
      <4>1. Retitled(y, f, n) \in rekeyed
        BY <3>2
      <4>2. f \in DOMAIN y /\ y[f] = k[f] /\ y = [g \in DOMAIN y |-> y[g]]
        BY <2>a, <2>f, <3>2 DEF Under, IsKey
      <4>3. Retitled(Retitled(y, f, n), f, k[f]) = y
        BY <4>2, RetitledBack
      <4> QED BY <2>d, <4>1, <4>3
    <3> QED BY <3>1, <3>2
  <2>6. /\ R \subseteq bs.list
        /\ \A i \in bs.list : i \in R <=> Under(bs.cell[i], k)
        /\ \A i \in R : rs.cell[i] = Retitled(bs.cell[i], f, n)
        /\ \A i \in DOMAIN bs.cell \ R : rs.cell[i] = bs.cell[i]
        /\ DOMAIN rs.cell = DOMAIN bs.cell
    BY <2>a, <2>d, <2>e
  <2>7. \A i \in R : Under(rs.cell[i], nk)
    BY <2>3, <2>6
  <2>8. Len(rs.cell) = Len(bs.cell) /\ rs.cell \in Seq(P)
    <3>1. DOMAIN bs.cell = 1..Len(bs.cell) /\ Len(bs.cell) \in Nat
      BY <2>a
    <3> DEFINE c == rs.cell
    <3>2. DOMAIN c = 1..Len(bs.cell) /\ c = [i \in 1..Len(bs.cell) |-> c[i]]
      BY <2>d, <3>1
    <3>3. P = {c[i] : i \in DOMAIN c}
      OBVIOUS
    <3> HIDE DEF c, P
    <3>4. c \in Seq(P)
      <4>1. c \in [1..Len(bs.cell) -> P]
        BY <3>2, <3>3
      <4> QED BY <3>1, <4>1
    <3> QED BY <3>1, <3>2, <3>4 DEF c
  <2>16. WellFormed(rs)
    <3>2. \A i \in DOMAIN rs.cell : IsBinding(rs.cell[i])
      <4> TAKE i \in DOMAIN rs.cell
      <4>1. IsBinding(bs.cell[i])
        BY <2>a, <2>6
      <4>2. CASE i \in R
        <5>1. f \in Fields
          BY <2>f, LevelFields
        <5>2. IsBinding(Retitled(bs.cell[i], f, n))
          BY <4>1, <5>1, RetitledIs DEF IsBinding
        <5> QED BY <2>6, <4>2, <5>2
      <4> QED BY <2>6, <4>1, <4>2
    <3>3. \A x \in DOMAIN rs.index : IsKey(x)
      <4>1. ASSUME NEW y \in D, Under(y, k)
            PROVE  IsKey(Retitled(y, f, n))
        <5>1. f \in DOMAIN y /\ DOMAIN y \in Levels
          BY <2>a, <2>f, <4>1 DEF Under, IsKey
        <5> QED BY <5>1, RetitledIs DEF IsKey
      <4> QED BY <2>a, <2>d, <4>1
    <3>4. rs.list \subseteq DOMAIN rs.cell
      BY <2>a, <2>d, <2>6
    <3> QED BY <2>d, <2>8, <3>2, <3>3, <3>4 DEF WellFormed
  <2>9. ASSUME NEW x \in kept
        PROVE  rs.index[x] = {i \in rs.list : Under(rs.cell[i], x)}
    <3>1. \A i \in bs.list \ R : rs.cell[i] = bs.cell[i]
      BY <2>a, <2>6
    <3>2. ASSUME NEW i \in R
          PROVE  Under(rs.cell[i], x) <=> Under(bs.cell[i], x)
      <4>1. Under(bs.cell[i], k) /\ rs.cell[i] = Retitled(bs.cell[i], f, n)
        BY <2>6, <3>2
      <4>2. CASE f \notin DOMAIN x
        BY <2>f, <4>1, <4>2, RetitledUnder
      <4>3. CASE f \in DOMAIN x
        <5>1. DOMAIN k \subseteq DOMAIN x
          BY <2>a, <2>f, <4>3 DEF IsKey
        <5>2. ~Under(bs.cell[i], x)
          BY <4>1, <5>1, UnderBoth
        <5>3. ~Under(rs.cell[i], x)
          BY <2>1, <2>7, <2>g, <5>1, UnderBoth
        <5> QED BY <5>2, <5>3
      <4> QED BY <4>2, <4>3, Zenon
    <3>3. \A i \in bs.list : Under(rs.cell[i], x) <=> Under(bs.cell[i], x)
      BY <3>1, <3>2
    <3>4. rs.index[x] = {i \in bs.list : Under(bs.cell[i], x)}
      BY <2>5, <2>b
    <3> QED BY <2>d, <3>3, <3>4
  <2>10. ASSUME NEW y \in D, Under(y, k)
         PROVE  rs.index[Retitled(y, f, n)]
                  = {i \in rs.list : Under(rs.cell[i], Retitled(y, f, n))}
    <3> DEFINE z == Retitled(y, f, n)
    <3>1. Under(z, nk)
      BY <2>3, <2>10
    <3> HIDE DEF z
    <3>2. ASSUME NEW i \in R
          PROVE  Under(rs.cell[i], z) <=> Under(bs.cell[i], y)
      <4>1. Under(bs.cell[i], k) /\ rs.cell[i] = Retitled(bs.cell[i], f, n)
        BY <2>6, <3>2
      <4>2. Under(Retitled(bs.cell[i], f, n), Retitled(y, f, n))
              <=> Under(bs.cell[i], y)
        BY <2>f, <2>10, <4>1, RetitledUnder
      <4> QED BY <4>1, <4>2 DEF z
    <3>3. ASSUME NEW i \in bs.list \ R
          PROVE  ~Under(rs.cell[i], z) /\ ~Under(bs.cell[i], y)
      <4>1. rs.cell[i] = bs.cell[i] /\ ~Under(bs.cell[i], k)
        BY <2>a, <2>6, <3>3
      <4>2. ~Under(bs.cell[i], y)
        BY <2>10, <4>1, UnderTransitive
      <4>3. ~Under(bs.cell[i], z)
        BY <2>2, <3>1, UnderTransitive
      <4> QED BY <4>1, <4>2, <4>3
    <3>4. rs.index[z] = {i \in bs.list : Under(bs.cell[i], y)}
      BY <2>5, <2>10, <2>b DEF z
    <3>5. \A i \in bs.list : Under(rs.cell[i], z) <=> Under(bs.cell[i], y)
      BY <3>2, <3>3
    <3>6. rs.index[z] = {i \in rs.list : Under(rs.cell[i], z)}
      BY <2>d, <3>4, <3>5
    <3> QED BY <3>6 DEF z
  \* Kept and renamed keys, from those before.
  <2>11. /\ \A x \in D : ~Under(x, k) => x \in DOMAIN rs.index
         /\ \A y \in D : Under(y, k) => Retitled(y, f, n) \in DOMAIN rs.index
    BY <2>d
  <2>12. ASSUME NEW i \in rs.list
         PROVE  KeysOf(rs.cell[i]) \subseteq DOMAIN rs.index
    <3> SUFFICES ASSUME NEW L \in Levels
                 PROVE  KeyOf(rs.cell[i], L) \in DOMAIN rs.index
      BY DEF KeysOf
    <3>1. /\ i \in bs.list /\ L \subseteq DOMAIN bs.cell[i]
          /\ KeyOf(bs.cell[i], L) \in D
      BY <2>a, <2>b, <2>d, LevelFields, OwnKeys DEF IsBinding
    <3>2. CASE i \in R
      <4>1. Under(bs.cell[i], k) /\ rs.cell[i] = Retitled(bs.cell[i], f, n)
        BY <2>6, <3>2
      <4> QED BY <2>11, <3>1, <4>1, RetitledKeys
    <3>3. CASE i \notin R
      <4>1. rs.cell[i] = bs.cell[i] /\ ~Under(bs.cell[i], k)
        BY <2>a, <2>6, <3>1, <3>3
      <4>2. ~Under(KeyOf(bs.cell[i], L), k)
        BY <3>1, <4>1, UnderOwn, UnderTransitive
      <4> QED BY <2>11, <3>1, <4>1, <4>2
    <3> QED BY <3>2, <3>3, Zenon
  <2>13. ASSUME NEW i \in rs.list, NEW j \in rs.list, rs.cell[i] = rs.cell[j]
         PROVE  i = j
    <3>0. i \in bs.list /\ j \in bs.list
      BY <2>d
    <3>1. i \in R <=> j \in R
      <4>1. \A h \in bs.list \ R : ~Under(rs.cell[h], nk)
        BY <2>a, <2>2, <2>6
      <4> QED BY <2>7, <2>13, <3>0, <4>1
    <3>2. bs.cell[i] = bs.cell[j]
      <4>1. CASE i \in R
        <5>1. \A h \in R : /\ f \in DOMAIN bs.cell[h] /\ bs.cell[h][f] = k[f]
                           /\ bs.cell[h] = [g \in DOMAIN bs.cell[h] |-> bs.cell[h][g]]
          <6> TAKE h \in R
          <6>1. Under(bs.cell[h], k) /\ IsBinding(bs.cell[h])
            BY <2>a, <2>6
          <6> QED BY <2>f, <6>1 DEF Under, IsBinding
        <5>2. \A h \in R : Retitled(rs.cell[h], f, k[f]) = bs.cell[h]
          <6> TAKE h \in R
          <6> DEFINE c == bs.cell[h]
          <6>1. f \in DOMAIN c /\ c[f] = k[f] /\ c = [g \in DOMAIN c |-> c[g]]
            BY <5>1
          <6> HIDE DEF c
          <6>2. Retitled(Retitled(c, f, n), f, k[f]) = c
            <7>1. Retitled(Retitled(c, f, n), f, c[f]) = c
              BY <6>1, RetitledBack
            <7> QED BY <6>1, <7>1
          <6> QED BY <2>6, <6>2 DEF c
        <5> QED BY <2>13, <3>1, <4>1, <5>2
      <4>2. CASE i \notin R
        BY <2>a, <2>6, <2>13, <3>0, <3>1, <4>2
      <4> QED BY <4>1, <4>2, Zenon
    <3> QED BY <2>b, <3>0, <3>2
  <2>14. Consistent(rs)
    <3>1. \A x \in DOMAIN rs.index :
            rs.index[x] = {i \in rs.list : Under(rs.cell[i], x)}
      BY <2>d, <2>9, <2>10, SMTT(30)
    <3>2. \A i \in rs.list : KeysOf(rs.cell[i]) \subseteq DOMAIN rs.index
      BY <2>12
    <3>3. \A i, j \in rs.list : rs.cell[i] = rs.cell[j] => i = j
      BY <2>13
    <3> QED BY <3>1, <3>2, <3>3 DEF Consistent
  <2>15. Nested(rs)
    <3> SUFFICES ASSUME NEW x \in DOMAIN rs.index, NEW L \in Levels,
                        L \subseteq DOMAIN x
                 PROVE  KeyOf(x, L) \in DOMAIN rs.index
      BY DEF Nested
    <3>1. CASE x \in kept
      <4>1. KeyOf(x, L) \in D
        BY <2>c, <3>1
      <4>2. ~Under(KeyOf(x, L), k)
        BY <3>1, UnderOwn, UnderTransitive
      <4> QED BY <2>11, <4>1, <4>2
    <3>2. ASSUME NEW y \in D, Under(y, k), x = Retitled(y, f, n)
          PROVE  KeyOf(x, L) \in DOMAIN rs.index
      <4>1. f \in DOMAIN y
        BY <2>f, <3>2 DEF Under
      <4>2. DOMAIN y = DOMAIN x
        BY <3>2, <4>1, RetitledIs
      <4>3. L \subseteq DOMAIN y /\ KeyOf(y, L) \in D
        BY <2>c, <4>2
      <4>4. /\ f \in L => /\ Under(KeyOf(y, L), k)
                          /\ KeyOf(x, L) = Retitled(KeyOf(y, L), f, n)
            /\ f \notin L => /\ ~Under(KeyOf(y, L), k)
                             /\ KeyOf(x, L) = KeyOf(y, L)
        BY <3>2, <4>3, RetitledKeys
      <4> QED BY <2>11, <4>3, <4>4
    <3> QED BY <2>d, <3>1, <3>2
  <2> QED BY <2>8, <2>14, <2>15, <2>16 DEF Table, rs
<1> QED BY <1>1, <1>2


\* The names a rename gives are the last of an index's level.
LEMMA RenamesTable ==
  ASSUME NEW bs, Table(bs), NEW c, NEW w, NEW p, NEW o, NEW n
  PROVE  /\ \A rs \in {RenamedConnection(bs, o, n), RenamedVariable(bs, c, o, n),
                       RenamedView(bs, o, n), RenamedPanel(bs, w, o, n),
                       RenamedTemplate(bs, w, p, o, n)} :
              Table(rs) /\ Len(rs.cell) = Len(bs.cell)
<1>1. Lowest([conn |-> o], "conn")
  BY DEF Lowest, Levels, ConnLevel, VarLevel, ViewLevel, PanelLevel, TemplLevel
<1>2. Lowest([conn |-> c, var |-> o], "var")
  BY DEF Lowest, Levels, ConnLevel, VarLevel, ViewLevel, PanelLevel, TemplLevel
<1>3. Lowest([view |-> o], "view")
  BY DEF Lowest, Levels, ConnLevel, VarLevel, ViewLevel, PanelLevel, TemplLevel
<1>4. Lowest([view |-> w, panel |-> o], "panel")
  BY DEF Lowest, Levels, ConnLevel, VarLevel, ViewLevel, PanelLevel, TemplLevel
<1>5. Lowest([view |-> w, panel |-> p, templ |-> o], "templ")
  BY DEF Lowest, Levels, ConnLevel, VarLevel, ViewLevel, PanelLevel, TemplLevel
<1>6. \A rs : rs = RenamedConnection(bs, o, n) =>
        Table(rs) /\ Len(rs.cell) = Len(bs.cell)
  BY <1>1, RenamedTable DEF RenamedConnection
<1>7. \A rs : rs = RenamedVariable(bs, c, o, n) =>
        Table(rs) /\ Len(rs.cell) = Len(bs.cell)
  BY <1>2, RenamedTable DEF RenamedVariable
<1>8. \A rs : rs = RenamedView(bs, o, n) =>
        Table(rs) /\ Len(rs.cell) = Len(bs.cell)
  BY <1>3, RenamedTable DEF RenamedView
<1>9. \A rs : rs = RenamedPanel(bs, w, o, n) =>
        Table(rs) /\ Len(rs.cell) = Len(bs.cell)
  BY <1>4, RenamedTable DEF RenamedPanel
<1>10. \A rs : rs = RenamedTemplate(bs, w, p, o, n) =>
        Table(rs) /\ Len(rs.cell) = Len(bs.cell)
  BY <1>5, RenamedTable DEF RenamedTemplate
<1> QED BY <1>6, <1>7, <1>8, <1>9, <1>10, Zenon

-----------------------------------------------------------------------------
(***************************************************************************)
(* A command executed, undone or redone makes a table of the table, with   *)
(* the same objects, and keeps objects of it.                              *)
(***************************************************************************)
IsProject(prj) == DOMAIN prj = {"conns", "views", "bs"} /\ Table(prj.bs)
Objects(prj)   == Len(prj.bs.cell)

\* The project q is a project with the objects of prj.
Remade(prj, q) == IsProject(q) /\ Objects(q) = Objects(prj)

\* Connections and views may be anything here; so may what the fields of a
\* table are made of.
LEMMA StructureSet ==
  ASSUME NEW prj, IsProject(prj), NEW e
  PROVE  /\ Remade(prj, [prj EXCEPT !.conns = e])
         /\ [prj EXCEPT !.conns = e].bs = prj.bs
         /\ Remade(prj, [prj EXCEPT !.views = e])
         /\ [prj EXCEPT !.views = e].bs = prj.bs
BY DEF IsProject, Remade, Objects

LEMMA PartsSet ==
  ASSUME NEW prj, IsProject(prj), NEW w, NEW p, NEW e
  PROVE  /\ Remade(prj, SetVars(prj, w, e)) /\ SetVars(prj, w, e).bs = prj.bs
         /\ Remade(prj, SetPanels(prj, w, e)) /\ SetPanels(prj, w, e).bs = prj.bs
         /\ Remade(prj, SetTemplates(prj, w, p, e))
         /\ SetTemplates(prj, w, p, e).bs = prj.bs
BY StructureSet DEF SetVars, SetPanels, SetTemplates

LEMMA TableSet ==
  ASSUME NEW prj, IsProject(prj), NEW bs, Table(bs), Len(bs.cell) = Objects(prj)
  PROVE  Remade(prj, [prj EXCEPT !.bs = bs])
BY DEF IsProject, Remade, Objects

LEMMA Cells ==
  ASSUME NEW prj, IsProject(prj)
  PROVE  /\ Objects(prj) \in Nat /\ DOMAIN prj.bs.cell = 1..Objects(prj)
         /\ prj.bs.list \subseteq 1..Objects(prj)
BY DEF IsProject, Objects, Table, WellFormed

LEMMA UnboundRemade ==
  ASSUME NEW prj, IsProject(prj), NEW S
  PROVE  Remade(prj, Unbound(prj, S))
<1> DEFINE rs == RemovedAll(prj.bs, S)
<1>1. Table(rs) /\ Len(rs.cell) = Objects(prj)
  BY RemovedAllTable DEF IsProject, Objects
<1> HIDE DEF rs
<1>2. Remade(prj, [prj EXCEPT !.bs = rs])
  BY <1>1, TableSet
<1> QED BY <1>2 DEF Unbound, rs

LEMMA BoundRemade ==
  ASSUME NEW prj, IsProject(prj), NEW S, S \subseteq 1..Objects(prj)
  PROVE  Remade(prj, Bound(prj, S))
<1> DEFINE as == AddedAll(prj.bs, S)
<1>1. Table(as) /\ Len(as.cell) = Objects(prj)
  BY AddedAllTable, Cells DEF IsProject, Objects
<1> HIDE DEF as
<1>2. Remade(prj, [prj EXCEPT !.bs = as])
  BY <1>1, TableSet
<1> QED BY <1>2 DEF Bound, as

\* What the look-ups find are objects of the project.
LEMMA Found ==
  ASSUME NEW prj, IsProject(prj)
  PROVE  /\ \A k : Listed(prj.bs, k) \subseteq 1..Objects(prj)
         /\ \A c : ByConnection(prj.bs, c) \subseteq 1..Objects(prj)
         /\ \A c, v : ByVariable(prj.bs, c, v) \subseteq 1..Objects(prj)
         /\ \A w, p, t : ByTemplate(prj.bs, w, p, t) \subseteq 1..Objects(prj)
         /\ \A w, p, ts : OfTemplates(prj.bs, w, p, ts) \subseteq 1..Objects(prj)
         /\ \A w, ps : OfPanels(prj.bs, w, ps) \subseteq 1..Objects(prj)
<1>1. \A k : Listed(prj.bs, k) \subseteq 1..Objects(prj)
  BY Cells DEF IsProject, Table, Consistent, Listed
<1>2. \A c : ByConnection(prj.bs, c) \subseteq 1..Objects(prj)
  BY <1>1 DEF ByConnection
<1>3. \A c, v : ByVariable(prj.bs, c, v) \subseteq 1..Objects(prj)
  BY <1>1 DEF ByVariable
<1>4. \A w, p, t : ByTemplate(prj.bs, w, p, t) \subseteq 1..Objects(prj)
  BY <1>1 DEF ByTemplate
<1>5. \A w, p, ts : OfTemplates(prj.bs, w, p, ts) \subseteq 1..Objects(prj)
  BY <1>4 DEF OfTemplates
<1>6. \A w, ps : OfPanels(prj.bs, w, ps) \subseteq 1..Objects(prj)
  BY <1>5 DEF OfPanels
<1> QED BY <1>1, <1>2, <1>3, <1>4, <1>5, <1>6


\* A command's step is sound: it makes a project with the same objects, and a
\* command that keeps some of them.
Steps(prj, r) == Remade(prj, r.prj) /\ Keeps(r.cmd, Objects(prj))

LEMMA StepIs ==
  ASSUME NEW prj, NEW cmd, NEW q, NEW wrong
  PROVE  Steps(prj, Result(cmd, q, wrong))
           <=> Remade(prj, q) /\ Keeps(cmd, Objects(prj))
BY DEF Steps, Result

\* What a command keeps besides bindings may change.
LEMMA KeepsStill ==
  ASSUME NEW cmd, NEW n, Keeps(cmd, n), NEW v
  PROVE  /\ Keeps([cmd EXCEPT !.c = v], n)
         /\ cmd.kind # "ChangeBinding" => Keeps([cmd EXCEPT !.old = v], n)
         /\ Keeps([cmd EXCEPT !.view = v], n)
         /\ Keeps([cmd EXCEPT !.panel = v], n)
         /\ Keeps([cmd EXCEPT !.ts = v], n)
         /\ Keeps([cmd EXCEPT !.pos = v], n)
         /\ v \subseteq 1..n => Keeps([cmd EXCEPT !.bl = v], n)
BY DEF Keeps

LEMMA RemadeAgain ==
  ASSUME NEW prj, NEW q, NEW s, Remade(prj, q), Remade(q, s)
  PROVE  Remade(prj, s)
BY DEF Remade

\* Bindings put back into what was made of a project.
LEMMA BoundAgain ==
  ASSUME NEW prj, NEW q, Remade(prj, q), NEW S, S \subseteq 1..Objects(prj)
  PROVE  Remade(prj, Bound(q, S))
BY BoundRemade DEF Remade

LEMMA UnboundAgain ==
  ASSUME NEW prj, NEW q, Remade(prj, q), NEW S
  PROVE  Remade(prj, Unbound(q, S))
BY UnboundRemade DEF Remade

-----------------------------------------------------------------------------
LEMMA ConnectionSteps ==
  ASSUME NEW prj, IsProject(prj), NEW cmd, Keeps(cmd, Objects(prj))
  PROVE  /\ Steps(prj, RedoAddConnection(cmd, prj))
         /\ Steps(prj, UndoAddConnection(cmd, prj))
         /\ cmd.kind = "Reimport" => Steps(prj, RedoReimport(cmd, prj))
         /\ cmd.kind = "Reimport" => Steps(prj, UndoReimport(cmd, prj))
         /\ Steps(prj, RedoDelConnection(cmd, prj))
         /\ cmd.kind = "DelConnection" => Steps(prj, UndoDelConnection(cmd, prj))
         /\ \A o, n : Steps(prj, ConnectionRenamed(cmd, prj, o, n))
<1>1. Steps(prj, RedoAddConnection(cmd, prj))
  BY StepIs, StructureSet DEF RedoAddConnection
<1>2. Steps(prj, UndoAddConnection(cmd, prj))
  BY StepIs, StructureSet, KeepsStill DEF UndoAddConnection
<1>3. Steps(prj, RedoDelConnection(cmd, prj))
  BY StepIs, StructureSet DEF RedoDelConnection
<1>4. ASSUME cmd.kind = "DelConnection"
      PROVE  Steps(prj, UndoDelConnection(cmd, prj))
  <2>1. cmd.bl \subseteq 1..Objects(prj)
    BY <1>4 DEF Keeps, Keepers
  <2>2. \A e : Remade(prj, Bound([prj EXCEPT !.conns = e], cmd.bl))
    BY <2>1, StructureSet, BoundAgain
  <2> QED BY <2>2, StepIs DEF UndoDelConnection
<1>5. ASSUME cmd.kind = "Reimport"
      PROVE  /\ Steps(prj, RedoReimport(cmd, prj))
             /\ Steps(prj, UndoReimport(cmd, prj))
  <2>1. cmd.bl \subseteq 1..Objects(prj) /\ cmd.blOld \subseteq 1..Objects(prj)
    BY <1>5 DEF Keeps, Keepers
  <2> DEFINE bare == Unbound(prj, ByConnection(prj.bs, cmd.cn))
  <2>2. Remade(prj, bare)
    BY UnboundRemade
  <2> HIDE DEF bare
  <2>3. \A e : Remade(prj, [bare EXCEPT !.conns = e])
    BY <2>2, StructureSet, RemadeAgain DEF Remade
  <2>4. \A e, S : S \subseteq 1..Objects(prj) =>
                    Remade(prj, Bound([bare EXCEPT !.conns = e], S))
    BY <2>3, BoundAgain
  <2>5. Steps(prj, RedoReimport(cmd, prj))
    BY <1>5, <2>1, <2>4, KeepsStill, StepIs DEF RedoReimport, bare
  <2>6. Steps(prj, UndoReimport(cmd, prj))
    BY <2>1, <2>4, KeepsStill, StepIs DEF UndoReimport, bare
  <2> QED BY <2>5, <2>6
<1>6. ASSUME NEW o, NEW n
      PROVE  Steps(prj, ConnectionRenamed(cmd, prj, o, n))
  <2> DEFINE rs == RenamedConnection(prj.bs, o, n)
  <2>1. Table(rs) /\ Len(rs.cell) = Objects(prj)
    BY RenamesTable DEF IsProject, Objects
  <2> HIDE DEF rs
  <2>2. \A e : Remade(prj, [prj EXCEPT !.conns = e, !.bs = rs])
    BY <2>1 DEF Remade, IsProject, Objects
  <2> QED BY <2>2, StepIs DEF ConnectionRenamed, rs
<1> QED BY <1>1, <1>2, <1>3, <1>4, <1>5, <1>6

LEMMA VariableSteps ==
  ASSUME NEW prj, IsProject(prj), NEW cmd, Keeps(cmd, Objects(prj))
  PROVE  /\ Steps(prj, RedoAddVariable(cmd, prj))
         /\ Steps(prj, UndoAddVariable(cmd, prj))
         /\ Steps(prj, RedoDelVariable(cmd, prj))
         /\ cmd.kind = "DelVariable" => Steps(prj, UndoDelVariable(cmd, prj))
         /\ \A o, n : Steps(prj, VariableRenamed(cmd, prj, o, n))
<1>1. Steps(prj, RedoAddVariable(cmd, prj))
  BY StepIs, PartsSet DEF RedoAddVariable
<1>2. Steps(prj, UndoAddVariable(cmd, prj))
  BY StepIs, PartsSet DEF UndoAddVariable
<1>3. Steps(prj, RedoDelVariable(cmd, prj))
  BY StepIs, PartsSet DEF RedoDelVariable
<1>4. ASSUME cmd.kind = "DelVariable"
      PROVE  Steps(prj, UndoDelVariable(cmd, prj))
  <2>1. cmd.bl \subseteq 1..Objects(prj)
    BY <1>4 DEF Keeps, Keepers
  <2>2. \A c, e : Remade(prj, Bound(SetVars(prj, c, e), cmd.bl))
    BY <2>1, PartsSet, BoundAgain
  <2> QED BY <2>2, StepIs DEF UndoDelVariable
<1>5. ASSUME NEW o, NEW n
      PROVE  Steps(prj, VariableRenamed(cmd, prj, o, n))
  <2> DEFINE rs == RenamedVariable(prj.bs, cmd.cn, o, n)
             vd == VarsOf(prj, cmd.cn)
             q  == SetVars(prj, cmd.cn, PutAt(Drop(vd, o), n, At(vd, o), IndexOf(vd, o)))
  <2>1. Table(rs) /\ Len(rs.cell) = Objects(prj)
    BY RenamesTable DEF IsProject, Objects
  <2>2. Remade(prj, q) /\ q.bs = prj.bs
    BY PartsSet
  <2>3. VariableRenamed(cmd, prj, o, n).prj = [q EXCEPT !.bs = rs]
        /\ VariableRenamed(cmd, prj, o, n).cmd = cmd
    BY <2>2 DEF VariableRenamed, Result
  <2> HIDE DEF rs, q
  <2>4. Remade(prj, [q EXCEPT !.bs = rs])
    BY <2>1, <2>2, TableSet, RemadeAgain DEF Remade
  <2> QED BY <2>3, <2>4 DEF Steps
<1> QED BY <1>1, <1>2, <1>3, <1>4, <1>5


LEMMA ViewSteps ==
  ASSUME NEW prj, IsProject(prj), NEW cmd, Keeps(cmd, Objects(prj))
  PROVE  /\ Steps(prj, RedoAddView(cmd, prj))
         /\ Steps(prj, UndoAddView(cmd, prj))
         /\ Steps(prj, RedoDelView(cmd, prj))
         /\ cmd.kind = "DelView" => Steps(prj, UndoDelView(cmd, prj))
         /\ \A o, n : Steps(prj, ViewRenamed(cmd, prj, o, n))
         /\ \A i, j : Steps(prj, ViewMoved(cmd, prj, i, j))
<1>1. Steps(prj, RedoAddView(cmd, prj))
  BY StepIs, StructureSet DEF RedoAddView
<1>2. Steps(prj, UndoAddView(cmd, prj))
  <2>1. ASSUME NEW S, NEW e
        PROVE  Remade(prj, [Unbound(prj, S) EXCEPT !.views = e])
    <3> DEFINE q == Unbound(prj, S)
    <3>1. Remade(prj, q)
      BY UnboundRemade
    <3> HIDE DEF q
    <3>2. Remade(q, [q EXCEPT !.views = e])
      BY <3>1, StructureSet DEF Remade
    <3>3. Remade(prj, [q EXCEPT !.views = e])
      BY <3>1, <3>2, RemadeAgain
    <3> QED BY <3>3 DEF q
  <2> QED BY <2>1, StepIs, KeepsStill DEF UndoAddView
<1>3. Steps(prj, RedoDelView(cmd, prj))
  <2>1. \A v : Keeps([cmd EXCEPT !.view = v, !.bl = {}], Objects(prj))
    BY DEF Keeps
  <2> QED BY <2>1, StepIs, StructureSet DEF RedoDelView
<1>4. ASSUME cmd.kind = "DelView"
      PROVE  Steps(prj, UndoDelView(cmd, prj))
  <2>1. cmd.bl \subseteq 1..Objects(prj)
    BY <1>4 DEF Keeps, Keepers
  <2>2. \A e : Remade(prj, Bound([prj EXCEPT !.views = e], cmd.bl))
    BY <2>1, StructureSet, BoundAgain
  <2> QED BY <2>2, StepIs DEF UndoDelView
<1>5. ASSUME NEW o, NEW n
      PROVE  Steps(prj, ViewRenamed(cmd, prj, o, n))
  <2> DEFINE rs == RenamedView(prj.bs, o, n)
  <2>1. Table(rs) /\ Len(rs.cell) = Objects(prj)
    BY RenamesTable DEF IsProject, Objects
  <2> HIDE DEF rs
  <2>2. \A e : Remade(prj, [prj EXCEPT !.views = e, !.bs = rs])
    BY <2>1 DEF Remade, IsProject, Objects
  <2> QED BY <2>2, StepIs DEF ViewRenamed, rs
<1>6. ASSUME NEW i, NEW j
      PROVE  Steps(prj, ViewMoved(cmd, prj, i, j))
  BY StepIs, StructureSet DEF ViewMoved
<1> QED BY <1>1, <1>2, <1>3, <1>4, <1>5, <1>6

LEMMA PanelSteps ==
  ASSUME NEW prj, IsProject(prj), NEW cmd, Keeps(cmd, Objects(prj))
  PROVE  /\ Steps(prj, RedoAddPanel(cmd, prj))
         /\ Steps(prj, UndoAddPanel(cmd, prj))
         /\ Steps(prj, RedoDelPanel(cmd, prj))
         /\ cmd.kind = "DelPanel" => Steps(prj, UndoDelPanel(cmd, prj))
         /\ \A o, n : Steps(prj, PanelRenamed(cmd, prj, o, n))
         /\ \A p : Steps(prj, PanelMoved(cmd, prj, p))
<1>1. Steps(prj, RedoAddPanel(cmd, prj))
  BY StepIs, PartsSet DEF RedoAddPanel
<1>2. Steps(prj, UndoAddPanel(cmd, prj))
  <2>1. \A w, e, S : Remade(prj, Unbound(SetPanels(prj, w, e), S))
    BY PartsSet, UnboundAgain
  <2> QED BY <2>1, StepIs, KeepsStill DEF UndoAddPanel
<1>3. Steps(prj, RedoDelPanel(cmd, prj))
  <2>1. \A v : Keeps([cmd EXCEPT !.panel = v, !.bl = {}], Objects(prj))
    BY DEF Keeps
  <2> QED BY <2>1, StepIs, PartsSet DEF RedoDelPanel
<1>4. ASSUME cmd.kind = "DelPanel"
      PROVE  Steps(prj, UndoDelPanel(cmd, prj))
  <2>1. cmd.bl \subseteq 1..Objects(prj)
    BY <1>4 DEF Keeps, Keepers
  <2>2. \A w, e : Remade(prj, Bound(SetPanels(prj, w, e), cmd.bl))
    BY <2>1, PartsSet, BoundAgain
  <2> QED BY <2>2, StepIs DEF UndoDelPanel
<1>5. ASSUME NEW o, NEW n
      PROVE  Steps(prj, PanelRenamed(cmd, prj, o, n))
  <2> DEFINE rs == RenamedPanel(prj.bs, cmd.view, o, n)
  <2>1. Table(rs) /\ Len(rs.cell) = Objects(prj)
    BY RenamesTable DEF IsProject, Objects
  <2> HIDE DEF rs
  <2>2. \A w, e : Remade(prj, [SetPanels(prj, w, e) EXCEPT !.bs = rs])
    BY <2>1, PartsSet, TableSet, RemadeAgain DEF Remade
  <2> DEFINE pm    == PanelsOf(prj, cmd.view)
             moved == MoveTo(AddNew(Drop(pm, o), n, At(pm, o)), n, cmd.pos)
             ps    == [i \in DOMAIN moved |->
                         Entry(moved[i].key, Relinked(moved[i].val, o, n))]
             q     == SetPanels(prj, cmd.view, ps)
  <2>3. /\ PanelRenamed(cmd, prj, o, n).prj
             = [q EXCEPT !.bs = RenamedPanel(q.bs, cmd.view, o, n)]
        /\ PanelRenamed(cmd, prj, o, n).cmd = cmd
    BY DEF PanelRenamed, Result
  <2> HIDE DEF ps
  <2>4. q.bs = prj.bs
    BY PartsSet
  <2>5. PanelRenamed(cmd, prj, o, n).prj = [q EXCEPT !.bs = rs]
    BY <2>3, <2>4 DEF rs
  <2> QED BY <2>2, <2>3, <2>5 DEF Steps
<1>6. ASSUME NEW p
      PROVE  Steps(prj, PanelMoved(cmd, prj, p))
  BY StepIs, PartsSet DEF PanelMoved
<1> QED BY <1>1, <1>2, <1>3, <1>4, <1>5, <1>6

LEMMA TemplateSteps ==
  ASSUME NEW prj, IsProject(prj), NEW cmd, Keeps(cmd, Objects(prj))
  PROVE  /\ cmd.kind = "AddSelection" => Steps(prj, RedoAddSelection(cmd, prj))
         /\ Steps(prj, UndoAddSelection(cmd, prj))
         /\ Steps(prj, RedoDelSelection(cmd, prj))
         /\ cmd.kind = "DelSelection" => Steps(prj, UndoDelSelection(cmd, prj))
         /\ \A o, n : Steps(prj, TemplateRenamed(cmd, prj, o, n))
         /\ \A t : Steps(prj, TemplateMoved(cmd, prj, t))
         /\ \A n : Steps(prj, LinkSet(cmd, prj, n))
         /\ cmd.kind = "ChangeBinding" =>
              /\ Steps(prj, BindingSwitched(cmd, prj, cmd.old, cmd.new))
              /\ Steps(prj, BindingSwitched(cmd, prj, cmd.new, cmd.old))
<1>1. ASSUME cmd.kind = "AddSelection"
      PROVE  Steps(prj, RedoAddSelection(cmd, prj))
  <2>1. cmd.bl \subseteq 1..Objects(prj)
    BY <1>1 DEF Keeps, Keepers
  <2>2. \A w, p, e : Remade(prj, Bound(SetTemplates(prj, w, p, e), cmd.bl))
    BY <2>1, PartsSet, BoundAgain
  <2> QED BY <2>2, StepIs DEF RedoAddSelection
<1>2. Steps(prj, UndoAddSelection(cmd, prj))
  <2>1. \A w, p, e, S : Remade(prj, Unbound(SetTemplates(prj, w, p, e), S))
    BY PartsSet, UnboundAgain
  <2> QED BY <2>1, StepIs, KeepsStill DEF UndoAddSelection
<1>3. Steps(prj, RedoDelSelection(cmd, prj))
  <2>1. \A w, p, e, S : Remade(prj, Unbound(SetTemplates(prj, w, p, e), S))
    BY PartsSet, UnboundAgain
  <2>2. \A u, v, S : S \subseteq 1..Objects(prj) =>
          Keeps([cmd EXCEPT !.ts = u, !.pos = v, !.bl = S], Objects(prj))
    BY DEF Keeps
  <2> QED BY <2>1, <2>2, Found, StepIs DEF RedoDelSelection
<1>4. ASSUME cmd.kind = "DelSelection"
      PROVE  Steps(prj, UndoDelSelection(cmd, prj))
  <2>1. cmd.bl \subseteq 1..Objects(prj)
    BY <1>4 DEF Keeps, Keepers
  <2>2. \A w, p, e : Remade(prj, Bound(SetTemplates(prj, w, p, e), cmd.bl))
    BY <2>1, PartsSet, BoundAgain
  <2>3. Keeps([cmd EXCEPT !.bl = {}], Objects(prj))
    BY KeepsStill
  <2> QED BY <2>2, <2>3, StepIs DEF UndoDelSelection
<1>5. ASSUME NEW o, NEW n
      PROVE  Steps(prj, TemplateRenamed(cmd, prj, o, n))
  <2> DEFINE rs == RenamedTemplate(prj.bs, cmd.view, cmd.panel, o, n)
  <2>1. Table(rs) /\ Len(rs.cell) = Objects(prj)
    BY RenamesTable DEF IsProject, Objects
  <2> HIDE DEF rs
  <2>2. \A w, p, e : Remade(prj, [SetTemplates(prj, w, p, e) EXCEPT !.bs = rs])
    BY <2>1, PartsSet, TableSet, RemadeAgain DEF Remade
  <2>3. PICK e : TemplateRenamed(cmd, prj, o, n).prj
                   = [SetTemplates(prj, cmd.view, cmd.panel, e) EXCEPT !.bs = rs]
    BY PartsSet DEF TemplateRenamed, Result, rs
  <2>4. TemplateRenamed(cmd, prj, o, n).cmd = cmd
    BY DEF TemplateRenamed, Result
  <2> QED BY <2>2, <2>3, <2>4 DEF Steps
<1>6. ASSUME NEW t
      PROVE  Steps(prj, TemplateMoved(cmd, prj, t))
  BY StepIs, PartsSet DEF TemplateMoved
<1>7. ASSUME NEW n
      PROVE  Steps(prj, LinkSet(cmd, prj, n))
  <2>1. Remade(prj, prj)
    BY DEF Remade
  <2> QED BY <2>1, StepIs, PartsSet DEF LinkSet
<1>8. ASSUME cmd.kind = "ChangeBinding"
      PROVE  /\ Steps(prj, BindingSwitched(cmd, prj, cmd.old, cmd.new))
             /\ Steps(prj, BindingSwitched(cmd, prj, cmd.new, cmd.old))
  <2>1. cmd.old \subseteq 1..Objects(prj) /\ cmd.new \subseteq 1..Objects(prj)
    BY <1>8 DEF Keeps
  <2> QED BY <2>1, UnboundRemade, BoundAgain, StepIs DEF BindingSwitched
<1> QED BY <1>1, <1>2, <1>3, <1>4, <1>5, <1>6, <1>7, <1>8

\* Executing a command again, and undoing it.
LEMMA CommandSteps ==
  ASSUME NEW prj, IsProject(prj), NEW cmd, Keeps(cmd, Objects(prj))
  PROVE  Steps(prj, Redone(cmd, prj)) /\ Steps(prj, Undone(cmd, prj))
<1>0. cmd.kind \in Kinds
  BY DEF Keeps
<1>1. CASE cmd.kind \in {"AddConnection", "Reimport", "DelConnection",
                         "RenameConnection"}
  BY <1>1, ConnectionSteps DEF Redone, Undone
<1>2. CASE cmd.kind \in {"AddVariable", "DelVariable", "RenameVariable"}
  BY <1>2, VariableSteps DEF Redone, Undone
<1>3. CASE cmd.kind \in {"AddView", "DelView", "RenameView", "ReorderView"}
  BY <1>3, ViewSteps DEF Redone, Undone
<1>4. CASE cmd.kind \in {"AddPanel", "DelPanel", "RenamePanel", "PanelOrder"}
  BY <1>4, PanelSteps DEF Redone, Undone
<1>5. CASE cmd.kind \in {"AddSelection", "DelSelection", "RenameTemplate",
                         "TabOrder", "SetLink", "ChangeBinding"}
  BY <1>5, TemplateSteps DEF Redone, Undone
<1> QED BY <1>0, <1>1, <1>2, <1>3, <1>4, <1>5 DEF Kinds, Renames, Keepers


-----------------------------------------------------------------------------
(***************************************************************************)
(* Nothing a command does makes a table of anything else.                  *)
(***************************************************************************)
LEMMA KeepsMore ==
  ASSUME NEW cmd, NEW n \in Nat, NEW m \in Nat, n <= m, Keeps(cmd, n)
  PROVE  Keeps(cmd, m)
<1>1. 1..n \subseteq 1..m
  OBVIOUS
<1> QED BY <1>1 DEF Keeps

LEMMA ListingIs ==
  ASSUME Listing
  PROVE  /\ IsProject(project)
         /\ \E T : stack \in Seq(T)
         /\ last \in 0..Len(stack) /\ Len(stack) \in Nat
         /\ DOMAIN stack = 1..Len(stack)
         /\ \A i \in 1..Len(stack) : Keeps(stack[i], Objects(project))
BY DEF Listing, IsProject, Objects

\* The stack's part of the invariant, and the project's.
Stacked ==
  /\ IsProject(project)
  /\ stack \in Seq({stack[i] : i \in DOMAIN stack}) /\ last \in 0..Len(stack)
  /\ \A i \in DOMAIN stack : Keeps(stack[i], Objects(project))


LEMMA Pushing ==
  ASSUME Listing, NEW prj, IsProject(prj), Objects(project) <= Objects(prj),
         NEW cmd, Keeps(cmd, Objects(prj)), Push(cmd, prj)
  PROVE  Stacked'
<1> DEFINE r  == Redone(cmd, prj)
           s0 == SubSeq(stack, 1, last)
           n  == Objects(prj)
<1>1. Remade(prj, r.prj) /\ Keeps(r.cmd, n)
  BY CommandSteps DEF Steps
<1>2. project' = r.prj /\ stack' = Append(s0, r.cmd) /\ last' = last + 1
  BY DEF Push
<1>3. PICK T : stack \in Seq(T)
  BY ListingIs
<1>4. /\ last \in Nat /\ last <= Len(stack) /\ Len(stack) \in Nat
      /\ \A i \in 1..Len(stack) : Keeps(stack[i], n)
  <2>1. Objects(project) \in Nat /\ n \in Nat
    BY ListingIs, Cells
  <2> QED BY <2>1, ListingIs, KeepsMore
<1> HIDE DEF r, n
<1>5. s0 \in Seq(T) /\ Len(s0) = last /\ \A i \in 1..last : s0[i] = stack[i]
  BY <1>3, <1>4
<1> HIDE DEF s0
<1> DEFINE e == r.cmd
           t == Append(s0, e)
           W == T \cup {e}
<1>6. s0 \in Seq(W) /\ e \in W
  BY <1>5
<1> HIDE DEF e, W
<1>7. /\ t \in Seq(W) /\ Len(t) = last + 1 /\ DOMAIN t = 1..(last + 1)
      /\ \A i \in 1..last : t[i] = stack[i]
      /\ t[last + 1] = e
  BY <1>4, <1>5, <1>6
<1> HIDE DEF t
<1>8. \A i \in 1..(last + 1) : Keeps(t[i], n)
  <2> TAKE i \in 1..(last + 1)
  <2>1. i \in 1..last \/ i = last + 1
    BY <1>4
  <2>2. CASE i \in 1..last
    BY <1>4, <1>7, <2>2
  <2>3. CASE i = last + 1
    BY <1>1, <1>7, <2>3 DEF e
  <2> QED BY <2>1, <2>2, <2>3
<1>9. t \in Seq({t[i] : i \in DOMAIN t})
  BY <1>7
<1>10. last + 1 \in 0..Len(t)
  BY <1>4, <1>7
<1>11. IsProject(r.prj) /\ Objects(r.prj) = n
  BY <1>1 DEF Remade, n
<1>12. stack' = t /\ project' = r.prj /\ last' = last + 1
  BY <1>2 DEF t, e
<1>13. IsProject(project') /\ Objects(project') = n
  BY <1>11, <1>12
<1>14. \A i \in DOMAIN stack' : Keeps(stack'[i], Objects(project'))
  BY <1>7, <1>8, <1>12, <1>13
<1>15. stack' \in Seq({stack'[i] : i \in DOMAIN stack'}) /\ last' \in 0..Len(stack')
  BY <1>9, <1>10, <1>12
<1> QED BY <1>13, <1>14, <1>15 DEF Stacked, Objects

\* Undo and redo replace one command.
LEMMA Replacing ==
  ASSUME Listing, NEW k \in 1..Len(stack), NEW r, Steps(project, r),
         project' = r.prj, stack' = [stack EXCEPT ![k] = r.cmd],
         last' \in 0..Len(stack)
  PROVE  Stacked'
<1>1. PICK T : stack \in Seq(T)
  BY ListingIs
<1>2. /\ Len(stack) \in Nat /\ DOMAIN stack = 1..Len(stack)
      /\ \A i \in 1..Len(stack) : Keeps(stack[i], Objects(project))
  BY ListingIs
<1> DEFINE e == r.cmd
           t == [stack EXCEPT ![k] = e]
           W == T \cup {e}
<1> HIDE DEF e
<1>3. stack \in Seq(W) /\ e \in W
  BY <1>1
<1> HIDE DEF W
<1>4. /\ t \in Seq(W) /\ Len(t) = Len(stack) /\ DOMAIN t = 1..Len(stack)
      /\ \A i \in 1..Len(stack) : t[i] = IF i = k THEN e ELSE stack[i]
  BY <1>2, <1>3
<1> HIDE DEF t
<1>5. t \in Seq({t[i] : i \in DOMAIN t})
  BY <1>4
<1>6. /\ IsProject(r.prj) /\ Objects(r.prj) = Objects(project)
      /\ Keeps(e, Objects(project))
  BY DEF Steps, Remade, e
<1>7. stack' = t
  BY DEF t, e
<1>8. IsProject(project') /\ Objects(project') = Objects(project)
  BY <1>6
<1>9. \A i \in 1..Len(stack) : Keeps(t[i], Objects(project))
  BY <1>2, <1>4, <1>6
<1>10. \A i \in DOMAIN stack' : Keeps(stack'[i], Objects(project'))
  BY <1>4, <1>7, <1>8, <1>9
<1>11. stack' \in Seq({stack'[i] : i \in DOMAIN stack'})
  BY <1>5, <1>7, Zenon
<1>12. last' \in 0..Len(stack')
  BY <1>4, <1>7
<1> QED BY <1>8, <1>10, <1>11, <1>12 DEF Stacked, Objects


-----------------------------------------------------------------------------
(***************************************************************************)
(* Finite sets of bindings, and projects opened from them.                 *)
(***************************************************************************)
LEMMA Enumerated ==
  ASSUME NEW S, IsFiniteSet(S)
  PROVE  SetToSeq(S) \in Seq(S)
<1> DEFINE n == Cardinality(S)
<1>1. n \in Nat /\ ExistsBijection(1..n, S)
  BY FS_CardinalityType
<1> HIDE DEF n
<1>2. \E f \in [1..n -> S] : \A i, j \in 1..n : f[i] = f[j] => i = j
  BY <1>1, Fun_ExistsBij DEF ExistsBijection, Bijection, Injection, IsInjective
<1>3. \E f \in [1..n -> S] : IsInjective(f)
  BY <1>2 DEF IsInjective
<1>4. SetToSeq(S) \in [1..n -> S]
  BY <1>3 DEF SetToSeq, n
<1> QED BY <1>1, <1>4

LEMMA Images ==
  ASSUME NEW S, IsFiniteSet(S), NEW F, NEW T, \A t \in T : \E x \in S : t = F[x]
  PROVE  IsFiniteSet(T)
<1> DEFINE I == {F[x] : x \in S}
           G == [x \in S |-> F[x]]
<1>1. G \in Surjection(S, I)
  BY DEF Surjection
<1>2. T \subseteq I
  OBVIOUS
<1> HIDE DEF I, G
<1>3. IsFiniteSet(I)
  BY <1>1, FS_Surjection
<1> QED BY <1>2, <1>3, FS_Subset

\* What is bound in a project, by whatever the binding objects are mapped to.
LEMMA FiniteBound ==
  ASSUME NEW prj, IsProject(prj), NEW S, S \subseteq 1..Objects(prj), NEW F,
         NEW T, \A t \in T : \E i \in S : t = F[i]
  PROVE  IsFiniteSet(T)
<1>1. IsFiniteSet(1..Objects(prj))
  BY Cells, FS_Interval
<1>2. IsFiniteSet(S)
  BY <1>1, FS_Subset
<1> QED BY <1>2, Images

LEMMA NoBindingsTable == Table(NoBindings)
BY DEF Table, WellFormed, Consistent, Nested, NoBindings

LEMMA OpenedProject ==
  ASSUME NEW content, IsFiniteSet(content.bound),
         \A b \in content.bound : IsBinding(b)
  PROVE  IsProject(Opened(content))
<1> DEFINE seq == SetToSeq(content.bound)
           bs  == CreatedAll(NoBindings, seq)
           as  == AddedAll(bs, DOMAIN bs.cell)
<1>1. seq \in Seq(content.bound)
  BY Enumerated
<1> HIDE DEF seq
<1>2. Table(bs)
  BY <1>1, NoBindingsTable, CreatedAllTable
<1> HIDE DEF bs
<1>3. Table(as)
  BY <1>2, AddedAllTable
<1> HIDE DEF as
<1>4. Opened(content) = [conns |-> content.conns, views |-> content.views, bs |-> as]
  BY DEF Opened, as, bs, seq
<1> QED BY <1>3, <1>4 DEF IsProject

\* What is read of a file is in it.
LEMMA ReadingIs ==
  ASSUME NEW content, NEW read \in Readings(content)
  PROVE  /\ read.conns = content.conns /\ read.views = content.views
         /\ read.bound \subseteq content.bound
BY DEF Readings, OnePerPin

LEMMA ReadProject ==
  ASSUME NEW content, IsFiniteSet(content.bound),
         \A b \in content.bound : IsBinding(b),
         NEW read \in Readings(content)
  PROVE  IsProject(Opened(read))
<1>1. read.bound \subseteq content.bound
  BY ReadingIs
<1>2. IsFiniteSet(read.bound) /\ \A b \in read.bound : IsBinding(b)
  BY <1>1, FS_Subset
<1> QED BY <1>2, OpenedProject

\* Pasting makes the bindings of the templates, after those made before.
LEMMA PreparedProject ==
  ASSUME NEW prj, IsProject(prj), NEW w, NEW p, NEW ts, NEW bound,
         IsFiniteSet(bound), IsFiniteSet(Keys(ts))
  PROVE  /\ IsProject(Prepared(prj, w, p, ts, bound))
         /\ Objects(prj) <= Objects(Prepared(prj, w, p, ts, bound))
         /\ bound = {} => Objects(Prepared(prj, w, p, ts, bound)) = Objects(prj)
<1> DEFINE B(x, t) == [conn |-> x[1], var |-> x[2], view |-> w, panel |-> p,
                       templ |-> t]
           X   == bound \X Keys(ts)
           F   == [y \in X |-> B(y[1], y[2])]
           S   == {B(x, t) : x \in bound, t \in Keys(ts)}
           seq == SetToSeq(S)
           bs  == CreatedAll(prj.bs, seq)
<1>1. IsFiniteSet(X)
  BY FS_Product
<1>2. \A s \in S : \E y \in X : s = F[y]
  <2> SUFFICES ASSUME NEW s \in S PROVE \E y \in X : s = F[y]
    OBVIOUS
  <2>1. PICK x \in bound, t \in Keys(ts) : s = B(x, t)
    OBVIOUS
  <2>2. <<x, t>> \in X /\ F[<<x, t>>] = B(x, t)
    OBVIOUS
  <2> QED BY <2>1, <2>2
<1>3. IsFiniteSet(S)
  <2> HIDE DEF F, X, S
  <2> QED BY <1>1, <1>2, Images
<1>4. \A b \in S : IsBinding(b)
  BY DEF IsBinding, Fields
<1>5. Prepared(prj, w, p, ts, bound) = [prj EXCEPT !.bs = bs]
  BY DEF Prepared
<1>6. bound = {} => S = {}
  OBVIOUS
<1> HIDE DEF S
<1>7. seq \in Seq(S)
  BY <1>3, Enumerated
<1>8. Len(seq) \in Nat /\ (S = {} => Len(seq) = 0)
  BY <1>7
<1> HIDE DEF seq
<1>9. Table(bs) /\ Len(bs.cell) = Objects(prj) + Len(seq)
  BY <1>4, <1>7, CreatedAllTable DEF IsProject, Objects
<1>10. Objects(prj) \in Nat
  BY Cells
<1> HIDE DEF bs
<1>11. LET q == [prj EXCEPT !.bs = bs]
       IN  IsProject(q) /\ Objects(q) = Objects(prj) + Len(seq)
  BY <1>9 DEF IsProject, Objects
<1> QED BY <1>5, <1>6, <1>8, <1>10, <1>11


-----------------------------------------------------------------------------
(***************************************************************************)
(* The actions.                                                            *)
(***************************************************************************)
\* The rest of the invariant.
Aside ==
  /\ late # None => "kind" \in DOMAIN late /\ late.kind \in Renames
  /\ IsFiniteSet(buffer.bound)
  /\ IsFiniteSet(file.bound) /\ \A b \in file.bound : IsBinding(b)

LEMMA ListingParts == Listing <=> Stacked /\ Aside
BY DEF Listing, Stacked, Aside, IsProject, Objects

LEMMA ListingPartsNext == Listing' <=> Stacked' /\ Aside'
BY DEF Listing, Stacked, Aside, IsProject, Objects

LEMMA Executing ==
  ASSUME Listing, NEW prj, IsProject(prj), Objects(project) <= Objects(prj),
         NEW cmd, Keeps(cmd, Objects(prj)), Execute(cmd, prj)
  PROVE  Listing'
<1>1. Stacked'
  BY Pushing DEF Execute
<1>2. Aside'
  BY ListingParts DEF Execute, Aside
<1> QED BY <1>1, <1>2, ListingPartsNext

LEMMA ExecutingHere ==
  ASSUME Listing, NEW prj, Remade(project, prj),
         NEW cmd, Keeps(cmd, Objects(project)), Execute(cmd, prj)
  PROVE  Listing'
<1>1. IsProject(prj) /\ Objects(prj) = Objects(project) /\ Objects(project) \in Nat
  BY ListingIs, Cells DEF Remade
<1>2. Objects(project) <= Objects(prj)
  BY <1>1
<1> QED BY <1>1, <1>2, Executing

LEMMA Here ==
  ASSUME Listing
  PROVE  /\ IsProject(project) /\ Remade(project, project)
         /\ \A S : Remade(project, Unbound(project, S))
BY ListingIs, UnboundRemade DEF Remade

\* A command that keeps no bindings.
LEMMA KeepsNothing ==
  ASSUME NEW cmd, "kind" \in DOMAIN cmd, cmd.kind \in Kinds \ Keepers,
         cmd.kind # "ChangeBinding", NEW n
  PROVE  Keeps(cmd, n)
BY DEF Keeps, Keepers, Kinds

LEMMA ConnectionDialogsListing ==
  ASSUME Listing, ConnectionDialogs
  PROVE  Listing'
<1>1. ASSUME NEW cn, NEW c, Execute(AddConnection(cn, c), project)
      PROVE  Listing'
  <2>1. Keeps(AddConnection(cn, c), Objects(project))
    BY KeepsNothing DEF AddConnection, Kinds, Keepers
  <2> QED BY <1>1, <2>1, Here, ExecutingHere
<1>2. ASSUME NEW cn, NEW c,
             Execute(Reimport(project, cn, c),
                     Unbound(project, ByConnection(project.bs, cn)))
      PROVE  Listing'
  <2>1. Keeps(Reimport(project, cn, c), Objects(project))
    BY Here, Found DEF Reimport, Keeps, Keepers, Kinds
  <2> QED BY <1>2, <2>1, Here, ExecutingHere
<1>3. ASSUME NEW cn, Execute(DelConnection(project, cn),
                             Unbound(project, ByConnection(project.bs, cn)))
      PROVE  Listing'
  <2>1. Keeps(DelConnection(project, cn), Objects(project))
    BY Here, Found DEF DelConnection, Keeps, Keepers, Kinds
  <2> QED BY <1>3, <2>1, Here, ExecutingHere
<1> QED BY <1>1, <1>2, <1>3 DEF ConnectionDialogs

LEMMA VariableDialogsListing ==
  ASSUME Listing, VariableDialogs
  PROVE  Listing'
<1>1. ASSUME NEW cn, NEW vn, NEW vt, Execute(AddVariable(cn, vn, vt), project)
      PROVE  Listing'
  <2>1. Keeps(AddVariable(cn, vn, vt), Objects(project))
    BY KeepsNothing DEF AddVariable, Kinds, Keepers
  <2> QED BY <1>1, <2>1, Here, ExecutingHere
<1>2. ASSUME NEW cn, NEW vn,
             Execute(DelVariable(project, cn, vn),
                     Unbound(project, ByVariable(project.bs, cn, vn)))
      PROVE  Listing'
  <2>1. Keeps(DelVariable(project, cn, vn), Objects(project))
    BY Here, Found DEF DelVariable, Keeps, Keepers, Kinds
  <2> QED BY <1>2, <2>1, Here, ExecutingHere
<1> QED BY <1>1, <1>2 DEF VariableDialogs

LEMMA ViewDialogListing ==
  ASSUME Listing, ViewDialog
  PROVE  Listing'
<1>1. ASSUME NEW n, Execute(AddView(n), project)
      PROVE  Listing'
  <2>1. Keeps(AddView(n), Objects(project))
    BY KeepsNothing DEF AddView, Kinds, Keepers
  <2> QED BY <1>1, <2>1, Here, ExecutingHere
<1>2. ASSUME NEW src, NEW n, Execute(DupView(project, src, n), project)
      PROVE  Listing'
  <2>1. Keeps(DupView(project, src, n), Objects(project))
    BY KeepsNothing DEF DupView, Kinds, Keepers
  <2> QED BY <1>2, <2>1, Here, ExecutingHere
<1>3. ASSUME NEW n,
             Execute(DelView(project, n),
                     Unbound(project, OfPanels(project.bs, n, PanelsOf(project, n))))
      PROVE  Listing'
  <2>1. Keeps(DelView(project, n), Objects(project))
    BY Here, Found DEF DelView, Keeps, Keepers, Kinds
  <2> QED BY <1>3, <2>1, Here, ExecutingHere
<1>4. ASSUME NEW i, NEW j, Execute(ReorderView(i, j), project)
      PROVE  Listing'
  <2>1. Keeps(ReorderView(i, j), Objects(project))
    BY KeepsNothing DEF ReorderView, Kinds, Keepers
  <2> QED BY <1>4, <2>1, Here, ExecutingHere
<1> QED BY <1>1, <1>2, <1>3, <1>4 DEF ViewDialog

LEMMA PanelDialogListing ==
  ASSUME Listing, PanelDialog
  PROVE  Listing'
<1>1. ASSUME NEW w, NEW n, Execute(AddPanel(w, n), project)
      PROVE  Listing'
  <2>1. Keeps(AddPanel(w, n), Objects(project))
    BY KeepsNothing DEF AddPanel, Kinds, Keepers
  <2> QED BY <1>1, <2>1, Here, ExecutingHere
<1>2. ASSUME NEW w, NEW src, NEW n, Execute(DupPanel(project, w, src, n), project)
      PROVE  Listing'
  <2>1. Keeps(DupPanel(project, w, src, n), Objects(project))
    BY KeepsNothing DEF DupPanel, Kinds, Keepers
  <2> QED BY <1>2, <2>1, Here, ExecutingHere
<1>3. ASSUME NEW w, NEW n, NEW S,
             Execute(DelPanel(project, w, n), Unbound(project, S))
      PROVE  Listing'
  <2>1. Keeps(DelPanel(project, w, n), Objects(project))
    BY Here, Found DEF DelPanel, Keeps, Keepers, Kinds
  <2> QED BY <1>3, <2>1, Here, ExecutingHere
<1>4. ASSUME NEW w, NEW i, Execute(PanelOrder(project, w, i), project)
      PROVE  Listing'
  <2>1. Keeps(PanelOrder(project, w, i), Objects(project))
    BY KeepsNothing DEF PanelOrder, Kinds, Keepers
  <2> QED BY <1>4, <2>1, Here, ExecutingHere
<1> QED BY <1>1, <1>2, <1>3, <1>4 DEF PanelDialog


\* A selection is a sequence of one or two names.
LEMMA SelectionKeys ==
  ASSUME NEW names, NEW sel \in Selections(names), NEW ts, DOMAIN ts = DOMAIN sel
  PROVE  IsFiniteSet(Keys(ts))
<1>1. DOMAIN sel = 1..1 \/ DOMAIN sel = 1..2
  <2>1. CASE \E t \in names : sel = <<t>>
    BY <2>1
  <2>2. CASE sel \in names \X names
    BY <2>2
  <2> QED BY <2>1, <2>2 DEF Selections
<1>2. IsFiniteSet(1..1) /\ IsFiniteSet(1..2)
  <2>1. \A a, b \in Int : IsFiniteSet(a..b)
    BY FS_Interval
  <2>2. 1 \in Int /\ 2 \in Int
    OBVIOUS
  <2> QED BY <2>1, <2>2, Zenon
<1> DEFINE F == [i \in DOMAIN ts |-> ts[i].key]
<1>3. \A k \in Keys(ts) : \E i \in DOMAIN ts : k = F[i]
  BY DEF Keys
<1> HIDE DEF F
<1> QED BY <1>1, <1>2, <1>3, Images

\* What is added keeps the objects prepared for it.
LEMMA AddSelectionKeeps ==
  ASSUME NEW prj, IsProject(prj), NEW w, NEW p, NEW ts, NEW bound,
         IsFiniteSet(bound), IsFiniteSet(Keys(ts))
  PROVE  Keeps(AddSelection(prj, w, p, ts, bound),
               Objects(Prepared(prj, w, p, ts, bound)))
<1> DEFINE m == Objects(Prepared(prj, w, p, ts, bound))
           n == Objects(prj)
<1>1. n \in Nat /\ m \in Nat
  BY PreparedProject, Cells
<1>2. AddSelection(prj, w, p, ts, bound).bl = (n + 1)..m
  BY DEF AddSelection, Objects
<1> HIDE DEF m, n
<1>3. (n + 1)..m \subseteq 1..m
  BY <1>1
<1>4. /\ AddSelection(prj, w, p, ts, bound).kind = "AddSelection"
      /\ {"kind", "bl"} \subseteq DOMAIN AddSelection(prj, w, p, ts, bound)
  BY DEF AddSelection
<1>5. Keeps(AddSelection(prj, w, p, ts, bound), m)
  BY <1>2, <1>3, <1>4 DEF Keeps, Kinds, Keepers
<1> QED BY <1>5 DEF m

LEMMA PlaceListing ==
  ASSUME Listing, NEW w, NEW p, Place(w, p)
  PROVE  Listing'
<1>1. PICK t : Execute(AddSelection(project, w, p, <<Entry(t, None)>>, {}), project)
  BY DEF Place
<1> DEFINE ts  == <<Entry(t, None)>>
           cmd == AddSelection(project, w, p, ts, {})
<1>2. IsFiniteSet(Keys(ts))
  <2>1. <<t>> \in Selections({t}) /\ DOMAIN ts = DOMAIN <<t>>
    BY DEF Selections
  <2> HIDE DEF ts
  <2> QED BY <2>1, SelectionKeys
<1>3. IsProject(project) /\ Remade(project, project)
  BY Here
<1> HIDE DEF ts
<1>4. IsFiniteSet({})
  BY FS_EmptySet
<1>5. Keeps(cmd, Objects(Prepared(project, w, p, ts, {})))
  BY <1>2, <1>3, <1>4, AddSelectionKeeps
<1>6. Objects(Prepared(project, w, p, ts, {})) = Objects(project)
  BY <1>2, <1>3, <1>4, PreparedProject
<1>7. Keeps(cmd, Objects(project))
  BY <1>5, <1>6
<1>8. Execute(cmd, project)
  BY <1>1 DEF ts
<1> HIDE DEF cmd
<1> QED BY <1>3, <1>7, <1>8, ExecutingHere

LEMMA PasteListing ==
  ASSUME Listing, NEW w, NEW p, Paste(w, p)
  PROVE  Listing'
<1> DEFINE Ts(sel) == [i \in DOMAIN sel |-> Entry(sel[i], buffer.links[i])]
           names   == Templs \ Keys(TemplatesOf(project, w, p))
<1>1. PICK sel \in Selections(names) :
        Execute(AddSelection(project, w, p, Ts(sel), buffer.bound),
                Prepared(project, w, p, Ts(sel), buffer.bound))
  BY DEF Paste
<1> DEFINE ts  == Ts(sel)
           cmd == AddSelection(project, w, p, ts, buffer.bound)
           prj == Prepared(project, w, p, ts, buffer.bound)
<1>2. DOMAIN ts = DOMAIN sel /\ Execute(cmd, prj)
  BY <1>1
<1> HIDE DEF ts, names
<1>3. IsFiniteSet(Keys(ts))
  BY <1>2, SelectionKeys
<1>4. IsProject(project) /\ IsFiniteSet(buffer.bound)
  BY Here, ListingParts DEF Aside
<1>5. Keeps(cmd, Objects(prj))
  BY <1>3, <1>4, AddSelectionKeeps
<1>6. IsProject(prj) /\ Objects(project) <= Objects(prj)
  BY <1>3, <1>4, PreparedProject
<1> HIDE DEF cmd, prj
<1> QED BY <1>2, <1>5, <1>6, Executing

LEMMA DeleteListing ==
  ASSUME Listing, NEW w, NEW p, Delete(w, p)
  PROVE  Listing'
<1>1. PICK sel : Execute(DelSelection(project, w, p, sel), project)
  BY DEF Delete
<1>2. Keeps(DelSelection(project, w, p, sel), Objects(project))
  BY DEF DelSelection, Keeps, Kinds, Keepers
<1> QED BY <1>1, <1>2, Here, ExecutingHere

LEMMA EditTemplateListing ==
  ASSUME Listing, NEW w, NEW p, EditTemplate(w, p)
  PROVE  Listing'
<1>1. ASSUME NEW t, NEW n, Execute(RenameTemplate(project, w, p, t, n), project)
      PROVE  Listing'
  <2>1. Keeps(RenameTemplate(project, w, p, t, n), Objects(project))
    BY KeepsNothing DEF RenameTemplate, Kinds, Keepers
  <2> QED BY <1>1, <2>1, Here, ExecutingHere
<1>2. ASSUME NEW t, NEW n, Execute(SetLink(project, w, p, t, n), project)
      PROVE  Listing'
  <2>1. Keeps(SetLink(project, w, p, t, n), Objects(project))
    BY KeepsNothing DEF SetLink, Kinds, Keepers
  <2> QED BY <1>2, <2>1, Here, ExecutingHere
<1>3. ASSUME NEW i, Execute(TabOrder(project, w, p, i), project)
      PROVE  Listing'
  <2>1. Keeps(TabOrder(project, w, p, i), Objects(project))
    BY KeepsNothing DEF TabOrder, Kinds, Keepers
  <2> QED BY <1>3, <2>1, Here, ExecutingHere
<1> QED BY <1>1, <1>2, <1>3 DEF EditTemplate

\* Another binding is one more object.
LEMMA BindTemplateListing ==
  ASSUME Listing, NEW w, NEW p, BindTemplate(w, p)
  PROVE  Listing'
<1> DEFINE To(old, c, v, t) ==
             Execute(ChangeBinding(project, old),
                     [project EXCEPT !.bs =
                        Created(@, [conn |-> c, var |-> v, view |-> w,
                                    panel |-> p, templ |-> t])])
<1>1. PICK t, old, c, v :
        /\ old = {} \/ \E i \in ByTemplate(project.bs, w, p, t) : old = {i}
        /\ To(old, c, v, t)
  BY DEF BindTemplate
<1> DEFINE b   == [conn |-> c, var |-> v, view |-> w, panel |-> p, templ |-> t]
           bs  == Created(project.bs, b)
           prj == [project EXCEPT !.bs = bs]
           n   == Objects(project)
<1>2. IsProject(project) /\ n \in Nat
  BY Here, Cells
<1>3. IsBinding(b)
  BY DEF IsBinding, Fields
<1> HIDE DEF b
<1>4. Table(bs) /\ Len(bs.cell) = n + 1
  BY <1>2, <1>3, CreatedTable DEF IsProject, Objects
<1>5. Execute(ChangeBinding(project, old), prj)
  BY <1>1 DEF b
<1> HIDE DEF bs
<1>6. IsProject(prj) /\ Objects(prj) = n + 1
  BY <1>2, <1>4 DEF IsProject, Objects
<1>7. ChangeBinding(project, old) = [kind |-> "ChangeBinding", old |-> old,
                                     new |-> {n + 1}]
  BY DEF ChangeBinding, Objects
<1> HIDE DEF n, prj
<1>8. old \subseteq 1..(n + 1) /\ {n + 1} \subseteq 1..(n + 1)
  <2>1. ByTemplate(project.bs, w, p, t) \subseteq 1..n
    BY <1>2, Found DEF n
  <2> QED BY <1>1, <1>2, <2>1
<1>9. Keeps(ChangeBinding(project, old), n + 1)
  <2> DEFINE cmd == ChangeBinding(project, old)
             m   == n + 1
  <2>1. /\ DOMAIN cmd = {"kind", "old", "new"} /\ cmd.kind = "ChangeBinding"
        /\ cmd.old = old /\ cmd.new = {m}
    BY <1>7
  <2>2. old \subseteq 1..m /\ {m} \subseteq 1..m
    BY <1>8
  <2> HIDE DEF cmd, m
  <2>3. Keeps(cmd, m)
    BY <2>1, <2>2 DEF Keeps, Kinds, Keepers
  <2> QED BY <2>3 DEF cmd, m
<1>10. Objects(project) <= Objects(prj)
  BY <1>2, <1>6 DEF n
<1> QED BY <1>5, <1>6, <1>9, <1>10, Executing

LEMMA TemplateActionsListing ==
  ASSUME Listing, TemplateActions
  PROVE  Listing'
BY PlaceListing, DeleteListing, PasteListing, EditTemplateListing,
   BindTemplateListing DEF TemplateActions

\* One command waits, or two do.
LEMMA RenamesLater ==
  ASSUME RenameLater
  PROVE  \E cmd : "kind" \in DOMAIN cmd /\ cmd.kind \in Renames /\ ExecuteLater(cmd)
<1> DEFINE Is(cmd) == "kind" \in DOMAIN cmd /\ cmd.kind \in Renames
<1>1. ASSUME NEW o, NEW n, NEW c
      PROVE  /\ Is(RenameConnection(o, n)) /\ Is(RenameVariable(c, o, n))
             /\ Is(RenameView(project, o, n)) /\ Is(RenamePanel(project, c, o, n))
  BY DEF RenameConnection, RenameVariable, RenameView, RenamePanel, Renames
<1> HIDE DEF Is
<1>2. \E cmd : Is(cmd) /\ ExecuteLater(cmd)
  BY <1>1, Zenon DEF RenameLater
<1> QED BY <1>2 DEF Is

LEMMA RenameLaterListing ==
  ASSUME Listing, RenameLater
  PROVE  Listing'
<1>1. Stacked /\ Aside
  BY ListingParts
<1>2. PICK cmd : "kind" \in DOMAIN cmd /\ cmd.kind \in Renames /\ ExecuteLater(cmd)
  BY RenamesLater
<1>3. Stacked'
  BY <1>1, <1>2 DEF ExecuteLater, Stacked
<1>4. Aside'
  BY <1>1, <1>2 DEF ExecuteLater, Aside
<1> QED BY <1>3, <1>4, ListingPartsNext

LEMMA ExecuteLateListing ==
  ASSUME Listing, ExecuteLate
  PROVE  Listing'
<1>1. Stacked /\ Aside
  BY ListingParts
<1>2. Aside'
  BY <1>1 DEF ExecuteLate, Aside
<1>3. CASE Push(late, project)
  <2>1. Keeps(late, Objects(project))
    BY <1>1, KeepsNothing DEF ExecuteLate, Aside, Renames, Keepers, Kinds
  <2>2. IsProject(project) /\ Objects(project) <= Objects(project)
    BY Here, Cells
  <2> QED BY <1>2, <1>3, <2>1, <2>2, Pushing, ListingPartsNext
<1>4. CASE UNCHANGED <<project, stack, last>>
  BY <1>1, <1>2, <1>4, ListingPartsNext DEF Stacked
<1> QED BY <1>3, <1>4 DEF ExecuteLate


LEMMA UndoListing ==
  ASSUME Listing, Undo
  PROVE  Listing'
<1>1. /\ last \in 1..Len(stack) /\ Keeps(stack[last], Objects(project))
      /\ last' \in 0..Len(stack) /\ IsProject(project)
  BY ListingIs DEF Undo
<1> DEFINE r == Undone(stack[last], project)
<1>2. project' = r.prj /\ stack' = [stack EXCEPT ![last] = r.cmd]
  BY DEF Undo
<1>3. Steps(project, r)
  BY <1>1, CommandSteps
<1> HIDE DEF r
<1>4. Stacked'
  BY <1>1, <1>2, <1>3, Replacing
<1>5. Aside'
  BY ListingParts DEF Undo, Aside
<1> QED BY <1>4, <1>5, ListingPartsNext

LEMMA RedoListing ==
  ASSUME Listing, Redo
  PROVE  Listing'
<1> DEFINE k == last + 1
           r == Redone(stack[k], project)
<1>1. /\ k \in 1..Len(stack) /\ Keeps(stack[k], Objects(project))
      /\ last' = k /\ IsProject(project)
  BY ListingIs DEF Redo
<1>2. project' = r.prj /\ stack' = [stack EXCEPT ![k] = r.cmd]
  BY DEF Redo
<1> HIDE DEF k
<1>3. Steps(project, r)
  BY <1>1, CommandSteps
<1> HIDE DEF r
<1>4. last' \in 0..Len(stack)
  BY <1>1, ListingIs
<1>5. Stacked'
  BY <1>1, <1>2, <1>3, <1>4, Replacing
<1>6. Aside'
  BY ListingParts DEF Redo, Aside
<1> QED BY <1>5, <1>6, ListingPartsNext

\* What gets into a file is bound in the project.
LEMMA SaveListing ==
  ASSUME Listing, Save
  PROVE  Listing'
<1>1. Stacked /\ Aside /\ IsProject(project)
  BY ListingParts, Here
<1> DEFINE C == project.bs.cell
           L == project.bs.list
<1>2. L \subseteq 1..Objects(project) /\ DOMAIN C = 1..Objects(project)
  BY <1>1, Cells
<1>3. IsFiniteSet(BoundValues(project))
  <2>1. \A b \in BoundValues(project) : \E i \in L : b = C[i]
    BY DEF BoundValues
  <2> HIDE DEF C, L
  <2> QED BY <1>1, <1>2, <2>1, FiniteBound
<1>4. file'.bound \subseteq BoundValues(project)
  BY DEF Save, Written, Saved, Unreadable
<1>5. IsFiniteSet(file'.bound)
  BY <1>3, <1>4, FS_Subset
<1>6. \A b \in BoundValues(project) : IsBinding(b)
  BY <1>1 DEF BoundValues, IsProject, Table, WellFormed
<1>7. Aside'
  BY <1>1, <1>4, <1>5, <1>6 DEF Aside, Save
<1>8. Stacked'
  BY <1>1 DEF Stacked, Save
<1> QED BY <1>7, <1>8, ListingPartsNext

LEMMA RevertListing ==
  ASSUME Listing, Revert
  PROVE  Listing'
<1>1. Aside
  BY ListingParts
<1>2. IsProject(project')
  BY <1>1, ReadProject DEF Aside, Revert
<1>3. stack' = << >> /\ last' = 0
  BY DEF Revert
<1>4. Stacked'
  BY <1>2, <1>3 DEF Stacked
<1>5. Aside'
  BY <1>1 DEF Aside, Revert
<1> QED BY <1>4, <1>5, ListingPartsNext

LEMMA CopyListing ==
  ASSUME Listing, NEW w, NEW p, Copy(w, p)
  PROVE  Listing'
<1>1. Stacked /\ Aside /\ IsProject(project)
  BY ListingParts, Here
<1> DEFINE bs == project.bs
           F  == [i \in 1..Objects(project) |-> <<bs.cell[i].conn, bs.cell[i].var>>]
<1>2. PICK sel :
        buffer'.bound = {<<bs.cell[i].conn, bs.cell[i].var>> :
                           i \in UNION {ByTemplate(bs, w, p, sel[j]) :
                                          j \in DOMAIN sel}}
  BY DEF Copy
<1> DEFINE S == UNION {ByTemplate(bs, w, p, sel[j]) : j \in DOMAIN sel}
<1>3. S \subseteq 1..Objects(project)
  BY <1>1, Found
<1>4. buffer'.bound = {F[i] : i \in S}
  <2>1. \A i \in S : F[i] = <<bs.cell[i].conn, bs.cell[i].var>>
    BY <1>3
  <2> HIDE DEF F, S
  <2>2. buffer'.bound = {<<bs.cell[i].conn, bs.cell[i].var>> : i \in S}
    BY <1>2 DEF S
  <2> QED BY <2>1, <2>2
<1> HIDE DEF F, S
<1>6. IsFiniteSet(buffer'.bound)
  <2> DEFINE T == buffer'.bound
  <2>1. \A t \in T : \E i \in S : t = F[i]
    BY <1>4
  <2> HIDE DEF T
  <2>2. IsFiniteSet(T)
    BY <1>1, <1>3, <2>1, FiniteBound
  <2> QED BY <2>2 DEF T
<1>7. Aside'
  BY <1>1, <1>6 DEF Aside, Copy
<1>8. Stacked'
  BY <1>1 DEF Stacked, Copy
<1> QED BY <1>7, <1>8, ListingPartsNext

-----------------------------------------------------------------------------
\* The project's table of bindings is one, the commands keep objects of it,
\* and what may be pasted, reverted or executed late can be.
THEOREM ListingHolds == Spec => []Listing
<1>1. Init => Listing
  <2> SUFFICES ASSUME Init PROVE Listing
    OBVIOUS
  <2>1. IsProject(project)
    BY ProjectAssumption, ReadProject DEF Init
  <2>2. Stacked
    BY <2>1 DEF Stacked, Init
  <2>3. IsFiniteSet({})
    BY FS_EmptySet
  <2>4. Aside
    BY <2>3, ProjectAssumption DEF Aside, Init
  <2> QED BY <2>2, <2>4, ListingParts
<1>2. Listing /\ [Next]_vars => Listing'
  <2> SUFFICES ASSUME Listing, [Next]_vars PROVE Listing'
    OBVIOUS
  <2>1. CASE Commands
    BY <2>1, ConnectionDialogsListing, VariableDialogsListing, ViewDialogListing,
       PanelDialogListing, TemplateActionsListing, RenameLaterListing DEF Commands
  <2>2. CASE ExecuteLate \/ Undo \/ Redo \/ Save \/ Revert
    BY <2>2, ExecuteLateListing, UndoListing, RedoListing, SaveListing,
       RevertListing
  <2>3. CASE \E w, p : Copy(w, p)
    BY <2>3, CopyListing
  <2>4. CASE UNCHANGED vars
    BY <2>4 DEF vars, Listing
  <2> QED BY <2>1, <2>2, <2>3, <2>4 DEF Next
<1> QED BY <1>1, <1>2, PTL DEF Spec

\* The five indexes of the bindings agree with the table and with each other,
\* whatever is made, renamed, deleted, undone, redone, pasted, saved and
\* reverted, for any names and any number of commands.
THEOREM IndexesAlwaysAgree == Spec => []IndexesAgree
<1>1. Listing => IndexesAgree
  BY DEF Listing, Table, IndexesAgree
<1> QED BY <1>1, ListingHolds, PTL

-----------------------------------------------------------------------------
(***************************************************************************)
(* Sequences with an element more, and one less.                           *)
(***************************************************************************)
LEMMA OwnElements ==
  ASSUME NEW T, NEW d \in Seq(T)
  PROVE  d \in Seq({d[i] : i \in DOMAIN d})
OBVIOUS

LEMMA SameSequence ==
  ASSUME NEW T, NEW d \in Seq(T), NEW e \in Seq(T), Len(d) = Len(e),
         \A i \in 1..Len(d) : d[i] = e[i]
  PROVE  d = e
BY SeqEqual

LEMMA Cut ==
  ASSUME NEW T, NEW d \in Seq(T), NEW m \in 1..(Len(d) + 1), NEW n \in (m - 1)..Len(d)
  PROVE  /\ SubSeq(d, m, n) \in Seq(T) /\ Len(SubSeq(d, m, n)) = n - m + 1
         /\ \A j \in m..n : SubSeq(d, m, n)[j - m + 1] = d[j]
OBVIOUS

LEMMA InsertAtIs ==
  ASSUME NEW T, NEW d \in Seq(T), NEW x \in T, NEW i \in 1..(Len(d) + 1)
  PROVE  /\ InsertAt(d, i, x) \in Seq(T)
         /\ Len(InsertAt(d, i, x)) = Len(d) + 1
         /\ \A j \in 1..(i - 1) : InsertAt(d, i, x)[j] = d[j]
         /\ InsertAt(d, i, x)[i] = x
         /\ \A j \in i..Len(d) : InsertAt(d, i, x)[j + 1] = d[j]
<1> DEFINE n == Len(d)
           s == SubSeq(d, 1, i - 1)
           t == SubSeq(d, i, n)
           o == <<x>>
           u == s \o o
           e == u \o t
<1>1. n \in Nat /\ i \in Nat /\ 1 <= i /\ i <= n + 1
  OBVIOUS
<1>2. s \in Seq(T) /\ Len(s) = i - 1 /\ \A j \in 1..(i - 1) : s[j] = d[j]
  OBVIOUS
<1>3. t \in Seq(T) /\ Len(t) = n + 1 - i /\ \A j \in i..n : t[j - i + 1] = d[j]
  <2>1. n \in (i - 1)..Len(d)
    BY <1>1
  <2> QED BY <1>1, <2>1, Cut
<1>4. o \in Seq(T) /\ Len(o) = 1 /\ o[1] = x
  OBVIOUS
<1>5. InsertAt(d, i, x) = e
  BY DEF InsertAt
<1> HIDE DEF s, t, o
<1>6. /\ u \in Seq(T) /\ Len(u) = Len(s) + Len(o)
      /\ \A j \in 1..Len(s) : u[j] = s[j]
      /\ \A j \in 1..Len(o) : u[Len(s) + j] = o[j]
  <2>1. s \in Seq(T) /\ o \in Seq(T)
    BY <1>2, <1>4
  <2> QED BY <2>1
<1>7. Len(u) = i /\ (\A j \in 1..(i - 1) : u[j] = d[j]) /\ u[i] = x
  <2>1. 1 \in 1..Len(o) /\ Len(s) + 1 = i
    BY <1>1, <1>2, <1>4
  <2>2. u[i] = x
    BY <1>4, <1>6, <2>1
  <2> QED BY <1>1, <1>2, <1>4, <1>6, <2>2
<1> HIDE DEF u
<1>8. /\ e \in Seq(T) /\ Len(e) = Len(u) + Len(t)
      /\ \A j \in 1..Len(u) : e[j] = u[j]
      /\ \A j \in 1..Len(t) : e[Len(u) + j] = t[j]
  <2>1. u \in Seq(T) /\ t \in Seq(T)
    BY <1>3, <1>6
  <2> QED BY <2>1
<1> HIDE DEF e
<1>9. Len(e) = n + 1
  BY <1>1, <1>3, <1>7, <1>8
<1>10. (\A j \in 1..(i - 1) : e[j] = d[j]) /\ e[i] = x
  BY <1>1, <1>7, <1>8
<1>11. ASSUME NEW j \in i..n
       PROVE  e[j + 1] = d[j]
  <2>1. j - i + 1 \in 1..Len(t) /\ Len(u) + (j - i + 1) = j + 1
    BY <1>1, <1>3, <1>7
  <2>2. e[Len(u) + (j - i + 1)] = t[j - i + 1]
    BY <1>8, <2>1
  <2> QED BY <1>3, <2>1, <2>2
<1> QED BY <1>5, <1>8, <1>9, <1>10, <1>11

LEMMA RemoveAtIs ==
  ASSUME NEW T, NEW d \in Seq(T), NEW i \in 1..Len(d)
  PROVE  /\ RemoveAt(d, i) \in Seq(T)
         /\ Len(RemoveAt(d, i)) = Len(d) - 1
         /\ \A j \in 1..(i - 1) : RemoveAt(d, i)[j] = d[j]
         /\ \A j \in i..(Len(d) - 1) : RemoveAt(d, i)[j] = d[j + 1]
<1> DEFINE n == Len(d)
           s == SubSeq(d, 1, i - 1)
           t == SubSeq(d, i + 1, n)
           e == s \o t
<1>1. n \in Nat /\ i \in Nat /\ 1 <= i /\ i <= n
  OBVIOUS
<1>2. s \in Seq(T) /\ Len(s) = i - 1 /\ \A j \in 1..(i - 1) : s[j] = d[j]
  OBVIOUS
<1>3. t \in Seq(T) /\ Len(t) = n - i /\ \A j \in (i + 1)..n : t[j - (i + 1) + 1] = d[j]
  <2>1. i + 1 \in 1..(Len(d) + 1) /\ n \in ((i + 1) - 1)..Len(d) /\ n - (i + 1) + 1 = n - i
    BY <1>1
  <2> QED BY <2>1, Cut
<1>5. RemoveAt(d, i) = e
  BY DEF RemoveAt
<1> HIDE DEF s, t
<1>6. /\ e \in Seq(T) /\ Len(e) = Len(s) + Len(t)
      /\ \A j \in 1..Len(s) : e[j] = s[j]
      /\ \A j \in 1..Len(t) : e[Len(s) + j] = t[j]
  <2>1. s \in Seq(T) /\ t \in Seq(T)
    BY <1>2, <1>3
  <2> QED BY <2>1
<1> HIDE DEF e
<1>7. Len(e) = n - 1
  BY <1>1, <1>2, <1>3, <1>6
<1>8. \A j \in 1..(i - 1) : e[j] = d[j]
  BY <1>2, <1>6
<1>9. ASSUME NEW j \in i..(n - 1)
      PROVE  e[j] = d[j + 1]
  <2>1. /\ j - i + 1 \in 1..Len(t) /\ Len(s) + (j - i + 1) = j
        /\ j + 1 \in (i + 1)..n /\ (j + 1) - (i + 1) + 1 = j - i + 1
    BY <1>1, <1>2, <1>3
  <2>2. e[Len(s) + (j - i + 1)] = t[j - i + 1]
    BY <1>6, <2>1
  <2>3. t[(j + 1) - (i + 1) + 1] = d[j + 1]
    BY <1>3, <2>1
  <2> QED BY <2>1, <2>2, <2>3
<1> QED BY <1>5, <1>6, <1>7, <1>8, <1>9

LEMMA InsertRemove ==
  ASSUME NEW T, NEW d \in Seq(T), NEW x \in T, NEW i \in 1..(Len(d) + 1)
  PROVE  RemoveAt(InsertAt(d, i, x), i) = d
<1> DEFINE e == InsertAt(d, i, x)
           r == RemoveAt(e, i)
           n == Len(d)
<1>0. n \in Nat /\ i \in Nat /\ 1 <= i /\ i <= n + 1
  OBVIOUS
<1>1. /\ e \in Seq(T) /\ Len(e) = n + 1
      /\ \A j \in 1..(i - 1) : e[j] = d[j]
      /\ \A j \in i..n : e[j + 1] = d[j]
  BY InsertAtIs
<1> HIDE DEF e
<1>2. i \in 1..Len(e)
  BY <1>0, <1>1
<1>3. /\ r \in Seq(T) /\ Len(r) = Len(e) - 1
      /\ \A j \in 1..(i - 1) : r[j] = e[j]
      /\ \A j \in i..(Len(e) - 1) : r[j] = e[j + 1]
  BY <1>1, <1>2, RemoveAtIs
<1> HIDE DEF r
<1>4. Len(r) = n /\ Len(e) - 1 = n
  BY <1>0, <1>1, <1>3
<1>5. \A j \in 1..n : r[j] = d[j]
  <2> TAKE j \in 1..n
  <2>1. CASE j < i
    BY <1>0, <1>1, <1>3, <2>1
  <2>2. CASE j >= i
    <3>1. j \in i..n
      BY <1>0, <2>2
    <3> QED BY <1>1, <1>3, <1>4, <3>1
  <2> QED BY <1>0, <2>1, <2>2
<1>6. r = d
  BY <1>3, <1>4, <1>5, SameSequence
<1> QED BY <1>6 DEF r, e

LEMMA RemoveInsert ==
  ASSUME NEW T, NEW d \in Seq(T), NEW i \in 1..Len(d)
  PROVE  InsertAt(RemoveAt(d, i), i, d[i]) = d
<1> DEFINE r == RemoveAt(d, i)
           e == InsertAt(r, i, d[i])
           n == Len(d)
<1>0. n \in Nat /\ i \in Nat /\ 1 <= i /\ i <= n /\ d[i] \in T
  OBVIOUS
<1>1. /\ r \in Seq(T) /\ Len(r) = n - 1
      /\ \A j \in 1..(i - 1) : r[j] = d[j]
      /\ \A j \in i..(n - 1) : r[j] = d[j + 1]
  BY RemoveAtIs
<1> HIDE DEF r
<1>2. i \in 1..(Len(r) + 1)
  BY <1>0, <1>1
<1>3. /\ e \in Seq(T) /\ Len(e) = Len(r) + 1
      /\ \A j \in 1..(i - 1) : e[j] = r[j]
      /\ e[i] = d[i]
      /\ \A j \in i..Len(r) : e[j + 1] = r[j]
  <2>1. r \in Seq(T) /\ d[i] \in T
    BY <1>0, <1>1
  <2> QED BY <1>2, <2>1, InsertAtIs
<1> HIDE DEF e
<1>4. Len(e) = n
  BY <1>0, <1>1, <1>3
<1>5. \A j \in 1..n : e[j] = d[j]
  <2> TAKE j \in 1..n
  <2>1. CASE j < i
    BY <1>0, <1>1, <1>3, <2>1
  <2>2. CASE j = i
    BY <1>3, <2>2
  <2>3. CASE j > i
    <3>1. j - 1 \in i..(n - 1) /\ (j - 1) + 1 = j /\ n - 1 = Len(r)
      BY <1>0, <1>1, <2>3
    <3>2. e[(j - 1) + 1] = r[j - 1] /\ r[j - 1] = d[(j - 1) + 1]
      BY <1>1, <1>3, <3>1
    <3> QED BY <3>1, <3>2
  <2> QED BY <1>0, <2>1, <2>2, <2>3
<1>6. e = d
  BY <1>3, <1>4, <1>5, SameSequence
<1> QED BY <1>6 DEF r, e

-----------------------------------------------------------------------------
(***************************************************************************)
(* Dictionaries.  Every operation inserts an entry or removes one, or      *)
(* replaces a value or a key in place.                                     *)
(***************************************************************************)
LEMMA EntryIs ==
  ASSUME NEW k, NEW v
  PROVE  Entry(k, v).key = k /\ Entry(k, v).val = v
BY DEF Entry

\* Elements of a dictionary, and one more.
LEMMA DictIs ==
  ASSUME NEW d, Dict(d), NEW x
  PROVE  /\ d \in Seq({d[i] : i \in DOMAIN d} \cup {x})
         /\ DOMAIN d = 1..Len(d) /\ Len(d) \in Nat
BY DEF Dict

LEMMA KeyAt ==
  ASSUME NEW d, Dict(d), NEW i \in DOMAIN d
  PROVE  /\ d[i].key \in Keys(d) /\ IndexOf(d, d[i].key) = i
         /\ At(d, d[i].key) = d[i].val
<1>1. IndexOf(d, d[i].key) = i
  BY DEF Dict, IsDict, IndexOf
<1> QED BY <1>1 DEF Keys, At

LEMMA IndexAt ==
  ASSUME NEW d, Dict(d), NEW k \in Keys(d)
  PROVE  /\ IndexOf(d, k) \in DOMAIN d /\ d[IndexOf(d, k)].key = k
         /\ d[IndexOf(d, k)] = Entry(k, At(d, k))
<1>1. PICK i \in DOMAIN d : d[i].key = k
  BY DEF Keys
<1>2. IndexOf(d, k) \in DOMAIN d /\ d[IndexOf(d, k)].key = k
  BY <1>1 DEF IndexOf
<1> QED BY <1>2 DEF Dict, At

\* With the same entries at the places of the keys, a dictionary has the same
\* values.
LEMMA SameAt ==
  ASSUME NEW d, Dict(d), NEW e, Dict(e), NEW k \in Keys(d),
         \E j \in DOMAIN e : e[j] = d[IndexOf(d, k)]
  PROVE  k \in Keys(e) /\ At(e, k) = At(d, k)
<1>1. PICK j \in DOMAIN e : e[j] = d[IndexOf(d, k)]
  OBVIOUS
<1>2. e[j].key = k /\ e[j].val = At(d, k)
  BY <1>1, IndexAt DEF At
<1> QED BY <1>2, KeyAt

\* The entry of k and v has been put into d.
Inserted(d, i, k, v, e) ==
  /\ Dict(e) /\ Len(e) = Len(d) + 1 /\ Keys(e) = Keys(d) \cup {k}
  /\ IndexOf(e, k) = i /\ At(e, k) = v /\ e[i] = Entry(k, v)
  /\ \A j \in Keys(d) : At(e, j) = At(d, j)
  /\ RemoveAt(e, i) = d

LEMMA Insertion ==
  ASSUME NEW d, Dict(d), NEW k, k \notin Keys(d), NEW v, NEW i \in 1..(Len(d) + 1)
  PROVE  Inserted(d, i, k, v, InsertAt(d, i, Entry(k, v)))
<1> DEFINE n == Len(d)
           e == InsertAt(d, i, Entry(k, v))
           x == Entry(k, v)
           T == {d[j] : j \in DOMAIN d} \cup {x}
<1>1. d \in Seq(T) /\ DOMAIN d = 1..n /\ n \in Nat /\ x \in T
  BY DictIs
<1>2. i \in Nat /\ 1 <= i /\ i <= n + 1
  BY <1>1
<1> HIDE DEF x, T, e
<1>3. /\ e \in Seq(T) /\ Len(e) = n + 1
      /\ \A j \in 1..(i - 1) : e[j] = d[j]
      /\ e[i] = x
      /\ \A j \in i..n : e[j + 1] = d[j]
  <2> USE DEF e
  <2>1. d \in Seq(T) /\ x \in T /\ Entry(k, v) = x
    BY <1>1 DEF x
  <2>2. e = InsertAt(d, i, x)
    BY <2>1
  <2> HIDE DEF e
  <2>3. /\ InsertAt(d, i, x) \in Seq(T) /\ Len(InsertAt(d, i, x)) = n + 1
        /\ \A j \in 1..(i - 1) : InsertAt(d, i, x)[j] = d[j]
        /\ InsertAt(d, i, x)[i] = x
        /\ \A j \in i..n : InsertAt(d, i, x)[j + 1] = d[j]
    BY <2>1, InsertAtIs
  <2> QED BY <2>2, <2>3
<1>4. RemoveAt(e, i) = d
  BY <1>1, InsertRemove DEF x, e
<1>5. DOMAIN e = 1..(n + 1)
  BY <1>1, <1>3
<1>6. x = Entry(x.key, x.val) /\ x.key = k /\ x.val = v
  BY DEF x, Entry
\* Where the entries of e come from.
<1> DEFINE Old(j) == IF j < i THEN j ELSE j - 1
<1>7. \A j \in 1..(n + 1) : j # i => Old(j) \in 1..n /\ e[j] = d[Old(j)]
  <2> TAKE j \in 1..(n + 1)
  <2> HAVE j # i
  <2>1. CASE j < i
    BY <1>2, <1>3, <2>1
  <2>2. CASE j > i
    <3>1. j - 1 \in i..n /\ (j - 1) + 1 = j
      BY <1>2, <2>2
    <3>2. e[(j - 1) + 1] = d[j - 1]
      BY <1>3, <3>1
    <3> QED BY <1>2, <2>2, <3>1, <3>2
  <2> QED BY <1>2, <2>1, <2>2
<1>8. \A j, l \in 1..(n + 1) : j # i /\ l # i /\ Old(j) = Old(l) => j = l
  BY <1>2
<1> HIDE DEF Old
<1>9. \A j \in 1..n : \E l \in 1..(n + 1) : l # i /\ e[l] = d[j]
  <2> TAKE j \in 1..n
  <2>1. CASE j < i
    BY <1>2, <1>3, <2>1
  <2>2. CASE j >= i
    <3>1. j \in i..n /\ j + 1 \in 1..(n + 1) /\ j + 1 # i
      BY <1>1, <1>2, <2>2
    <3> QED BY <1>3, <3>1
  <2> QED BY <1>2, <2>1, <2>2
<1>10. \A j \in 1..n : d[j].key # k
  BY <1>1 DEF Keys
<1>11. \A j \in DOMAIN e : e[j] = Entry(e[j].key, e[j].val)
  BY <1>1, <1>3, <1>5, <1>6, <1>7 DEF Dict
<1>12. IsDict(e)
  <2> SUFFICES ASSUME NEW j \in 1..(n + 1), NEW l \in 1..(n + 1), e[j].key = e[l].key
               PROVE  j = l
    BY <1>5 DEF IsDict
  <2>1. CASE j # i /\ l # i
    <3>1. d[Old(j)].key = d[Old(l)].key /\ Old(j) \in DOMAIN d /\ Old(l) \in DOMAIN d
      BY <1>1, <1>7, <2>1
    <3>2. Old(j) = Old(l)
      BY <3>1 DEF Dict, IsDict
    <3> QED BY <1>8, <2>1, <3>2
  <2>2. CASE j = i /\ l # i
    BY <1>3, <1>6, <1>7, <1>10, <2>2
  <2>3. CASE j # i /\ l = i
    BY <1>3, <1>6, <1>7, <1>10, <2>3
  <2> QED BY <2>1, <2>2, <2>3
<1>13. Dict(e)
  <2>1. e \in Seq({e[j] : j \in DOMAIN e})
    BY <1>3, OwnElements
  <2> QED BY <2>1, <1>11, <1>12, Zenon DEF Dict
<1>14. Keys(e) = Keys(d) \cup {k}
  <2>1. Keys(e) \subseteq Keys(d) \cup {k}
    BY <1>1, <1>3, <1>5, <1>6, <1>7 DEF Keys
  <2>2. Keys(d) \subseteq Keys(e)
    BY <1>1, <1>5, <1>9 DEF Keys
  <2>3. i \in DOMAIN e /\ e[i].key = k
    BY <1>2, <1>3, <1>5, <1>6
  <2> QED BY <2>1, <2>2, <2>3 DEF Keys
<1>15. IndexOf(e, k) = i /\ At(e, k) = v
  <2>1. i \in DOMAIN e /\ e[i].key = k /\ e[i].val = v
    BY <1>2, <1>3, <1>5, <1>6
  <2> QED BY <1>13, <2>1, KeyAt
<1>16. ASSUME NEW j \in Keys(d)
       PROVE  At(e, j) = At(d, j)
  <2>1. IndexOf(d, j) \in 1..n
    BY <1>1, IndexAt
  <2>2. \E l \in DOMAIN e : e[l] = d[IndexOf(d, j)]
    BY <1>5, <1>9, <2>1
  <2> QED BY <1>13, <2>2, SameAt
<1> QED BY <1>3, <1>4, <1>13, <1>14, <1>15, <1>16 DEF Inserted, x, e

LEMMA Removal ==
  ASSUME NEW d, Dict(d), NEW i \in DOMAIN d, NEW e, e = RemoveAt(d, i)
  PROVE  /\ Dict(e) /\ Len(e) = Len(d) - 1 /\ Keys(e) = Keys(d) \ {d[i].key}
         /\ \A k \in Keys(e) : At(e, k) = At(d, k)
         /\ InsertAt(e, i, d[i]) = d
<1> DEFINE n == Len(d)
           T == {d[j] : j \in DOMAIN d} \cup {d[i]}
<1>1. d \in Seq(T) /\ DOMAIN d = 1..n /\ n \in Nat
  BY DictIs
<1>2. i \in Nat /\ 1 <= i /\ i <= n
  BY <1>1
<1> HIDE DEF T
<1>3. /\ e \in Seq(T) /\ Len(e) = n - 1
      /\ \A j \in 1..(i - 1) : e[j] = d[j]
      /\ \A j \in i..(n - 1) : e[j] = d[j + 1]
  <2>1. d \in Seq(T) /\ i \in 1..n
    BY <1>1
  <2> QED BY <2>1, RemoveAtIs
<1>4. InsertAt(e, i, d[i]) = d
  BY <1>1, RemoveInsert
<1>5. DOMAIN e = 1..(n - 1)
  BY <1>1, <1>3
<1> DEFINE Old(j) == IF j < i THEN j ELSE j + 1
<1>6. \A j \in 1..(n - 1) : Old(j) \in 1..n /\ Old(j) # i /\ e[j] = d[Old(j)]
  <2> TAKE j \in 1..(n - 1)
  <2>1. CASE j < i
    BY <1>1, <1>2, <1>3, <2>1
  <2>2. CASE j >= i
    <3>1. j \in i..(n - 1) /\ j + 1 \in 1..n
      BY <1>1, <1>2, <2>2
    <3> QED BY <1>2, <1>3, <2>2, <3>1
  <2> QED BY <1>2, <2>1, <2>2
<1>7. \A j, l \in 1..(n - 1) : Old(j) = Old(l) => j = l
  BY <1>1, <1>2
<1> HIDE DEF Old
<1>8. \A j \in 1..n : j # i => \E l \in 1..(n - 1) : e[l] = d[j]
  <2> TAKE j \in 1..n
  <2> HAVE j # i
  <2>1. CASE j < i
    BY <1>1, <1>2, <1>3, <2>1
  <2>2. CASE j > i
    <3>1. j - 1 \in i..(n - 1) /\ (j - 1) + 1 = j /\ j - 1 \in 1..(n - 1)
      BY <1>1, <1>2, <2>2
    <3>2. e[j - 1] = d[(j - 1) + 1]
      BY <1>3, <3>1
    <3> QED BY <3>1, <3>2
  <2> QED BY <1>2, <2>1, <2>2
<1>9. \A j \in 1..n : d[j].key = d[i].key => j = i
  BY <1>1 DEF Dict, IsDict
<1>10. \A j \in DOMAIN e : e[j] = Entry(e[j].key, e[j].val)
  BY <1>1, <1>5, <1>6 DEF Dict
<1>11. IsDict(e)
  <2> SUFFICES ASSUME NEW j \in 1..(n - 1), NEW l \in 1..(n - 1), e[j].key = e[l].key
               PROVE  j = l
    BY <1>5 DEF IsDict
  <2>1. d[Old(j)].key = d[Old(l)].key /\ Old(j) \in DOMAIN d /\ Old(l) \in DOMAIN d
    BY <1>1, <1>6
  <2>2. Old(j) = Old(l)
    BY <2>1 DEF Dict, IsDict
  <2> QED BY <1>7, <2>2
<1>12. Dict(e)
  BY <1>3, <1>10, <1>11, OwnElements DEF Dict
<1>13. Keys(e) = Keys(d) \ {d[i].key}
  <2>1. Keys(e) \subseteq Keys(d) \ {d[i].key}
    BY <1>1, <1>5, <1>6, <1>9 DEF Keys
  <2>2. Keys(d) \ {d[i].key} \subseteq Keys(e)
    BY <1>1, <1>5, <1>8 DEF Keys
  <2> QED BY <2>1, <2>2
<1>14. ASSUME NEW k \in Keys(e)
       PROVE  At(e, k) = At(d, k)
  <2>1. k \in Keys(d) /\ k # d[i].key
    BY <1>13
  <2>2. IndexOf(d, k) \in 1..n /\ IndexOf(d, k) # i
    BY <1>1, <2>1, IndexAt
  <2>3. \E l \in DOMAIN e : e[l] = d[IndexOf(d, k)]
    BY <1>5, <1>8, <2>2
  <2> QED BY <1>12, <2>1, <2>3, SameAt
<1> QED BY <1>3, <1>4, <1>12, <1>13, <1>14

-----------------------------------------------------------------------------
LEMMA ExceptBack ==
  ASSUME NEW T, NEW d \in Seq(T), NEW i \in DOMAIN d, NEW x
  PROVE  [[d EXCEPT ![i] = x] EXCEPT ![i] = d[i]] = d
<1> DEFINE f == [[d EXCEPT ![i] = x] EXCEPT ![i] = d[i]]
<1>1. d = [j \in DOMAIN d |-> d[j]]
  OBVIOUS
<1>2. f = [j \in DOMAIN d |-> f[j]] /\ \A j \in DOMAIN d : f[j] = d[j]
  OBVIOUS
<1> HIDE DEF f
<1>3. f = d
  BY <1>1, <1>2
<1> QED BY <1>3 DEF f

LEMMA ReplaceIs ==
  ASSUME NEW T, NEW d \in Seq(T), NEW x \in T, NEW i \in 1..Len(d)
  PROVE  InsertAt(RemoveAt(d, i), i, x) = [d EXCEPT ![i] = x]
<1> DEFINE r == RemoveAt(d, i)
           e == InsertAt(r, i, x)
           f == [d EXCEPT ![i] = x]
           n == Len(d)
<1>0. n \in Nat /\ i \in Nat /\ 1 <= i /\ i <= n
  OBVIOUS
<1>1. /\ r \in Seq(T) /\ Len(r) = n - 1
      /\ \A j \in 1..(i - 1) : r[j] = d[j]
      /\ \A j \in i..(n - 1) : r[j] = d[j + 1]
  BY RemoveAtIs
<1> HIDE DEF r
<1>2. i \in 1..(Len(r) + 1) /\ r \in Seq(T)
  BY <1>0, <1>1
<1>3. /\ e \in Seq(T) /\ Len(e) = Len(r) + 1
      /\ \A j \in 1..(i - 1) : e[j] = r[j]
      /\ e[i] = x
      /\ \A j \in i..Len(r) : e[j + 1] = r[j]
  BY <1>2, InsertAtIs
<1> HIDE DEF e
<1>4. Len(e) = n
  BY <1>0, <1>1, <1>3
<1>5. f \in Seq(T) /\ Len(f) = n /\ f[i] = x /\ \A j \in 1..n : j # i => f[j] = d[j]
  OBVIOUS
<1> HIDE DEF f
<1>6. \A j \in 1..n : e[j] = f[j]
  <2> TAKE j \in 1..n
  <2>1. CASE j < i
    BY <1>0, <1>1, <1>3, <1>5, <2>1
  <2>2. CASE j = i
    BY <1>3, <1>5, <2>2
  <2>3. CASE j > i
    <3>1. j - 1 \in i..(n - 1) /\ (j - 1) + 1 = j /\ n - 1 = Len(r) /\ j # i
      BY <1>0, <1>1, <2>3
    <3>2. e[(j - 1) + 1] = r[j - 1] /\ r[j - 1] = d[(j - 1) + 1]
      BY <1>1, <1>3, <3>1
    <3> QED BY <1>5, <3>1, <3>2
  <2> QED BY <1>0, <2>1, <2>2, <2>3
<1>7. e = f
  BY <1>3, <1>4, <1>5, <1>6, SameSequence
<1> QED BY <1>7 DEF r, e, f

\* An entry replaced where it is, with another key or another value.
Replaced(d, i, k, v, e) ==
  /\ Dict(e) /\ Len(e) = Len(d) /\ Keys(e) = (Keys(d) \ {d[i].key}) \cup {k}
  /\ IndexOf(e, k) = i /\ At(e, k) = v /\ e[i] = Entry(k, v)
  /\ \A j \in Keys(d) \ {d[i].key} : At(e, j) = At(d, j)
  /\ e = InsertAt(RemoveAt(d, i), i, Entry(k, v))

LEMMA Replacement ==
  ASSUME NEW d, Dict(d), NEW i \in DOMAIN d, NEW k, k \notin Keys(d) \ {d[i].key},
         NEW v
  PROVE  Replaced(d, i, k, v, [d EXCEPT ![i] = Entry(k, v)])
<1> DEFINE e == [d EXCEPT ![i] = Entry(k, v)]
           r == RemoveAt(d, i)
           x == Entry(k, v)
           T == {d[j] : j \in DOMAIN d} \cup {x}
<1>1. d \in Seq(T) /\ i \in 1..Len(d) /\ x \in T /\ Len(d) \in Nat
  BY DictIs
<1>2. e = InsertAt(r, i, x)
  <2> HIDE DEF T, x, e
  <2>1. InsertAt(r, i, x) = [d EXCEPT ![i] = x]
    BY <1>1, ReplaceIs
  <2> QED BY <2>1 DEF x, e
<1>3. /\ Dict(r) /\ Len(r) = Len(d) - 1 /\ Keys(r) = Keys(d) \ {d[i].key}
      /\ \A j \in Keys(r) : At(r, j) = At(d, j)
  BY Removal
<1> HIDE DEF r, e
<1>4. i \in 1..(Len(r) + 1) /\ k \notin Keys(r)
  BY <1>1, <1>3
<1>5. /\ Dict(e) /\ Len(e) = Len(r) + 1 /\ Keys(e) = Keys(r) \cup {k}
      /\ IndexOf(e, k) = i /\ At(e, k) = v /\ e[i] = x
      /\ \A j \in Keys(r) : At(e, j) = At(r, j)
  <2>1. Dict(r)
    BY <1>3
  <2>2. Inserted(r, i, k, v, InsertAt(r, i, Entry(k, v)))
    BY <1>4, <2>1, Insertion DEF Inserted
  <2> QED BY <1>2, <2>2 DEF Inserted
<1>6. Len(e) = Len(d)
  BY <1>1, <1>3, <1>5
<1> QED BY <1>2, <1>3, <1>5, <1>6 DEF Replaced, r, e

-----------------------------------------------------------------------------
LEMMA PutAtIs ==
  ASSUME NEW d, Dict(d), NEW k, k \notin Keys(d), NEW v, NEW pos
  PROVE  /\ pos \in 1..(Len(d) + 1) => PutAt(d, k, v, pos) = InsertAt(d, pos, Entry(k, v))
         /\ pos \notin 1..(Len(d) + 1) =>
              PutAt(d, k, v, pos) = InsertAt(d, Len(d) + 1, Entry(k, v))
<1> DEFINE n == Len(d)
           x == Entry(k, v)
           T == {d[j] : j \in DOMAIN d} \cup {x}
           a == Append(d, x)
           e == InsertAt(d, n + 1, x)
<1>1. d \in Seq(T) /\ n \in Nat /\ x \in T /\ n + 1 \in 1..(Len(d) + 1)
  <2>1. d \in Seq(T) /\ n \in Nat
    BY DictIs
  <2> QED BY <2>1
<1> HIDE DEF T, x
<1>2. /\ e \in Seq(T) /\ Len(e) = n + 1
      /\ \A j \in 1..((n + 1) - 1) : e[j] = d[j]
      /\ e[n + 1] = x
  BY <1>1, InsertAtIs
<1> HIDE DEF e
<1>3. a \in Seq(T) /\ Len(a) = n + 1 /\ (\A j \in 1..n : a[j] = d[j]) /\ a[n + 1] = x
  BY <1>1
<1> HIDE DEF a
<1>4. \A j \in 1..(n + 1) : a[j] = e[j]
  BY <1>1, <1>2, <1>3
<1>5. a = e
  BY <1>2, <1>3, <1>4, SameSequence
<1> QED BY <1>5 DEF PutAt, a, e, x

\* An entry is put in: the others stay, and without it the dictionary is what
\* it was.
Taking(d, k, v, e) ==
  /\ Dict(e) /\ Keys(e) = Keys(d) \cup {k} /\ At(e, k) = v
  /\ \A j \in Keys(d) : At(e, j) = At(d, j)
  /\ Drop(e, k) = d

LEMMA DropIs ==
  ASSUME NEW d, Dict(d), NEW k \in Keys(d)
  PROVE  /\ Drop(d, k) = RemoveAt(d, IndexOf(d, k))
         /\ Dict(Drop(d, k)) /\ Keys(Drop(d, k)) = Keys(d) \ {k}
         /\ Len(Drop(d, k)) = Len(d) - 1 /\ Len(Drop(d, k)) \in Nat
         /\ IndexOf(d, k) \in 1..(Len(Drop(d, k)) + 1)
         /\ \A j \in Keys(d) \ {k} : At(Drop(d, k), j) = At(d, j)
         /\ InsertAt(Drop(d, k), IndexOf(d, k), Entry(k, At(d, k))) = d
<1> DEFINE i == IndexOf(d, k)
<1>1. i \in DOMAIN d /\ d[i].key = k /\ d[i] = Entry(k, At(d, k))
  BY IndexAt
<1>2. Drop(d, k) = RemoveAt(d, i)
  BY DEF Drop
<1>3. i \in 1..Len(d) /\ Len(d) \in Nat
  BY <1>1, DictIs
<1> HIDE DEF i
<1> DEFINE r == Drop(d, k)
<1>4. /\ Dict(r) /\ Len(r) = Len(d) - 1 /\ Keys(r) = Keys(d) \ {d[i].key}
      /\ \A j \in Keys(r) : At(r, j) = At(d, j)
      /\ InsertAt(r, i, d[i]) = d
  BY <1>1, <1>2, Removal
<1> HIDE DEF r
<1>5. Len(r) \in Nat /\ i \in 1..(Len(r) + 1)
  BY <1>3, <1>4
<1>6. \A j \in Keys(d) \ {k} : At(r, j) = At(d, j)
  BY <1>1, <1>4
<1> QED BY <1>1, <1>2, <1>4, <1>5, <1>6 DEF i, r

LEMMA InsertTakes ==
  ASSUME NEW d, Dict(d), NEW k, k \notin Keys(d), NEW v, NEW i \in 1..(Len(d) + 1)
  PROVE  Taking(d, k, v, InsertAt(d, i, Entry(k, v)))
<1> DEFINE e == InsertAt(d, i, Entry(k, v))
<1>1. /\ Dict(e) /\ Keys(e) = Keys(d) \cup {k}
      /\ IndexOf(e, k) = i /\ At(e, k) = v
      /\ \A j \in Keys(d) : At(e, j) = At(d, j)
      /\ RemoveAt(e, i) = d
  BY Insertion DEF Inserted
<1> HIDE DEF e
<1>2. Drop(e, k) = d
  BY <1>1 DEF Drop
<1>3. Taking(d, k, v, e)
  BY <1>1, <1>2 DEF Taking
<1> QED BY <1>3 DEF e

LEMMA PutTakes ==
  ASSUME NEW d, Dict(d), NEW k, k \notin Keys(d), NEW v
  PROVE  /\ \A pos : Taking(d, k, v, PutAt(d, k, v, pos))
         /\ Taking(d, k, v, Put(d, k, v))
         /\ AddNew(d, k, v) = Put(d, k, v)
<1>1. Len(d) + 1 \in 1..(Len(d) + 1)
  BY DictIs
<1>2. \A pos : Taking(d, k, v, PutAt(d, k, v, pos))
  BY <1>1, PutAtIs, InsertTakes
<1> QED BY <1>2 DEF Put, AddNew

\* Moving changes nothing but the order.
LEMMA MoveIs ==
  ASSUME NEW d, Dict(d), NEW k, NEW pos
  PROVE  /\ Dict(MoveTo(d, k, pos)) /\ Keys(MoveTo(d, k, pos)) = Keys(d)
         /\ \A j \in Keys(d) : At(MoveTo(d, k, pos), j) = At(d, j)
         /\ Drop(MoveTo(d, k, pos), k) = Drop(d, k)
         /\ k \in Keys(d) /\ pos \in DOMAIN d =>
              MoveTo(d, k, pos) = InsertAt(Drop(d, k), pos, Entry(k, At(d, k)))
<1>1. CASE k \notin Keys(d)
  BY <1>1 DEF MoveTo
<1>2. CASE k \in Keys(d)
  <2> DEFINE r == Drop(d, k)
             v == At(d, k)
             i == IF pos \in DOMAIN d THEN pos ELSE Len(d)
             e == InsertAt(r, i, Entry(k, v))
  <2>1. d[IndexOf(d, k)] = Entry(k, v) /\ MoveTo(d, k, pos) = e
    BY <1>2, IndexAt DEF MoveTo
  <2>2. /\ Dict(r) /\ Keys(r) = Keys(d) \ {k} /\ Len(r) = Len(d) - 1
        /\ \A j \in Keys(d) \ {k} : At(r, j) = At(d, j)
    BY <1>2, DropIs
  <2>3. i \in 1..(Len(r) + 1)
    <3>1. DOMAIN d = 1..Len(d) /\ Len(d) \in Nat /\ DOMAIN d # {}
      BY <1>2, DictIs, IndexAt
    <3> QED BY <2>2, <3>1
  <2> HIDE DEF r, v, i
  <2>4. Taking(r, k, v, e)
    BY <2>2, <2>3, InsertTakes
  <2> HIDE DEF e
  <2>5. Dict(e) /\ Keys(e) = Keys(d) /\ Drop(e, k) = r
    BY <1>2, <2>2, <2>4 DEF Taking
  <2>6. ASSUME NEW j \in Keys(d)
        PROVE  At(e, j) = At(d, j)
    <3>1. CASE j = k
      BY <2>4, <3>1 DEF Taking, v
    <3>2. CASE j # k
      BY <2>2, <2>4, <3>2 DEF Taking
    <3> QED BY <3>1, <3>2
  <2>7. pos \in DOMAIN d => i = pos
    BY DEF i
  <2> QED BY <2>1, <2>5, <2>6, <2>7 DEF r, v, e
<1> QED BY <1>1, <1>2

\* At the end, then moved: as if put there.
LEMMA PutMove ==
  ASSUME NEW d, Dict(d), NEW k, k \notin Keys(d), NEW v
  PROVE  /\ \A pos : Taking(d, k, v, MoveTo(Put(d, k, v), k, pos))
         /\ \A i \in 1..(Len(d) + 1) :
              MoveTo(Put(d, k, v), k, i) = InsertAt(d, i, Entry(k, v))
<1> DEFINE p == Put(d, k, v)
<1>1. Taking(d, k, v, p)
  BY PutTakes
<1>2. Len(p) = Len(d) + 1
  <2>1. Len(d) + 1 \in 1..(Len(d) + 1) /\ p = InsertAt(d, Len(d) + 1, Entry(k, v))
    BY DictIs, PutAtIs DEF Put
  <2> QED BY <2>1, Insertion DEF Inserted
<1> HIDE DEF p
<1>3. Dict(p) /\ k \in Keys(p) /\ At(p, k) = v /\ Drop(p, k) = d
  BY <1>1 DEF Taking
<1>4. ASSUME NEW pos
      PROVE  Taking(d, k, v, MoveTo(p, k, pos))
  <2>1. /\ Dict(MoveTo(p, k, pos)) /\ Keys(MoveTo(p, k, pos)) = Keys(p)
        /\ \A j \in Keys(p) : At(MoveTo(p, k, pos), j) = At(p, j)
        /\ Drop(MoveTo(p, k, pos), k) = d
    BY <1>3, MoveIs
  <2> QED BY <1>1, <2>1 DEF Taking
<1>5. ASSUME NEW i \in 1..(Len(d) + 1)
      PROVE  MoveTo(p, k, i) = InsertAt(d, i, Entry(k, v))
  <2>1. i \in DOMAIN p
    BY <1>2, <1>3, DictIs
  <2> QED BY <1>3, <2>1, MoveIs
<1> QED BY <1>4, <1>5 DEF p

\* What was dropped is put back where it was.
LEMMA PutBack ==
  ASSUME NEW d, Dict(d), NEW k \in Keys(d), NEW v, v = At(d, k),
         NEW i, i = IndexOf(d, k)
  PROVE  /\ MoveTo(Put(Drop(d, k), k, v), k, i) = d
         /\ MoveTo(AddNew(Drop(d, k), k, v), k, i) = d
         /\ PutAt(Drop(d, k), k, v, i) = d
<1> DEFINE r == Drop(d, k)
<1>1. /\ Dict(r) /\ k \notin Keys(r) /\ i \in 1..(Len(r) + 1)
      /\ InsertAt(r, i, Entry(k, v)) = d
  BY DropIs
<1> HIDE DEF r
<1>2. /\ MoveTo(Put(r, k, v), k, i) = d /\ PutAt(r, k, v, i) = d
      /\ AddNew(r, k, v) = Put(r, k, v)
  BY <1>1, PutMove, PutAtIs, PutTakes
<1> QED BY <1>2 DEF r

LEMMA WithIs ==
  ASSUME NEW d, Dict(d), NEW k \in Keys(d), NEW v
  PROVE  /\ Dict(With(d, k, v)) /\ Keys(With(d, k, v)) = Keys(d)
         /\ At(With(d, k, v), k) = v
         /\ \A j \in Keys(d) \ {k} : At(With(d, k, v), j) = At(d, j)
         /\ \A u : With(With(d, k, v), k, u) = With(d, k, u)
         /\ With(d, k, At(d, k)) = d
<1> DEFINE i == IndexOf(d, k)
<1>1. /\ i \in DOMAIN d /\ d[i].key = k /\ d[i] = Entry(k, At(d, k))
      /\ d \in Seq({d[j] : j \in DOMAIN d})
  BY IndexAt DEF Dict
<1>2. \A u : With(d, k, u) = [d EXCEPT ![i] = Entry(k, u)]
  <2>1. \A u : [d[i] EXCEPT !.val = u] = Entry(k, u)
    BY <1>1 DEF Entry
  <2> QED BY <2>1 DEF With
<1> HIDE DEF i
<1> DEFINE e == With(d, k, v)
<1>3. /\ Dict(e) /\ Keys(e) = Keys(d) /\ IndexOf(e, k) = i /\ At(e, k) = v
      /\ e[i] = Entry(k, v)
      /\ \A j \in Keys(d) \ {k} : At(e, j) = At(d, j)
  <2>1. /\ e = [d EXCEPT ![i] = Entry(k, v)] /\ k \notin Keys(d) \ {d[i].key}
        /\ i \in DOMAIN d
    BY <1>1, <1>2
  <2> HIDE DEF e
  <2>2. /\ Dict(e) /\ Keys(e) = (Keys(d) \ {d[i].key}) \cup {k}
        /\ IndexOf(e, k) = i /\ At(e, k) = v /\ e[i] = Entry(k, v)
        /\ \A j \in Keys(d) \ {d[i].key} : At(e, j) = At(d, j)
    <3>1. Replaced(d, i, k, v, [d EXCEPT ![i] = Entry(k, v)])
      BY <2>1, Replacement
    <3> QED BY <2>1, <3>1 DEF Replaced
  <2> QED BY <1>1, <2>2
<1>4. ASSUME NEW u
      PROVE  With(e, k, u) = With(d, k, u)
  <2>1. [e[i] EXCEPT !.val = u] = Entry(k, u)
    BY <1>3 DEF Entry
  <2>2. With(e, k, u) = [e EXCEPT ![i] = Entry(k, u)]
    BY <1>3, <2>1 DEF With
  <2>3. e = [d EXCEPT ![i] = Entry(k, v)]
    BY <1>2
  <2> HIDE DEF e
  <2>4. [e EXCEPT ![i] = Entry(k, u)] = [d EXCEPT ![i] = Entry(k, u)]
    BY <1>1, <2>3
  <2> QED BY <1>2, <2>2, <2>4
<1>5. With(d, k, At(d, k)) = d
  <2>1. [d EXCEPT ![i] = d[i]] = d
    BY <1>1
  <2> QED BY <1>1, <1>2, <2>1
<1> QED BY <1>3, <1>4, <1>5

LEMMA RekeyedIs ==
  ASSUME NEW d, Dict(d), NEW o \in Keys(d), NEW n, n \notin Keys(d)
  PROVE  /\ Dict(Rekeyed(d, o, n)) /\ Keys(Rekeyed(d, o, n)) = (Keys(d) \ {o}) \cup {n}
         /\ At(Rekeyed(d, o, n), n) = At(d, o)
         /\ \A j \in Keys(d) \ {o} : At(Rekeyed(d, o, n), j) = At(d, j)
         /\ IndexOf(Rekeyed(d, o, n), n) = IndexOf(d, o)
         /\ IndexOf(d, o) \in DOMAIN Rekeyed(d, o, n)
         /\ DOMAIN Rekeyed(d, o, n) = DOMAIN d
         /\ PutAt(Drop(d, o), n, At(d, o), IndexOf(d, o)) = Rekeyed(d, o, n)
         /\ MoveTo(AddNew(Drop(d, o), n, At(d, o)), n, IndexOf(d, o)) = Rekeyed(d, o, n)
         /\ Rekeyed(Rekeyed(d, o, n), n, o) = d
<1> DEFINE i == IndexOf(d, o)
           e == Rekeyed(d, o, n)
           v == At(d, o)
           r == Drop(d, o)
<1>1. /\ i \in DOMAIN d /\ d[i].key = o /\ d[i] = Entry(o, v)
      /\ d \in Seq({d[j] : j \in DOMAIN d})
  BY IndexAt DEF Dict
<1>2. e = [d EXCEPT ![i] = Entry(n, v)]
  BY DEF Rekeyed
<1>3. /\ r = RemoveAt(d, i) /\ Dict(r) /\ Keys(r) = Keys(d) \ {o}
      /\ i \in 1..(Len(r) + 1)
  BY DropIs
<1> HIDE DEF i, e, v, r
<1>4. n \notin Keys(d) \ {d[i].key} /\ n \notin Keys(r)
  BY <1>3
<1>5. /\ Dict(e) /\ Keys(e) = (Keys(d) \ {o}) \cup {n}
      /\ IndexOf(e, n) = i /\ At(e, n) = v /\ e[i] = Entry(n, v)
      /\ \A j \in Keys(d) \ {o} : At(e, j) = At(d, j)
      /\ e = InsertAt(r, i, Entry(n, v))
  <2>1. /\ e = [d EXCEPT ![i] = Entry(n, v)] /\ n \notin Keys(d) \ {d[i].key}
        /\ i \in DOMAIN d
    BY <1>1, <1>2, <1>4
  <2>2. /\ Dict(e) /\ Keys(e) = (Keys(d) \ {d[i].key}) \cup {n}
        /\ IndexOf(e, n) = i /\ At(e, n) = v /\ e[i] = Entry(n, v)
        /\ \A j \in Keys(d) \ {d[i].key} : At(e, j) = At(d, j)
        /\ e = InsertAt(RemoveAt(d, i), i, Entry(n, v))
    <3>1. Replaced(d, i, n, v, [d EXCEPT ![i] = Entry(n, v)])
      BY <2>1, Replacement
    <3> QED BY <2>1, <3>1 DEF Replaced
  <2> QED BY <1>1, <1>3, <2>2
<1>6. PutAt(r, n, v, i) = e /\ MoveTo(AddNew(r, n, v), n, i) = e
  BY <1>3, <1>4, <1>5, PutAtIs, PutMove, PutTakes
<1>7. Rekeyed(e, n, o) = d
  <2>1. Rekeyed(e, n, o) = [e EXCEPT ![i] = d[i]]
    BY <1>1, <1>5 DEF Rekeyed
  <2>2. d \in Seq({d[j] : j \in DOMAIN d}) /\ i \in DOMAIN d
    BY <1>1
  <2>3. [[d EXCEPT ![i] = Entry(n, v)] EXCEPT ![i] = d[i]] = d
    BY <2>2, ExceptBack
  <2> QED BY <1>2, <2>1, <2>3
<1>8. DOMAIN e = DOMAIN d
  BY <1>2
<1> QED BY <1>1, <1>5, <1>6, <1>7, <1>8 DEF i, e, v, r

-----------------------------------------------------------------------------
\* An entry moved comes back when what is at its new place is moved back.
LEMMA MoveBack ==
  ASSUME NEW d, Dict(d), NEW i \in DOMAIN d, NEW j \in DOMAIN d,
         NEW e, e = MoveTo(d, d[i].key, j)
  PROVE  DOMAIN e = DOMAIN d /\ e[j] = d[i] /\ MoveTo(e, e[j].key, i) = d
<1> DEFINE k == d[i].key
           v == At(d, k)
           r == Drop(d, k)
<1>1. k \in Keys(d) /\ IndexOf(d, k) = i /\ d[i] = Entry(k, v) /\ DOMAIN d = 1..Len(d)
      /\ Len(d) \in Nat
  BY KeyAt, IndexAt, DictIs
<1>2. e = InsertAt(r, j, Entry(k, v)) /\ Dict(e) /\ Keys(e) = Keys(d) /\ Drop(e, k) = r
  BY <1>1, MoveIs, Zenon
<1>3. /\ Dict(r) /\ k \notin Keys(r) /\ Len(r) = Len(d) - 1
      /\ InsertAt(r, i, Entry(k, v)) = d
  BY <1>1, DropIs, Zenon
<1> HIDE DEF k, v, r
<1>4. j \in 1..(Len(r) + 1)
  BY <1>1, <1>3
<1>5. Len(e) = Len(r) + 1 /\ e[j] = Entry(k, v) /\ At(e, k) = v
  BY <1>2, <1>3, <1>4, Insertion DEF Inserted
<1>6. DOMAIN e = DOMAIN d
  BY <1>1, <1>2, <1>3, <1>5, DictIs
<1>7. MoveTo(e, k, i) = InsertAt(r, i, Entry(k, v))
  BY <1>1, <1>2, <1>5, <1>6, MoveIs
<1>8. e[j].key = k
  BY <1>5, EntryIs
<1> QED BY <1>1, <1>3, <1>5, <1>6, <1>7, <1>8

\* Two neighbours change places.
LEMMA SwapIs ==
  ASSUME NEW d, Dict(d), NEW pos \in DOMAIN d, pos + 1 \in DOMAIN d
  PROVE  MoveTo(d, d[pos + 1].key, pos)
           = [d EXCEPT ![pos] = d[pos + 1], ![pos + 1] = d[pos]]
<1> DEFINE n == Len(d)
           k == d[pos + 1].key
           x == d[pos + 1]
           r == RemoveAt(d, pos + 1)
           e == InsertAt(r, pos, x)
           f == [d EXCEPT ![pos] = d[pos + 1], ![pos + 1] = d[pos]]
           T == {d[i] : i \in DOMAIN d} \cup {x}
<1>1. d \in Seq(T) /\ DOMAIN d = 1..n /\ n \in Nat
  BY DictIs
<1>2. pos \in Nat /\ 1 <= pos /\ pos + 1 <= n /\ x \in T
  BY <1>1
<1>3. MoveTo(d, k, pos) = e
  <2>1. k \in Keys(d) /\ IndexOf(d, k) = pos + 1 /\ x = Entry(k, At(d, k))
    BY KeyAt, IndexAt
  <2> QED BY <2>1, DropIs, MoveIs
<1> HIDE DEF T, x
<1>4. /\ r \in Seq(T) /\ Len(r) = n - 1
      /\ \A j \in 1..((pos + 1) - 1) : r[j] = d[j]
      /\ \A j \in (pos + 1)..(n - 1) : r[j] = d[j + 1]
  <2>1. d \in Seq(T) /\ pos + 1 \in 1..n
    BY <1>1, <1>2
  <2> QED BY <2>1, RemoveAtIs
<1> HIDE DEF r
<1>5. /\ e \in Seq(T) /\ Len(e) = Len(r) + 1
      /\ \A j \in 1..(pos - 1) : e[j] = r[j]
      /\ e[pos] = x
      /\ \A j \in pos..Len(r) : e[j + 1] = r[j]
  <2>1. r \in Seq(T) /\ pos \in 1..(Len(r) + 1) /\ x \in T
    BY <1>2, <1>4
  <2> QED BY <2>1, InsertAtIs
<1> HIDE DEF e
<1>6. Len(e) = n /\ Len(r) = n - 1
  BY <1>1, <1>4, <1>5
<1>7. /\ f \in Seq(T) /\ Len(f) = n /\ f[pos] = x /\ f[pos + 1] = d[pos]
      /\ \A j \in 1..n : j # pos /\ j # pos + 1 => f[j] = d[j]
  <2>1. d[pos] \in T /\ x \in T /\ x = d[pos + 1]
    BY <1>1, <1>2 DEF x
  <2> QED BY <1>1, <1>2, <2>1
<1> HIDE DEF f
<1>8. \A j \in 1..n : e[j] = f[j]
  <2> TAKE j \in 1..n
  <2>1. CASE j < pos
    <3>1. j \in 1..(pos - 1) /\ j \in 1..((pos + 1) - 1) /\ j # pos /\ j # pos + 1
      BY <1>2, <2>1
    <3> QED BY <1>4, <1>5, <1>7, <3>1
  <2>2. CASE j = pos
    BY <1>5, <1>7, <2>2
  <2>3. CASE j = pos + 1
    <3>1. pos \in pos..Len(r) /\ pos \in 1..((pos + 1) - 1)
      BY <1>2, <1>6
    <3> QED BY <1>4, <1>5, <1>7, <2>3, <3>1
  <2>4. CASE j > pos + 1
    <3>1. /\ j - 1 \in pos..Len(r) /\ j - 1 \in (pos + 1)..(n - 1) /\ (j - 1) + 1 = j
          /\ j # pos /\ j # pos + 1
      BY <1>2, <1>6, <2>4
    <3>2. e[(j - 1) + 1] = r[j - 1] /\ r[j - 1] = d[(j - 1) + 1]
      BY <1>4, <1>5, <3>1
    <3> QED BY <1>7, <3>1, <3>2
  <2> QED BY <1>2, <2>1, <2>2, <2>3, <2>4
<1>9. e = f
  <2>1. e \in Seq(T) /\ f \in Seq(T) /\ Len(e) = Len(f)
    BY <1>5, <1>6, <1>7
  <2> QED BY <1>6, <1>8, <2>1, SameSequence
<1> QED BY <1>3, <1>9 DEF f

LEMMA SwapBack ==
  ASSUME NEW d, Dict(d), NEW lower, NEW upper, NEW pos, NEW e,
         Swaps(lower, upper, pos, d, e)
  PROVE  /\ Dict(e) /\ Keys(e) = Keys(d)
         /\ MoveTo(e, upper, pos) = d
<1>1. /\ pos \in DOMAIN d /\ pos + 1 \in DOMAIN d /\ upper = d[pos].key
      /\ lower = d[pos + 1].key /\ e = MoveTo(d, lower, pos)
  BY DEF Swaps
<1>2. Dict(e) /\ Keys(e) = Keys(d)
  BY <1>1, MoveIs
<1>3. pos # pos + 1 /\ DOMAIN d = 1..Len(d)
  BY <1>1, DictIs
<1>4. e = [d EXCEPT ![pos] = d[pos + 1], ![pos + 1] = d[pos]]
  BY <1>1, SwapIs
<1>5. DOMAIN e = DOMAIN d /\ e[pos] = d[pos + 1] /\ e[pos + 1] = d[pos]
  BY <1>1, <1>3, <1>4
<1>6. MoveTo(e, e[pos + 1].key, pos) = [e EXCEPT ![pos] = e[pos + 1], ![pos + 1] = e[pos]]
  BY <1>1, <1>2, <1>5, SwapIs
<1>7. [e EXCEPT ![pos] = e[pos + 1], ![pos + 1] = e[pos]] = d
  <2> DEFINE f == [e EXCEPT ![pos] = d[pos], ![pos + 1] = d[pos + 1]]
  <2>1. /\ DOMAIN f = DOMAIN d /\ f = [i \in DOMAIN f |-> f[i]]
        /\ \A i \in DOMAIN d : f[i] = d[i]
    BY <1>1, <1>3, <1>4, <1>5
  <2>2. d = [i \in DOMAIN d |-> d[i]]
    BY DEF Dict
  <2> HIDE DEF f
  <2>3. f = d
    BY <2>1, <2>2
  <2> QED BY <1>5, <2>3 DEF f
<1> QED BY <1>1, <1>2, <1>5, <1>6, <1>7

-----------------------------------------------------------------------------
(***************************************************************************)
(* What each command makes of the connections and of the views; the table  *)
(* of bindings is another matter.                                          *)
(***************************************************************************)
Fielded(prj) == DOMAIN prj = {"conns", "views", "bs"}

\* The connections cs and the views vs are those of the project q.
Has(q, cs, vs) == Fielded(q) /\ q.conns = cs /\ q.views = vs

VarsPut(cs, c, d)         == With(cs, c, [At(cs, c) EXCEPT !.vars = d])
TemplatesPut(vs, w, p, d) == With(vs, w, With(At(vs, w), p, d))

LEMMA Untouched ==
  ASSUME NEW q, NEW cs, NEW vs, Has(q, cs, vs)
  PROVE  /\ \A S : Has(Bound(q, S), cs, vs) /\ Has(Unbound(q, S), cs, vs)
         /\ \A e : Has([q EXCEPT !.bs = e], cs, vs)
         /\ \A e : Has([q EXCEPT !.conns = e], e, vs)
         /\ \A e : Has([q EXCEPT !.views = e], cs, e)
         /\ \A e, f : Has([q EXCEPT !.conns = e, !.bs = f], e, vs)
         /\ \A e, f : Has([q EXCEPT !.views = e, !.bs = f], cs, e)
         /\ \A c, e : Has(SetVars(q, c, e), VarsPut(cs, c, e), vs)
         /\ \A w, e : Has(SetPanels(q, w, e), cs, With(vs, w, e))
         /\ \A w, p, e : Has(SetTemplates(q, w, p, e), cs, TemplatesPut(vs, w, p, e))
<1>1. \A S : Has(Bound(q, S), cs, vs) /\ Has(Unbound(q, S), cs, vs)
  BY DEF Has, Fielded, Bound, Unbound
<1>2. /\ \A e : Has([q EXCEPT !.bs = e], cs, vs)
      /\ \A e : Has([q EXCEPT !.conns = e], e, vs)
      /\ \A e : Has([q EXCEPT !.views = e], cs, e)
      /\ \A e, f : Has([q EXCEPT !.conns = e, !.bs = f], e, vs)
      /\ \A e, f : Has([q EXCEPT !.views = e, !.bs = f], cs, e)
  BY DEF Has, Fielded
<1>3. \A c, e : Has(SetVars(q, c, e), VarsPut(cs, c, e), vs)
  BY DEF Has, Fielded, SetVars, VarsPut
<1>4. \A w, e : Has(SetPanels(q, w, e), cs, With(vs, w, e))
  BY DEF Has, Fielded, SetPanels
<1>5. \A w, p, e : Has(SetTemplates(q, w, p, e), cs, TemplatesPut(vs, w, p, e))
  BY <1>4 DEF Has, SetTemplates, TemplatesPut, PanelsOf
<1> QED BY <1>1, <1>2, <1>3, <1>4, <1>5

\* A result is read by its parts.
LEMMA ResultIs ==
  ASSUME NEW cmd, NEW q, NEW wrong
  PROVE  /\ Result(cmd, q, wrong).cmd = cmd /\ Result(cmd, q, wrong).prj = q
         /\ Result(cmd, q, wrong).wrong = wrong
BY DEF Result

\* What the command r.cmd leaves is its part "cmd".
Makes(r, cmd, cs, vs) == r.cmd = cmd /\ Has(r.prj, cs, vs)

LEMMA MakesIs ==
  ASSUME NEW cmd, NEW q, NEW wrong, NEW cs, NEW vs, Has(q, cs, vs)
  PROVE  Makes(Result(cmd, q, wrong), cmd, cs, vs)
BY ResultIs DEF Makes

LEMMA ConnectionMakes ==
  ASSUME NEW prj, NEW cs, NEW vs, Has(prj, cs, vs), NEW cmd
  PROVE  /\ Makes(RedoAddConnection(cmd, prj), cmd, AddNew(cs, cmd.cn, cmd.c), vs)
         /\ Makes(UndoAddConnection(cmd, prj), [cmd EXCEPT !.c = At(cs, cmd.cn)],
                  Drop(cs, cmd.cn), vs)
         /\ Makes(RedoReimport(cmd, prj), [cmd EXCEPT !.old = At(cs, cmd.cn)],
                  Put(Drop(cs, cmd.cn), cmd.cn, cmd.c), vs)
         /\ Makes(UndoReimport(cmd, prj), [cmd EXCEPT !.c = At(cs, cmd.cn)],
                  MoveTo(Put(Drop(cs, cmd.cn), cmd.cn, cmd.old), cmd.cn, cmd.pos), vs)
         /\ Makes(RedoDelConnection(cmd, prj), cmd, Drop(cs, cmd.cn), vs)
         /\ Makes(UndoDelConnection(cmd, prj), cmd,
                  MoveTo(AddNew(cs, cmd.cn, cmd.c), cmd.cn, cmd.pos), vs)
         /\ \A o, n : Makes(ConnectionRenamed(cmd, prj, o, n), cmd,
                            PutAt(Drop(cs, o), n, At(cs, o), IndexOf(cs, o)), vs)
<1>1. Has(prj, prj.conns, prj.views) /\ prj.conns = cs /\ prj.views = vs
  BY DEF Has
<1>2. Makes(RedoAddConnection(cmd, prj), cmd, AddNew(cs, cmd.cn, cmd.c), vs)
  BY <1>1, Untouched, MakesIs DEF RedoAddConnection
<1>3. Makes(UndoAddConnection(cmd, prj), [cmd EXCEPT !.c = At(cs, cmd.cn)],
            Drop(cs, cmd.cn), vs)
  BY <1>1, Untouched, MakesIs DEF UndoAddConnection
<1>4. /\ Makes(RedoReimport(cmd, prj), [cmd EXCEPT !.old = At(cs, cmd.cn)],
               Put(Drop(cs, cmd.cn), cmd.cn, cmd.c), vs)
      /\ Makes(UndoReimport(cmd, prj), [cmd EXCEPT !.c = At(cs, cmd.cn)],
               MoveTo(Put(Drop(cs, cmd.cn), cmd.cn, cmd.old), cmd.cn, cmd.pos), vs)
  <2> DEFINE bare == Unbound(prj, ByConnection(prj.bs, cmd.cn))
  <2>1. Has(bare, cs, vs)
    BY Untouched
  <2> HIDE DEF bare
  <2>2. bare.conns = cs
    BY <2>1 DEF Has
  <2>3. \A e, S : Has(Bound([bare EXCEPT !.conns = e], S), e, vs)
    <3> TAKE e, S
    <3>1. Has([bare EXCEPT !.conns = e], e, vs)
      BY <2>1, Untouched
    <3> QED BY <3>1, Untouched
  <2> QED BY <1>1, <2>2, <2>3, MakesIs DEF RedoReimport, UndoReimport, bare
<1>5. Makes(RedoDelConnection(cmd, prj), cmd, Drop(cs, cmd.cn), vs)
  BY <1>1, Untouched, MakesIs DEF RedoDelConnection
<1>6. Makes(UndoDelConnection(cmd, prj), cmd,
            MoveTo(AddNew(cs, cmd.cn, cmd.c), cmd.cn, cmd.pos), vs)
  <2>1. \A e, S : Has(Bound([prj EXCEPT !.conns = e], S), e, vs)
    <3> TAKE e, S
    <3>1. Has([prj EXCEPT !.conns = e], e, vs)
      BY Untouched
    <3> QED BY <3>1, Untouched
  <2> QED BY <1>1, <2>1, MakesIs DEF UndoDelConnection
<1>7. ASSUME NEW o, NEW n
      PROVE  Makes(ConnectionRenamed(cmd, prj, o, n), cmd,
                   PutAt(Drop(cs, o), n, At(cs, o), IndexOf(cs, o)), vs)
  BY <1>1, Untouched, MakesIs DEF ConnectionRenamed
<1> QED BY <1>2, <1>3, <1>4, <1>5, <1>6, <1>7

LEMMA VariableMakes ==
  ASSUME NEW prj, NEW cs, NEW vs, Has(prj, cs, vs), NEW cmd,
         NEW d, d = At(cs, cmd.cn).vars
  PROVE  /\ Makes(RedoAddVariable(cmd, prj), cmd,
                  VarsPut(cs, cmd.cn, Put(d, cmd.vn, cmd.vt)), vs)
         /\ Makes(UndoAddVariable(cmd, prj), cmd,
                  VarsPut(cs, cmd.cn, Drop(d, cmd.vn)), vs)
         /\ Makes(RedoDelVariable(cmd, prj), cmd,
                  VarsPut(cs, cmd.cn, Drop(d, cmd.vn)), vs)
         /\ Makes(UndoDelVariable(cmd, prj), cmd,
                  VarsPut(cs, cmd.cn, MoveTo(Put(d, cmd.vn, cmd.vt), cmd.vn, cmd.pos)),
                  vs)
         /\ \A o, n : Makes(VariableRenamed(cmd, prj, o, n), cmd,
              VarsPut(cs, cmd.cn, PutAt(Drop(d, o), n, At(d, o), IndexOf(d, o))), vs)
<1>1. VarsOf(prj, cmd.cn) = d
  BY DEF Has, VarsOf
<1>2. \A c, e : Has(SetVars(prj, c, e), VarsPut(cs, c, e), vs)
  BY Untouched
<1>3. \A c, e, f : Has([SetVars(prj, c, e) EXCEPT !.bs = f], VarsPut(cs, c, e), vs)
  BY <1>2, Untouched
<1>4. \A c, e, S : Has(Bound(SetVars(prj, c, e), S), VarsPut(cs, c, e), vs)
  BY <1>2, Untouched
<1>5. Makes(RedoAddVariable(cmd, prj), cmd,
            VarsPut(cs, cmd.cn, Put(d, cmd.vn, cmd.vt)), vs)
  BY <1>1, <1>2, MakesIs DEF RedoAddVariable
<1>6. Makes(UndoAddVariable(cmd, prj), cmd, VarsPut(cs, cmd.cn, Drop(d, cmd.vn)), vs)
  BY <1>1, <1>2, MakesIs DEF UndoAddVariable
<1>7. Makes(RedoDelVariable(cmd, prj), cmd, VarsPut(cs, cmd.cn, Drop(d, cmd.vn)), vs)
  BY <1>1, <1>2, MakesIs DEF RedoDelVariable
<1>8. Makes(UndoDelVariable(cmd, prj), cmd,
            VarsPut(cs, cmd.cn, MoveTo(Put(d, cmd.vn, cmd.vt), cmd.vn, cmd.pos)), vs)
  BY <1>1, <1>4, MakesIs DEF UndoDelVariable
<1>9. ASSUME NEW o, NEW n
      PROVE  Makes(VariableRenamed(cmd, prj, o, n), cmd,
               VarsPut(cs, cmd.cn, PutAt(Drop(d, o), n, At(d, o), IndexOf(d, o))), vs)
  BY <1>1, <1>3, MakesIs DEF VariableRenamed
<1> QED BY <1>5, <1>6, <1>7, <1>8, <1>9

LEMMA ViewMakes ==
  ASSUME NEW prj, NEW cs, NEW vs, Has(prj, cs, vs), NEW cmd
  PROVE  /\ Makes(RedoAddView(cmd, prj), cmd, cs,
                  IF cmd.pos = 0 THEN AddNew(vs, cmd.name, cmd.view)
                  ELSE MoveTo(AddNew(vs, cmd.name, cmd.view), cmd.name, cmd.pos))
         /\ Makes(UndoAddView(cmd, prj), [cmd EXCEPT !.view = At(vs, cmd.name)],
                  cs, Drop(vs, cmd.name))
         /\ Makes(RedoDelView(cmd, prj),
                  [cmd EXCEPT !.view = At(vs, cmd.name), !.bl = {}],
                  cs, Drop(vs, cmd.name))
         /\ Makes(UndoDelView(cmd, prj), cmd, cs,
                  MoveTo(AddNew(vs, cmd.name, cmd.view), cmd.name, cmd.pos))
         /\ \A o, n : Makes(ViewRenamed(cmd, prj, o, n), cmd, cs,
                            MoveTo(AddNew(Drop(vs, o), n, At(vs, o)), n, cmd.pos))
         /\ \A i, j : Makes(ViewMoved(cmd, prj, i, j), cmd, cs,
                            MoveTo(vs, vs[i].key, j))
<1>1. prj.views = vs /\ PanelsOf(prj, cmd.name) = At(vs, cmd.name)
  BY DEF Has, PanelsOf
<1>2. \A e : Has([prj EXCEPT !.views = e], cs, e)
  BY Untouched
<1>3. \A e, S : Has(Bound([prj EXCEPT !.views = e], S), cs, e)
  BY <1>2, Untouched
<1>4. Makes(RedoAddView(cmd, prj), cmd, cs,
            IF cmd.pos = 0 THEN AddNew(vs, cmd.name, cmd.view)
            ELSE MoveTo(AddNew(vs, cmd.name, cmd.view), cmd.name, cmd.pos))
  BY <1>1, <1>2, MakesIs DEF RedoAddView
<1>5. Makes(UndoAddView(cmd, prj), [cmd EXCEPT !.view = At(vs, cmd.name)],
            cs, Drop(vs, cmd.name))
  <2>1. \A e, S : Has([Unbound(prj, S) EXCEPT !.views = e], cs, e)
    <3> TAKE e, S
    <3>1. Has(Unbound(prj, S), cs, vs)
      BY Untouched
    <3> QED BY <3>1, Untouched
  <2>2. \A S : Unbound(prj, S).views = vs
    <3> TAKE S
    <3>1. Has(Unbound(prj, S), cs, vs)
      BY Untouched
    <3> QED BY <3>1 DEF Has
  <2> QED BY <1>1, <2>1, <2>2, MakesIs DEF UndoAddView
<1>6. Makes(RedoDelView(cmd, prj), [cmd EXCEPT !.view = At(vs, cmd.name), !.bl = {}],
            cs, Drop(vs, cmd.name))
  BY <1>1, <1>2, MakesIs DEF RedoDelView
<1>7. Makes(UndoDelView(cmd, prj), cmd, cs,
            MoveTo(AddNew(vs, cmd.name, cmd.view), cmd.name, cmd.pos))
  BY <1>1, <1>3, MakesIs DEF UndoDelView
<1>8. ASSUME NEW o, NEW n
      PROVE  Makes(ViewRenamed(cmd, prj, o, n), cmd, cs,
                   MoveTo(AddNew(Drop(vs, o), n, At(vs, o)), n, cmd.pos))
  BY <1>1, Untouched, MakesIs DEF ViewRenamed
<1>9. ASSUME NEW i, NEW j
      PROVE  Makes(ViewMoved(cmd, prj, i, j), cmd, cs, MoveTo(vs, vs[i].key, j))
  BY <1>1, <1>2, MakesIs DEF ViewMoved
<1> QED BY <1>4, <1>5, <1>6, <1>7, <1>8, <1>9

LEMMA PanelMakes ==
  ASSUME NEW prj, NEW cs, NEW vs, Has(prj, cs, vs), NEW cmd,
         NEW d, d = At(vs, cmd.view)
  PROVE  /\ Makes(RedoAddPanel(cmd, prj), cmd, cs, With(vs, cmd.view,
                  IF cmd.src = None THEN AddNew(d, cmd.name, cmd.panel)
                  ELSE MoveTo(AddNew(d, cmd.name, Relinked(cmd.panel, cmd.src, cmd.name)),
                              cmd.name, cmd.pos)))
         /\ Makes(UndoAddPanel(cmd, prj), [cmd EXCEPT !.panel = At(d, cmd.name)],
                  cs, With(vs, cmd.view, Drop(d, cmd.name)))
         /\ Makes(RedoDelPanel(cmd, prj),
                  [cmd EXCEPT !.panel = At(d, cmd.name), !.bl = {}],
                  cs, With(vs, cmd.view, Drop(d, cmd.name)))
         /\ Makes(UndoDelPanel(cmd, prj), cmd, cs, With(vs, cmd.view,
                  MoveTo(AddNew(d, cmd.name, cmd.panel), cmd.name, cmd.pos)))
         /\ \A o, n :
              /\ Makes(PanelRenamed(cmd, prj, o, n), cmd, cs, With(vs, cmd.view,
                   AllRelinked(MoveTo(AddNew(Drop(d, o), n, At(d, o)), n, cmd.pos),
                               o, n)))
              /\ (\E ts \in Values(d) : n \in Values(ts)) =>
                   "merged" \in PanelRenamed(cmd, prj, o, n).wrong
         /\ \A p : Makes(PanelMoved(cmd, prj, p), cmd, cs,
                         With(vs, cmd.view, MoveTo(d, p, cmd.pos)))
<1>1. PanelsOf(prj, cmd.view) = d
  BY DEF Has, PanelsOf
<1>2. \A w, e : Has(SetPanels(prj, w, e), cs, With(vs, w, e))
  BY Untouched
<1>3. \A w, e, S : /\ Has(Bound(SetPanels(prj, w, e), S), cs, With(vs, w, e))
                   /\ Has(Unbound(SetPanels(prj, w, e), S), cs, With(vs, w, e))
  BY <1>2, Untouched
<1>4. \A w, e, f : Has([SetPanels(prj, w, e) EXCEPT !.bs = f], cs, With(vs, w, e))
  BY <1>2, Untouched
<1>5. Makes(RedoAddPanel(cmd, prj), cmd, cs, With(vs, cmd.view,
            IF cmd.src = None THEN AddNew(d, cmd.name, cmd.panel)
            ELSE MoveTo(AddNew(d, cmd.name, Relinked(cmd.panel, cmd.src, cmd.name)),
                        cmd.name, cmd.pos)))
  BY <1>1, <1>2, MakesIs DEF RedoAddPanel
<1>6. Makes(UndoAddPanel(cmd, prj), [cmd EXCEPT !.panel = At(d, cmd.name)],
            cs, With(vs, cmd.view, Drop(d, cmd.name)))
  BY <1>1, <1>3, MakesIs DEF UndoAddPanel
<1>7. Makes(RedoDelPanel(cmd, prj), [cmd EXCEPT !.panel = At(d, cmd.name), !.bl = {}],
            cs, With(vs, cmd.view, Drop(d, cmd.name)))
  BY <1>1, <1>2, MakesIs DEF RedoDelPanel
<1>8. Makes(UndoDelPanel(cmd, prj), cmd, cs, With(vs, cmd.view,
            MoveTo(AddNew(d, cmd.name, cmd.panel), cmd.name, cmd.pos)))
  BY <1>1, <1>3, MakesIs DEF UndoDelPanel
<1>9. ASSUME NEW o, NEW n
      PROVE  /\ Makes(PanelRenamed(cmd, prj, o, n), cmd, cs, With(vs, cmd.view,
                  AllRelinked(MoveTo(AddNew(Drop(d, o), n, At(d, o)), n, cmd.pos),
                              o, n)))
             /\ (\E ts \in Values(d) : n \in Values(ts)) =>
                  "merged" \in PanelRenamed(cmd, prj, o, n).wrong
  <2>1. Makes(PanelRenamed(cmd, prj, o, n), cmd, cs, With(vs, cmd.view,
                AllRelinked(MoveTo(AddNew(Drop(d, o), n, At(d, o)), n, cmd.pos), o, n)))
    BY <1>1, <1>4, MakesIs DEF PanelRenamed, AllRelinked
  <2>2. (\E ts \in Values(d) : n \in Values(ts)) =>
          "merged" \in PanelRenamed(cmd, prj, o, n).wrong
    BY <1>1, ResultIs DEF PanelRenamed, If
  <2> QED BY <2>1, <2>2
<1>10. ASSUME NEW p
       PROVE  Makes(PanelMoved(cmd, prj, p), cmd, cs,
                    With(vs, cmd.view, MoveTo(d, p, cmd.pos)))
  BY <1>1, <1>2, MakesIs DEF PanelMoved
<1> QED BY <1>5, <1>6, <1>7, <1>8, <1>9, <1>10

\* The dictionaries a selection makes.
Grown(d, ts)      == FoldLeft(LAMBDA a, x : AddNew(a, x.key, x.val), d, ts)
Shrunk(d, ts)     == FoldLeft(LAMBDA a, x : Drop(a, x.key), d, ts)
Deleted(d, ts)    ==
  LET Del(a, e) == [left |-> Drop(a.left, e.key),
                    pos  |-> Append(a.pos, IF e.key \in Keys(a.left)
                                           THEN IndexOf(a.left, e.key) ELSE 0)]
  IN FoldLeft(Del, [left |-> d, pos |-> << >>], ts)
Restored(d, ts, pos) ==
  LET Back(a, i) == MoveTo(AddNew(a, ts[i].key, ts[i].val), ts[i].key, pos[i])
  IN FoldLeft(Back, d, [i \in 1..Len(ts) |-> Len(ts) + 1 - i])

LEMMA SelectionMakes ==
  ASSUME NEW prj, NEW cs, NEW vs, Has(prj, cs, vs), NEW cmd,
         NEW d, d = At(At(vs, cmd.view), cmd.panel)
  PROVE  /\ Makes(RedoAddSelection(cmd, prj), cmd, cs,
                  TemplatesPut(vs, cmd.view, cmd.panel, Grown(d, cmd.ts)))
         /\ Makes(UndoAddSelection(cmd, prj), [cmd EXCEPT !.ts = Taken(cmd.ts, d)],
                  cs, TemplatesPut(vs, cmd.view, cmd.panel, Shrunk(d, cmd.ts)))
         /\ \E bl : Makes(RedoDelSelection(cmd, prj),
                  [cmd EXCEPT !.ts = Taken(cmd.ts, d), !.pos = Deleted(d, cmd.ts).pos,
                              !.bl = bl],
                  cs, TemplatesPut(vs, cmd.view, cmd.panel, Deleted(d, cmd.ts).left))
         /\ Makes(UndoDelSelection(cmd, prj), [cmd EXCEPT !.bl = {}], cs,
                  TemplatesPut(vs, cmd.view, cmd.panel, Restored(d, cmd.ts, cmd.pos)))
<1>1. TemplatesOf(prj, cmd.view, cmd.panel) = d
  BY DEF Has, TemplatesOf
<1>2. \A e, S : /\ Has(Bound(SetTemplates(prj, cmd.view, cmd.panel, e), S), cs,
                       TemplatesPut(vs, cmd.view, cmd.panel, e))
                /\ Has(Unbound(SetTemplates(prj, cmd.view, cmd.panel, e), S), cs,
                       TemplatesPut(vs, cmd.view, cmd.panel, e))
  <2> TAKE e, S
  <2>1. Has(SetTemplates(prj, cmd.view, cmd.panel, e), cs,
            TemplatesPut(vs, cmd.view, cmd.panel, e))
    BY Untouched
  <2> QED BY <2>1, Untouched
<1>3. Makes(RedoAddSelection(cmd, prj), cmd, cs,
            TemplatesPut(vs, cmd.view, cmd.panel, Grown(d, cmd.ts)))
  BY <1>1, <1>2, MakesIs DEF RedoAddSelection, Grown
<1>4. Makes(UndoAddSelection(cmd, prj), [cmd EXCEPT !.ts = Taken(cmd.ts, d)],
            cs, TemplatesPut(vs, cmd.view, cmd.panel, Shrunk(d, cmd.ts)))
  BY <1>1, <1>2, MakesIs DEF UndoAddSelection, Shrunk
<1>5. \E bl : Makes(RedoDelSelection(cmd, prj),
                [cmd EXCEPT !.ts = Taken(cmd.ts, d), !.pos = Deleted(d, cmd.ts).pos,
                            !.bl = bl],
                cs, TemplatesPut(vs, cmd.view, cmd.panel, Deleted(d, cmd.ts).left))
  BY <1>1, <1>2, MakesIs, Zenon DEF RedoDelSelection, Deleted
<1>6. Makes(UndoDelSelection(cmd, prj), [cmd EXCEPT !.bl = {}], cs,
            TemplatesPut(vs, cmd.view, cmd.panel, Restored(d, cmd.ts, cmd.pos)))
  BY <1>1, <1>2, MakesIs, Zenon DEF UndoDelSelection, Restored
<1> QED BY <1>3, <1>4, <1>5, <1>6

LEMMA TemplateMakes ==
  ASSUME NEW prj, NEW cs, NEW vs, Has(prj, cs, vs), NEW cmd,
         NEW d, d = At(At(vs, cmd.view), cmd.panel)
  PROVE  /\ \A o, n :
              /\ Makes(TemplateRenamed(cmd, prj, o, n), cmd, cs,
                   TemplatesPut(vs, cmd.view, cmd.panel,
                     IF cmd.pos \in DOMAIN d
                     THEN PutAt(Drop(d, o), n, d[cmd.pos].val,
                                IF o \in Keys(d) THEN IndexOf(d, o) ELSE 0)
                     ELSE Drop(d, o)))
              /\ n \in Keys(d) =>
                   "overwritten" \in TemplateRenamed(cmd, prj, o, n).wrong
         /\ \A t : Makes(TemplateMoved(cmd, prj, t), cmd, cs,
                     TemplatesPut(vs, cmd.view, cmd.panel, MoveTo(d, t, cmd.pos)))
         /\ \A n : Makes(LinkSet(cmd, prj, n), cmd, cs,
                     IF cmd.templ \in Keys(d)
                     THEN TemplatesPut(vs, cmd.view, cmd.panel, With(d, cmd.templ, n))
                     ELSE vs)
         /\ \A S, U : Makes(BindingSwitched(cmd, prj, S, U), cmd, cs, vs)
<1>1. TemplatesOf(prj, cmd.view, cmd.panel) = d
  BY DEF Has, TemplatesOf
<1>2. \A e : Has(SetTemplates(prj, cmd.view, cmd.panel, e), cs,
                 TemplatesPut(vs, cmd.view, cmd.panel, e))
  BY Untouched
<1>3. \A e, f : Has([SetTemplates(prj, cmd.view, cmd.panel, e) EXCEPT !.bs = f], cs,
                    TemplatesPut(vs, cmd.view, cmd.panel, e))
  BY <1>2, Untouched
<1>4. ASSUME NEW o, NEW n
      PROVE  /\ Makes(TemplateRenamed(cmd, prj, o, n), cmd, cs,
                  TemplatesPut(vs, cmd.view, cmd.panel,
                    IF cmd.pos \in DOMAIN d
                    THEN PutAt(Drop(d, o), n, d[cmd.pos].val,
                               IF o \in Keys(d) THEN IndexOf(d, o) ELSE 0)
                    ELSE Drop(d, o)))
             /\ n \in Keys(d) =>
                  "overwritten" \in TemplateRenamed(cmd, prj, o, n).wrong
  <2>1. Makes(TemplateRenamed(cmd, prj, o, n), cmd, cs,
              TemplatesPut(vs, cmd.view, cmd.panel,
                IF cmd.pos \in DOMAIN d
                THEN PutAt(Drop(d, o), n, d[cmd.pos].val,
                           IF o \in Keys(d) THEN IndexOf(d, o) ELSE 0)
                ELSE Drop(d, o)))
    BY <1>1, <1>3, MakesIs DEF TemplateRenamed
  <2>2. n \in Keys(d) => "overwritten" \in TemplateRenamed(cmd, prj, o, n).wrong
    BY <1>1, ResultIs DEF TemplateRenamed, If
  <2> QED BY <2>1, <2>2
<1>5. ASSUME NEW t
      PROVE  Makes(TemplateMoved(cmd, prj, t), cmd, cs,
                   TemplatesPut(vs, cmd.view, cmd.panel, MoveTo(d, t, cmd.pos)))
  BY <1>1, <1>2, MakesIs DEF TemplateMoved
<1>6. ASSUME NEW n
      PROVE  Makes(LinkSet(cmd, prj, n), cmd, cs,
                   IF cmd.templ \in Keys(d)
                   THEN TemplatesPut(vs, cmd.view, cmd.panel, With(d, cmd.templ, n))
                   ELSE vs)
  BY <1>1, <1>2, MakesIs DEF LinkSet
<1>7. ASSUME NEW S, NEW U
      PROVE  Makes(BindingSwitched(cmd, prj, S, U), cmd, cs, vs)
  <2>1. Has(Unbound(prj, S), cs, vs)
    BY Untouched
  <2>2. Has(Bound(Unbound(prj, S), U), cs, vs)
    BY <2>1, Untouched
  <2> QED BY <2>2, MakesIs DEF BindingSwitched
<1> QED BY <1>4, <1>5, <1>6, <1>7

-----------------------------------------------------------------------------
(***************************************************************************)
(* Folds, by induction over the length through the least number principle. *)
(***************************************************************************)
\* Every set of numbers has a least one.
LEMMA LeastNatural ==
  ASSUME NEW T \in SUBSET Nat, T # {}
  PROVE  \E m \in T : \A n \in T : m <= n
<1> DEFINE R == {ss \in Nat \X Nat : ss[1] < ss[2]}
<1>1. IsWellFoundedOn(R, Nat)
  BY NatLessThanWellFounded, Zenon DEF OpToRel
<1>2. \A x, y \in Nat : y < x => <<y, x>> \in R
  OBVIOUS
<1> HIDE DEF R
<1>3. PICK x \in T : \A y \in T : ~(<<y, x>> \in R)
  BY <1>1, WFMin, Zenon
<1>4. \A y \in T : ~(y < x)
  BY <1>2, <1>3
<1> QED BY <1>4

LEMMA MaxIs ==
  ASSUME NEW m \in Nat, NEW x \in SUBSET (1..m), m \in x
  PROVE  Max(x) = m
<1>1. \A y \in x : m >= y
  OBVIOUS
<1>2. \A z \in x : (\A y \in x : z >= y) => z = m
  OBVIOUS
<1> QED BY <1>1, <1>2 DEF Max

\* One step of the fold w, with the items ts and their positions.
Turn(w, ts, pos, a, x) ==
  CASE w = "grow"   -> AddNew(a, x.key, x.val)
    [] w = "shrink" -> Drop(a, x.key)
    [] w = "delete" -> [left |-> Drop(a.left, x.key),
                        pos  |-> Append(a.pos, IF x.key \in Keys(a.left)
                                               THEN IndexOf(a.left, x.key) ELSE 0)]
    [] w = "restore" -> MoveTo(AddNew(a, ts[x].key, ts[x].val), ts[x].key, pos[x])

\* How a fold goes through the first m elements of q.
Folds(g, w, ts, pos, s, q, m) ==
  g = [x \in SUBSET (1..m) |->
         IF x = {} THEN s ELSE Turn(w, ts, pos, g[x \ {Max(x)}], q[Max(x)])]

LEMMA FoldExists ==
  ASSUME NEW w, NEW ts, NEW pos, NEW s, NEW q, NEW n \in Nat
  PROVE  \E g : Folds(g, w, ts, pos, s, q, n)
<1> DEFINE T == {m \in Nat : ~ \E g : Folds(g, w, ts, pos, s, q, m)}
<1> SUFFICES T = {}
  OBVIOUS
<1> SUFFICES ASSUME T # {} PROVE FALSE
  OBVIOUS
<1>1. PICK m \in T : \A k \in T : m <= k
  BY LeastNatural, Zenon
<1>2. CASE m = 0
  <2> DEFINE g == [x \in SUBSET {} |-> s]
  <2>1. 1..0 = {}
    OBVIOUS
  <2>2. g = [x \in SUBSET {} |-> IF x = {} THEN s
                ELSE Turn(w, ts, pos, g[x \ {Max(x)}], q[Max(x)])]
    OBVIOUS
  <2> HIDE DEF g
  <2>3. Folds(g, w, ts, pos, s, q, 0)
    BY <2>1, <2>2 DEF Folds
  <2> QED BY <1>2, <2>3, Zenon
<1>3. CASE m # 0
  <2>1. m \in Nat /\ m - 1 \in Nat /\ ~(m <= m - 1)
    BY <1>1, <1>3
  <2>2. m - 1 \notin T
    BY <1>1, <2>1, Zenon
  <2>3. PICK g : Folds(g, w, ts, pos, s, q, m - 1)
    BY <2>1, <2>2, Zenon
  <2> DEFINE h == [x \in SUBSET (1..m) |->
                     IF m \in x THEN Turn(w, ts, pos, g[x \ {m}], q[m]) ELSE g[x]]
  <2>4. ASSUME NEW x \in SUBSET (1..m)
        PROVE  h[x] = IF x = {} THEN s
                      ELSE Turn(w, ts, pos, h[x \ {Max(x)}], q[Max(x)])
    <3>1. \A y \in SUBSET (1..m) : m \notin y => y \in SUBSET (1..(m - 1))
      BY <2>1
    <3>2. \A y \in SUBSET (1..(m - 1)) :
             g[y] = IF y = {} THEN s
                    ELSE Turn(w, ts, pos, g[y \ {Max(y)}], q[Max(y)])
      BY <2>3, Zenon DEF Folds
    <3>3. \A y \in SUBSET (1..m) :
             h[y] = IF m \in y THEN Turn(w, ts, pos, g[y \ {m}], q[m]) ELSE g[y]
      BY Zenon
    <3> HIDE DEF h
    <3>4. CASE m \in x
      <4>1. Max(x) = m
        BY <3>4, <2>1, MaxIs, Zenon
      <4>2. x \ {m} \in SUBSET (1..m) /\ m \notin x \ {m} /\ x # {}
        BY <3>4
      <4>3. h[x \ {m}] = g[x \ {m}]
        BY <3>3, <4>2, Zenon
      <4> QED BY <3>3, <3>4, <4>1, <4>2, <4>3, Zenon
    <3>5. CASE m \notin x
      <4>1. h[x] = g[x]
        BY <3>3, <3>5, Zenon
      <4>2. x \ {Max(x)} \in SUBSET (1..m) /\ m \notin x \ {Max(x)}
        BY <3>5
      <4>3. h[x \ {Max(x)}] = g[x \ {Max(x)}]
        BY <3>3, <4>2, Zenon
      <4> QED BY <3>1, <3>2, <3>5, <4>1, <4>3, Zenon
    <3> QED BY <3>4, <3>5, Zenon
  <2>5. h = [x \in SUBSET (1..m) |-> h[x]]
    BY Zenon
  <2> HIDE DEF h
  <2>6. Folds(h, w, ts, pos, s, q, m)
    BY <2>4, <2>5, Zenon DEF Folds
  <2> QED BY <1>1, <2>6, Zenon
<1> QED BY <1>2, <1>3, Zenon

\* The results of a fold: one for each number of elements gone through.
Chain(r, w, ts, pos, s, q, n) ==
  /\ r = [i \in 0..n |-> r[i]]
  /\ r[0] = s /\ \A i \in 1..n : r[i] = Turn(w, ts, pos, r[i - 1], q[i])

LEMMA FoldChain ==
  ASSUME NEW w, NEW ts, NEW pos, NEW s, NEW q, NEW n \in Nat,
         NEW g, Folds(g, w, ts, pos, s, q, n)
  PROVE  Chain([i \in 0..n |-> g[1..i]], w, ts, pos, s, q, n)
<1> DEFINE r == [i \in 0..n |-> g[1..i]]
<1>1. \A x \in SUBSET (1..n) :
        g[x] = IF x = {} THEN s ELSE Turn(w, ts, pos, g[x \ {Max(x)}], q[Max(x)])
  BY Zenon DEF Folds
<1>2. r[0] = s
  <2>1. r[0] = g[1..0] /\ 1..0 = {}
    OBVIOUS
  <2> QED BY <1>1, <2>1
<1>3. ASSUME NEW i \in 1..n
      PROVE  r[i] = Turn(w, ts, pos, r[i - 1], q[i])
  <2>1. r[i] = g[1..i] /\ r[i - 1] = g[1..(i - 1)]
    OBVIOUS
  <2>2. /\ 1..i \in SUBSET (1..n) /\ 1..i # {} /\ i \in 1..i
        /\ i \in Nat /\ (1..i) \ {i} = 1..(i - 1)
    OBVIOUS
  <2>3. Max(1..i) = i
    BY <2>2, MaxIs
  <2> HIDE DEF r
  <2>4. g[1..i] = Turn(w, ts, pos, g[(1..i) \ {i}], q[i])
    <3>1. g[1..i] = Turn(w, ts, pos, g[(1..i) \ {Max(1..i)}], q[Max(1..i)])
      BY <1>1, <2>2
    <3> QED BY <2>3, <3>1
  <2> QED BY <2>1, <2>2, <2>4
<1>4. r = [i \in 0..n |-> r[i]]
  OBVIOUS
<1> HIDE DEF r
<1>5. Chain(r, w, ts, pos, s, q, n)
  BY <1>2, <1>3, <1>4 DEF Chain
<1> QED BY <1>5 DEF r

\* The four folds over a selection.
LEMMA GrownChain ==
  ASSUME NEW d, NEW ts, NEW n \in Nat, DOMAIN ts = 1..n, NEW pos
  PROVE  \E r : Chain(r, "grow", ts, pos, d, ts, n) /\ Grown(d, ts) = r[n]
<1> DEFINE P(f) == f = [x \in SUBSET (1..n) |->
                     IF x = {} THEN d
                     ELSE AddNew(f[x \ {Max(x)}], ts[Max(x)].key, ts[Max(x)].val)]
           g == CHOOSE f : P(f)
<1>1. Grown(d, ts) = g[1..n]
  BY Zenon DEF Grown, FoldLeft, MapThenFoldSet
<1>2. Folds(g, "grow", ts, pos, d, ts, n)
  <2>1. PICK f : Folds(f, "grow", ts, pos, d, ts, n)
    BY FoldExists, Zenon
  <2>2. \A e : Folds(e, "grow", ts, pos, d, ts, n) <=> P(e)
    BY Zenon DEF Folds, Turn
  <2> HIDE DEF P
  <2> QED BY <2>1, <2>2, Zenon
<1> HIDE DEF g
<1>3. Chain([i \in 0..n |-> g[1..i]], "grow", ts, pos, d, ts, n)
  BY <1>2, FoldChain
<1>4. [i \in 0..n |-> g[1..i]][n] = g[1..n]
  OBVIOUS
<1> QED BY <1>1, <1>3, <1>4, Zenon

LEMMA ShrunkChain ==
  ASSUME NEW d, NEW ts, NEW n \in Nat, DOMAIN ts = 1..n, NEW pos
  PROVE  \E r : Chain(r, "shrink", ts, pos, d, ts, n) /\ Shrunk(d, ts) = r[n]
<1> DEFINE P(f) == f = [x \in SUBSET (1..n) |->
                     IF x = {} THEN d
                     ELSE Drop(f[x \ {Max(x)}], ts[Max(x)].key)]
           g == CHOOSE f : P(f)
<1>1. Shrunk(d, ts) = g[1..n]
  BY Zenon DEF Shrunk, FoldLeft, MapThenFoldSet
<1>2. Folds(g, "shrink", ts, pos, d, ts, n)
  <2>1. PICK f : Folds(f, "shrink", ts, pos, d, ts, n)
    BY FoldExists, Zenon
  <2>2. \A e : Folds(e, "shrink", ts, pos, d, ts, n) <=> P(e)
    BY Zenon DEF Folds, Turn
  <2> HIDE DEF P
  <2> QED BY <2>1, <2>2, Zenon
<1> HIDE DEF g
<1>3. Chain([i \in 0..n |-> g[1..i]], "shrink", ts, pos, d, ts, n)
  BY <1>2, FoldChain
<1>4. [i \in 0..n |-> g[1..i]][n] = g[1..n]
  OBVIOUS
<1> QED BY <1>1, <1>3, <1>4, Zenon

LEMMA DeletedChain ==
  ASSUME NEW d, NEW ts, NEW n \in Nat, DOMAIN ts = 1..n, NEW pos
  PROVE  \E r : /\ Chain(r, "delete", ts, pos, [left |-> d, pos |-> << >>], ts, n)
                /\ Deleted(d, ts) = r[n]
<1> DEFINE s == [left |-> d, pos |-> << >>]
           P(f) == f = [x \in SUBSET (1..n) |->
                     IF x = {} THEN s
                     ELSE [left |-> Drop(f[x \ {Max(x)}].left, ts[Max(x)].key),
                           pos  |-> Append(f[x \ {Max(x)}].pos,
                             IF ts[Max(x)].key \in Keys(f[x \ {Max(x)}].left)
                             THEN IndexOf(f[x \ {Max(x)}].left, ts[Max(x)].key)
                             ELSE 0)]]
           g == CHOOSE f : P(f)
<1>1. Deleted(d, ts) = g[1..n]
  BY Zenon DEF Deleted, FoldLeft, MapThenFoldSet
<1> HIDE DEF s
<1>2. Folds(g, "delete", ts, pos, s, ts, n)
  <2>1. PICK f : Folds(f, "delete", ts, pos, s, ts, n)
    BY FoldExists, Zenon
  <2>2. \A e : Folds(e, "delete", ts, pos, s, ts, n) <=> P(e)
    BY Zenon DEF Folds, Turn
  <2> HIDE DEF P
  <2> QED BY <2>1, <2>2, Zenon
<1> HIDE DEF g
<1>3. Chain([i \in 0..n |-> g[1..i]], "delete", ts, pos, s, ts, n)
  BY <1>2, FoldChain
<1>4. [i \in 0..n |-> g[1..i]][n] = g[1..n]
  OBVIOUS
<1> QED BY <1>1, <1>3, <1>4, Zenon DEF s

LEMMA RestoredChain ==
  ASSUME NEW d, NEW ts, NEW n \in Nat, Len(ts) = n, NEW pos
  PROVE  \E r : /\ Chain(r, "restore", ts, pos, d, [i \in 1..n |-> n + 1 - i], n)
                /\ Restored(d, ts, pos) = r[n]
<1> DEFINE q == [i \in 1..Len(ts) |-> Len(ts) + 1 - i]
           P(f) == f = [x \in SUBSET (1..n) |->
                     IF x = {} THEN d
                     ELSE MoveTo(AddNew(f[x \ {Max(x)}], ts[q[Max(x)]].key,
                                        ts[q[Max(x)]].val),
                                 ts[q[Max(x)]].key, pos[q[Max(x)]])]
           g == CHOOSE f : P(f)
<1>1. Restored(d, ts, pos) = FoldLeft(LAMBDA a, i : MoveTo(AddNew(a, ts[i].key, ts[i].val),
                                                  ts[i].key, pos[i]), d, q)
  BY Zenon DEF Restored
<1>2. DOMAIN q = 1..n /\ q = [i \in 1..n |-> n + 1 - i]
  OBVIOUS
<1> HIDE DEF q
<1>3. Restored(d, ts, pos) = g[1..n]
  BY <1>1, <1>2, Zenon DEF FoldLeft, MapThenFoldSet
<1>4. Folds(g, "restore", ts, pos, d, q, n)
  <2>1. PICK f : Folds(f, "restore", ts, pos, d, q, n)
    BY FoldExists, Zenon
  <2>2. \A e : Folds(e, "restore", ts, pos, d, q, n) <=> P(e)
    BY Zenon DEF Folds, Turn
  <2> HIDE DEF P
  <2> QED BY <2>1, <2>2, Zenon
<1> HIDE DEF g
<1>5. Chain([i \in 0..n |-> g[1..i]], "restore", ts, pos, d, q, n)
  BY <1>4, FoldChain
<1>6. [i \in 0..n |-> g[1..i]][n] = g[1..n]
  OBVIOUS
<1> QED BY <1>2, <1>3, <1>5, <1>6, Zenon

-----------------------------------------------------------------------------
\* Induction over the numbers up to n.
LEMMA Upwards ==
  ASSUME NEW n \in Nat, NEW S, 0 \in S, \A i \in 1..n : i - 1 \in S => i \in S
  PROVE  \A i \in 0..n : i \in S
<1> DEFINE T == {i \in 0..n : i \notin S}
<1> SUFFICES ASSUME T # {} PROVE FALSE
  OBVIOUS
<1>1. T \in SUBSET Nat
  OBVIOUS
<1>2. PICK m \in T : \A k \in T : m <= k
  BY <1>1, LeastNatural
<1>3. m \in 1..n /\ m - 1 \in 0..n
  BY <1>2
<1>4. m - 1 \notin T
  BY <1>2, <1>3
<1> QED BY <1>2, <1>3, <1>4

\* Two folds in the same way through the same elements agree.
LEMMA SameChain ==
  ASSUME NEW n \in Nat, NEW m \in Nat, NEW k \in Nat, k <= n, k <= m, NEW w,
         NEW ts, NEW us, NEW pos, NEW rs, NEW s, NEW q, NEW p,
         \A i \in 1..k : q[i] = p[i],
         NEW r, Chain(r, w, ts, pos, s, q, n), NEW l, Chain(l, w, ts, pos, s, p, m)
  PROVE  r[k] = l[k]
<1> DEFINE S == {i \in 0..k : r[i] = l[i]}
<1>1. 0 \in S
  BY DEF Chain
<1>2. ASSUME NEW i \in 1..k, i - 1 \in S
      PROVE  i \in S
  <2>1. i \in 1..n /\ i \in 1..m /\ r[i - 1] = l[i - 1] /\ q[i] = p[i]
    BY <1>2
  <2>2. /\ r[i] = Turn(w, ts, pos, r[i - 1], q[i])
        /\ l[i] = Turn(w, ts, pos, l[i - 1], p[i])
    BY <2>1 DEF Chain
  <2>3. r[i] = l[i]
    BY <2>1, <2>2
  <2> QED BY <2>3
<1> HIDE DEF S
<1>3. k \in S
  BY <1>1, <1>2, Upwards
<1> QED BY <1>3 DEF S

-----------------------------------------------------------------------------
LEMMA AddNewDict ==
  ASSUME NEW d, Dict(d), NEW k, NEW v
  PROVE  Dict(AddNew(d, k, v)) /\ \A pos : Dict(MoveTo(AddNew(d, k, v), k, pos))
<1>1. Dict(AddNew(d, k, v))
  <2>1. CASE k \in Keys(d)
    BY <2>1 DEF AddNew
  <2>2. CASE k \notin Keys(d)
    BY <2>2, PutTakes DEF Taking
  <2> QED BY <2>1, <2>2
<1> QED BY <1>1, MoveIs

LEMMA DropDict ==
  ASSUME NEW d, Dict(d), NEW k
  PROVE  /\ Dict(Drop(d, k)) /\ Keys(Drop(d, k)) = Keys(d) \ {k}
         /\ \A j \in Keys(d) \ {k} : At(Drop(d, k), j) = At(d, j)
<1>1. CASE k \in Keys(d)
  BY <1>1, DropIs
<1>2. CASE k \notin Keys(d)
  BY <1>2 DEF Drop
<1> QED BY <1>1, <1>2

LEMMA GrownDict ==
  ASSUME NEW d, Dict(d), NEW ts, Dict(ts)
  PROVE  Dict(Grown(d, ts))
<1> DEFINE n == Len(ts)
<1>1. n \in Nat /\ DOMAIN ts = 1..n
  BY DictIs
<1>2. PICK r : Chain(r, "grow", ts, << >>, d, ts, n) /\ Grown(d, ts) = r[n]
  BY <1>1, GrownChain
<1> HIDE DEF n
<1> DEFINE S == {i \in 0..n : Dict(r[i])}
<1>3. 0 \in S
  BY <1>1, <1>2 DEF Chain
<1>4. ASSUME NEW i \in 1..n, i - 1 \in S
      PROVE  i \in S
  <2>1. r[i] = AddNew(r[i - 1], ts[i].key, ts[i].val)
    BY <1>2 DEF Chain, Turn
  <2>2. Dict(r[i])
    BY <1>4, <2>1, AddNewDict
  <2> QED BY <2>2
<1> HIDE DEF S
<1>5. n \in S
  BY <1>1, <1>3, <1>4, Upwards
<1> QED BY <1>2, <1>5 DEF S

Shrinking(r, d, ts, n) ==
  /\ \A i \in 1..n : r[i] = Drop(r[i - 1], ts[i].key)
  /\ \A i \in 0..n :
       /\ Dict(r[i]) /\ Keys(r[i]) = Keys(d) \ {ts[j].key : j \in 1..i}
       /\ \A k \in Keys(r[i]) : At(r[i], k) = At(d, k)

LEMMA ShrinkChain ==
  ASSUME NEW d, Dict(d), NEW ts, NEW n \in Nat, NEW pos,
         NEW r, Chain(r, "shrink", ts, pos, d, ts, n)
  PROVE  Shrinking(r, d, ts, n)
<1>1. ASSUME NEW i \in 1..n
      PROVE  r[i] = Drop(r[i - 1], ts[i].key)
  BY DEF Chain, Turn
<1> DEFINE Good(i) == /\ Dict(r[i]) /\ Keys(r[i]) = Keys(d) \ {ts[j].key : j \in 1..i}
                      /\ \A k \in Keys(r[i]) : At(r[i], k) = At(d, k)
           S == {i \in 0..n : Good(i)}
<1>2. 0 \in S
  <2>1. r[0] = d /\ {ts[j].key : j \in 1..0} = {}
    BY DEF Chain
  <2>2. Good(0)
    BY <2>1
  <2> QED BY <2>2
<1>3. ASSUME NEW i \in 1..n, i - 1 \in S
      PROVE  i \in S
  <2>1. /\ Dict(r[i - 1]) /\ Keys(r[i - 1]) = Keys(d) \ {ts[j].key : j \in 1..(i - 1)}
        /\ \A k \in Keys(r[i - 1]) : At(r[i - 1], k) = At(d, k)
    BY <1>3
  <2>2. {ts[j].key : j \in 1..i} = {ts[j].key : j \in 1..(i - 1)} \cup {ts[i].key}
    <3>1. 1..i = 1..(i - 1) \cup {i}
      OBVIOUS
    <3> QED BY <3>1
  <2>3. /\ Dict(r[i]) /\ Keys(r[i]) = Keys(r[i - 1]) \ {ts[i].key}
        /\ \A k \in Keys(r[i - 1]) \ {ts[i].key} : At(r[i], k) = At(r[i - 1], k)
    BY <1>1, <2>1, DropDict
  <2>4. Good(i)
    BY <2>1, <2>2, <2>3
  <2> QED BY <2>4
<1> HIDE DEF S, Good
<1>4. \A i \in 0..n : i \in S
  BY <1>2, <1>3, Upwards
<1> QED BY <1>1, <1>4 DEF S, Good, Shrinking

LEMMA ShrunkDict ==
  ASSUME NEW d, Dict(d), NEW ts, Dict(ts)
  PROVE  Dict(Shrunk(d, ts))
<1> DEFINE n == Len(ts)
<1>1. n \in Nat /\ DOMAIN ts = 1..n
  BY DictIs
<1> HIDE DEF n
<1>2. PICK r : Chain(r, "shrink", ts, << >>, d, ts, n) /\ Shrunk(d, ts) = r[n]
  BY <1>1, ShrunkChain
<1>3. \A i \in 0..n : Dict(r[i])
  BY <1>1, <1>2, ShrinkChain DEF Shrinking
<1>4. n \in 0..n
  BY <1>1
<1> QED BY <1>2, <1>3, <1>4

\* The first deletions of a selection are those of its first templates.
LEMMA LeftIs ==
  ASSUME NEW d, NEW T, NEW ts \in Seq(T), NEW n, n = Len(ts),
         NEW r, Chain(r, "shrink", ts, << >>, d, ts, n), NEW i \in 0..n
  PROVE  Left(d, ts, i) = r[i]
<1> DEFINE p == SubSeq(ts, 1, i)
<1>1. n \in Nat /\ i \in Nat /\ i <= n
  OBVIOUS
<1>7. DOMAIN p = 1..i /\ \A j \in 1..i : ts[j] = p[j]
  <2>1. 1 \in 1..(Len(ts) + 1) /\ i \in (1 - 1)..Len(ts)
    BY <1>1
  <2>2. /\ p \in Seq(T) /\ Len(p) = i - 1 + 1
        /\ \A j \in 1..i : p[j - 1 + 1] = ts[j]
    BY <2>1, Cut
  <2> HIDE DEF p
  <2>3. \A j \in 1..i : j - 1 + 1 = j
    BY <1>1
  <2>4. i - 1 + 1 = i
    BY <1>1
  <2> QED BY <2>2, <2>3, <2>4
<1>2. Left(d, ts, i) = Shrunk(d, p)
  BY Zenon DEF Left, Shrunk
<1> HIDE DEF p
<1>3. PICK l : Chain(l, "shrink", p, << >>, d, p, i) /\ Shrunk(d, p) = l[i]
  <2>1. i \in Nat /\ DOMAIN p = 1..i
    BY <1>1, <1>7
  <2> QED BY <2>1, ShrunkChain, Zenon
<1>4. Chain(l, "shrink", ts, << >>, d, p, i)
  BY <1>3 DEF Chain, Turn
<1>5. i <= i
  BY <1>1
<1>6. r[i] = l[i]
  BY <1>1, <1>4, <1>5, <1>7, SameChain
<1> QED BY <1>2, <1>3, <1>6

-----------------------------------------------------------------------------
\* Templates under other names are put behind those there are ...
LEMMA JoinedIs ==
  ASSUME NEW d, Dict(d), NEW ts, Dict(ts), Keys(d) \cap Keys(ts) = {}
  PROVE  Grown(d, ts) = d \o ts
<1> DEFINE n == Len(ts)
           T == {d[i] : i \in DOMAIN d} \cup {ts[i] : i \in DOMAIN ts}
<1>1. n \in Nat /\ DOMAIN ts = 1..n /\ DOMAIN d = 1..Len(d) /\ Len(d) \in Nat
  BY DictIs
<1>2. d \in Seq(T) /\ ts \in Seq(T)
  BY DEF Dict
<1>3. PICK r : Chain(r, "grow", ts, << >>, d, ts, n) /\ Grown(d, ts) = r[n]
  BY <1>1, GrownChain
<1> HIDE DEF n, T
<1> DEFINE Good(i) == /\ r[i] \in Seq(T) /\ Len(r[i]) = Len(d) + i
                      /\ \A j \in 1..Len(d) : r[i][j] = d[j]
                      /\ \A j \in 1..i : r[i][Len(d) + j] = ts[j]
           S == {i \in 0..n : Good(i)}
<1>4. 0 \in S
  <2>1. r[0] = d
    BY <1>3 DEF Chain
  <2>2. Good(0)
    BY <1>1, <1>2, <2>1
  <2> QED BY <1>1, <2>2
<1>5. ASSUME NEW i \in 1..n, i - 1 \in S
      PROVE  i \in S
  <2> DEFINE a == r[i - 1]
             x == ts[i]
  <2>1. r[i] = AddNew(a, x.key, x.val)
    BY <1>3 DEF Chain, Turn
  <2>2. /\ a \in Seq(T) /\ Len(a) = Len(d) + (i - 1)
        /\ \A j \in 1..Len(d) : a[j] = d[j]
        /\ \A j \in 1..(i - 1) : a[Len(d) + j] = ts[j]
    BY <1>5
  <2>3. x = Entry(x.key, x.val) /\ x \in T /\ x.key \in Keys(ts)
    BY <1>1, <1>2 DEF Dict, Keys
  <2> HIDE DEF a, x
  <2>4. x.key \notin Keys(a)
    <3>0. DOMAIN a = 1..Len(a)
      BY <2>2
    <3> SUFFICES ASSUME NEW j \in 1..Len(a) PROVE a[j].key # x.key
      BY <3>0 DEF Keys
    <3>1. CASE j <= Len(d)
      <4>1. a[j] = d[j] /\ j \in DOMAIN d
        BY <1>1, <2>2, <3>1
      <4> QED BY <2>3, <4>1 DEF Keys
    <3>2. CASE j > Len(d)
      <4>1. j - Len(d) \in 1..(i - 1) /\ Len(d) + (j - Len(d)) = j
        BY <1>1, <2>2, <3>2
      <4>2. a[j] = ts[j - Len(d)] /\ j - Len(d) \in DOMAIN ts /\ j - Len(d) # i
        BY <1>1, <2>2, <4>1
      <4> QED BY <1>1, <4>2 DEF Dict, IsDict, x
    <3> QED BY <1>1, <2>2, <3>1, <3>2
  <2>5. r[i] = Append(a, x)
    <3>1. 0 \notin 1..(Len(a) + 1)
      OBVIOUS
    <3> QED BY <2>1, <2>3, <2>4, <3>1 DEF AddNew, Put, PutAt
  <2>6. /\ Append(a, x) \in Seq(T) /\ Len(Append(a, x)) = Len(a) + 1
        /\ \A j \in 1..Len(a) : Append(a, x)[j] = a[j]
        /\ Append(a, x)[Len(a) + 1] = x
    BY <2>2, <2>3
  <2>7. r[i] \in Seq(T) /\ Len(r[i]) = Len(d) + i
    BY <1>1, <2>2, <2>5, <2>6
  <2>8. \A j \in 1..Len(d) : r[i][j] = d[j]
    BY <1>1, <2>2, <2>5, <2>6
  <2>9. ASSUME NEW j \in 1..i
        PROVE  r[i][Len(d) + j] = ts[j]
    <3>1. CASE j = i
      <4>1. Len(d) + j = Len(a) + 1
        BY <1>1, <2>2, <3>1
      <4> QED BY <2>5, <2>6, <3>1, <4>1 DEF x
    <3>2. CASE j # i
      <4>1. j \in 1..(i - 1) /\ Len(d) + j \in 1..Len(a)
        BY <1>1, <2>2, <3>2
      <4> QED BY <2>2, <2>5, <2>6, <4>1
    <3> QED BY <3>1, <3>2
  <2>10. Good(i)
    BY <2>7, <2>8, <2>9
  <2> QED BY <2>10
<1> HIDE DEF S, Good
<1>6. n \in S
  BY <1>1, <1>4, <1>5, Upwards
<1>7. /\ r[n] \in Seq(T) /\ Len(r[n]) = Len(d) + n
      /\ \A j \in 1..Len(d) : r[n][j] = d[j]
      /\ \A j \in 1..n : r[n][Len(d) + j] = ts[j]
  BY <1>6 DEF S, Good
<1> DEFINE e == d \o ts
           f == r[n]
<1>8. /\ e \in Seq(T) /\ Len(e) = Len(d) + n
      /\ \A j \in 1..Len(d) : e[j] = d[j]
      /\ \A j \in 1..n : e[Len(d) + j] = ts[j]
  BY <1>2 DEF n
<1> HIDE DEF e
<1>9. \A j \in 1..Len(f) : f[j] = e[j]
  <2> TAKE j \in 1..Len(f)
  <2>1. CASE j <= Len(d)
    BY <1>1, <1>7, <1>8, <2>1
  <2>2. CASE j > Len(d)
    <3>1. j - Len(d) \in 1..n /\ Len(d) + (j - Len(d)) = j
      BY <1>1, <1>7, <2>2
    <3>2. f[Len(d) + (j - Len(d))] = e[Len(d) + (j - Len(d))]
      BY <1>7, <1>8, <3>1
    <3> QED BY <3>1, <3>2
  <2> QED BY <1>1, <1>7, <2>1, <2>2
<1>10. f = e
  <2>1. f \in Seq(T) /\ e \in Seq(T) /\ Len(f) = Len(e)
    BY <1>7, <1>8
  <2> HIDE DEF f
  <2> QED BY <1>9, <2>1, SameSequence
<1> QED BY <1>3, <1>10 DEF e

\* ... and taken away from there.
LEMMA PartedIs ==
  ASSUME NEW d, Dict(d), NEW ts, Dict(ts), Keys(d) \cap Keys(ts) = {}
  PROVE  Dict(d \o ts) /\ Shrunk(d \o ts, ts) = d
<1> DEFINE n == Len(ts)
           T == {d[i] : i \in DOMAIN d} \cup {ts[i] : i \in DOMAIN ts}
           e == d \o ts
           m == Len(d)
<1>1. n \in Nat /\ DOMAIN ts = 1..n /\ DOMAIN d = 1..m /\ m \in Nat
  BY DictIs
<1>2. d \in Seq(T) /\ ts \in Seq(T)
  BY DEF Dict
<1>3. Dict(e)
  <2>1. e = Grown(d, ts)
    BY JoinedIs
  <2> QED BY <2>1, GrownDict
<1>4. /\ e \in Seq(T) /\ Len(e) = m + n
      /\ \A j \in 1..m : e[j] = d[j]
      /\ \A j \in 1..n : e[m + j] = ts[j]
  BY <1>2
<1>5. PICK r : Chain(r, "shrink", ts, << >>, e, ts, n) /\ Shrunk(e, ts) = r[n]
  BY <1>1, ShrunkChain
<1> HIDE DEF n, T, e, m
<1>6. /\ \A i \in 1..n : r[i] = Drop(r[i - 1], ts[i].key)
      /\ \A i \in 0..n :
           /\ Dict(r[i]) /\ Keys(r[i]) = Keys(e) \ {ts[j].key : j \in 1..i}
           /\ \A k \in Keys(r[i]) : At(r[i], k) = At(e, k)
  <2>1. n \in Nat /\ Chain(r, "shrink", ts, << >>, e, ts, n)
    BY <1>1, <1>5
  <2>2. Shrinking(r, e, ts, n)
    BY <1>3, <2>1, ShrinkChain
  <2> QED BY <2>2 DEF Shrinking
\* Each time the first one behind d goes.
<1> DEFINE Good(i) == /\ r[i] \in Seq(T) /\ Len(r[i]) = m + n - i
                      /\ \A j \in 1..m : r[i][j] = d[j]
                      /\ \A j \in (i + 1)..n : r[i][m + (j - i)] = ts[j]
           S == {i \in 0..n : Good(i)}
<1>7. 0 \in S
  <2>1. r[0] = e
    BY <1>5 DEF Chain
  <2>2. \A j \in 1..n : j - 0 = j
    BY <1>1
  <2>3. Good(0)
    BY <1>1, <1>4, <2>1, <2>2
  <2> QED BY <1>1, <2>3
<1>8. ASSUME NEW i \in 1..n, i - 1 \in S
      PROVE  i \in S
  <2> DEFINE a == r[i - 1]
             f == r[i]
             x == ts[i]
             p == m + 1
  <2>1. f = Drop(a, x.key) /\ Dict(a)
    <3>1. i - 1 \in 0..n
      BY <1>1
    <3> QED BY <1>6, <3>1
  <2>2. /\ a \in Seq(T) /\ Len(a) = m + n - (i - 1)
        /\ \A j \in 1..m : a[j] = d[j]
        /\ \A j \in ((i - 1) + 1)..n : a[m + (j - (i - 1))] = ts[j]
    BY <1>8
  <2>3. p \in 1..Len(a) /\ a[p] = x
    <3>1. i \in ((i - 1) + 1)..n /\ m + (i - (i - 1)) = p
      BY <1>1
    <3>2. a[m + (i - (i - 1))] = ts[i]
      BY <2>2, <3>1
    <3> QED BY <1>1, <2>2, <3>1, <3>2
  <2> HIDE DEF a, f, x, p
  <2>4. f = RemoveAt(a, p)
    <3>1. p \in DOMAIN a
      BY <2>2, <2>3
    <3>2. x.key \in Keys(a) /\ IndexOf(a, x.key) = p
      BY <2>1, <2>3, <3>1, KeyAt
    <3> QED BY <2>1, <3>2 DEF Drop
  <2>5. /\ f \in Seq(T) /\ Len(f) = Len(a) - 1
        /\ \A j \in 1..(p - 1) : f[j] = a[j]
        /\ \A j \in p..(Len(a) - 1) : f[j] = a[j + 1]
    <3>1. a \in Seq(T) /\ p \in 1..Len(a)
      BY <2>2, <2>3
    <3> QED BY <2>4, <3>1, RemoveAtIs
  <2>6. p - 1 = m
    BY <1>1 DEF p
  <2>7. Len(f) = m + n - i
    BY <1>1, <2>2, <2>5
  <2>8. \A j \in 1..m : f[j] = d[j]
    BY <2>2, <2>5, <2>6
  <2>9. ASSUME NEW j \in (i + 1)..n
        PROVE  f[m + (j - i)] = ts[j]
    <3>1. /\ m + (j - i) \in p..(Len(a) - 1) /\ j \in ((i - 1) + 1)..n
          /\ (m + (j - i)) + 1 = m + (j - (i - 1))
      BY <1>1, <2>2 DEF p
    <3> QED BY <2>2, <2>5, <3>1
  <2>10. Good(i)
    BY <2>5, <2>7, <2>8, <2>9 DEF f
  <2> QED BY <2>10
<1> HIDE DEF S, Good
<1>9. n \in S
  <2>1. n \in Nat /\ n \in 0..n
    BY <1>1
  <2>2. \A i \in 0..n : i \in S
    BY <1>7, <1>8, <2>1, Upwards
  <2> QED BY <2>1, <2>2
<1>10. r[n] \in Seq(T) /\ Len(r[n]) = m + n - n /\ \A j \in 1..m : r[n][j] = d[j]
  BY <1>9 DEF S, Good
<1>11. r[n] = d
  <2> DEFINE f == r[n]
  <2>1. f \in Seq(T) /\ d \in Seq(T) /\ Len(f) = Len(d) /\ \A j \in 1..Len(f) : f[j] = d[j]
    BY <1>1, <1>2, <1>10 DEF m
  <2> HIDE DEF f
  <2>2. f = d
    BY <2>1, SameSequence
  <2> QED BY <2>2 DEF f
<1> QED BY <1>3, <1>5, <1>11 DEF e

-----------------------------------------------------------------------------
Deleting(r, d, ts, n) ==
  /\ Chain([i \in 0..n |-> r[i].left], "shrink", ts, << >>, d, ts, n)
  /\ r[0].pos = << >>
  /\ \A i \in 1..n :
       r[i].pos = Append(r[i - 1].pos, IF ts[i].key \in Keys(r[i - 1].left)
                                       THEN IndexOf(r[i - 1].left, ts[i].key) ELSE 0)

LEMMA DeletedLefts ==
  ASSUME NEW d, NEW ts, NEW n \in Nat,
         NEW r, Chain(r, "delete", ts, << >>, [left |-> d, pos |-> << >>], ts, n)
  PROVE  Deleting(r, d, ts, n)
<1> DEFINE l == [i \in 0..n |-> r[i].left]
<1>1. \A i \in 0..n : l[i] = r[i].left
  OBVIOUS
<1>2. l = [i \in 0..n |-> l[i]]
  OBVIOUS
<1>3. r[0].left = d /\ r[0].pos = << >>
  BY DEF Chain
<1>4. ASSUME NEW i \in 1..n
      PROVE  /\ r[i].left = Drop(r[i - 1].left, ts[i].key)
             /\ r[i].pos = Append(r[i - 1].pos, IF ts[i].key \in Keys(r[i - 1].left)
                                                THEN IndexOf(r[i - 1].left, ts[i].key)
                                                ELSE 0)
  <2>1. r[i] = Turn("delete", ts, << >>, r[i - 1], ts[i])
    BY DEF Chain
  <2> DEFINE f == Drop(r[i - 1].left, ts[i].key)
             p == Append(r[i - 1].pos, IF ts[i].key \in Keys(r[i - 1].left)
                                       THEN IndexOf(r[i - 1].left, ts[i].key) ELSE 0)
  <2>2. Turn("delete", ts, << >>, r[i - 1], ts[i]) = [left |-> f, pos |-> p]
    BY Zenon DEF Turn
  <2> HIDE DEF f, p
  <2>3. r[i].left = f /\ r[i].pos = p
    BY <2>1, <2>2
  <2> QED BY <2>3 DEF f, p
<1> HIDE DEF l
<1>5. \A i \in 1..n : l[i] = Drop(l[i - 1], ts[i].key)
  BY <1>1, <1>4
<1>6. 0 \in 0..n
  OBVIOUS
<1>7. Chain(l, "shrink", ts, << >>, d, ts, n)
  BY <1>1, <1>2, <1>3, <1>5, <1>6 DEF Chain, Turn
<1> QED BY <1>3, <1>4, <1>7 DEF l, Deleting

LEMMA DeletedDict ==
  ASSUME NEW d, Dict(d), NEW ts, Dict(ts)
  PROVE  Dict(Deleted(d, ts).left)
<1> DEFINE n == Len(ts)
<1>1. n \in Nat /\ DOMAIN ts = 1..n
  BY DictIs
<1> HIDE DEF n
<1>2. PICK r : /\ Chain(r, "delete", ts, << >>, [left |-> d, pos |-> << >>], ts, n)
               /\ Deleted(d, ts) = r[n]
  BY <1>1, DeletedChain
<1> DEFINE l == [i \in 0..n |-> r[i].left]
<1>3. Chain(l, "shrink", ts, << >>, d, ts, n)
  BY <1>1, <1>2, DeletedLefts DEF Deleting
<1>4. n \in 0..n /\ l[n] = r[n].left
  BY <1>1
<1> HIDE DEF l
<1>5. \A i \in 0..n : Dict(l[i])
  BY <1>1, <1>3, ShrinkChain DEF Shrinking
<1> QED BY <1>2, <1>4, <1>5

\* Templates that are there are deleted one after the other, each from where
\* it is when those before it are gone.
LEMMA DeletedIs ==
  ASSUME NEW d, Dict(d), NEW ts, Dict(ts),
         \A i \in DOMAIN ts : ts[i].key \in Keys(d) /\ ts[i].val = At(d, ts[i].key)
  PROVE  DropsAll(ts, Deleted(d, ts).pos, d, Deleted(d, ts).left)
<1> DEFINE n == Len(ts)
           T == {ts[i] : i \in DOMAIN ts}
<1>1. n \in Nat /\ DOMAIN ts = 1..n /\ ts \in Seq(T)
  BY DictIs DEF Dict
<1> HIDE DEF T
<1>2. PICK r : /\ Chain(r, "delete", ts, << >>, [left |-> d, pos |-> << >>], ts, n)
               /\ Deleted(d, ts) = r[n]
  <2> HIDE DEF n
  <2> QED BY <1>1, DeletedChain
<1>14. Deleting(r, d, ts, n)
  <2>1. n \in Nat /\ Chain(r, "delete", ts, << >>, [left |-> d, pos |-> << >>], ts, n)
    BY <1>1, <1>2
  <2> HIDE DEF n
  <2> QED BY <2>1, DeletedLefts
<1> DEFINE l == [i \in 0..n |-> r[i].left]
<1>3. Chain(l, "shrink", ts, << >>, d, ts, n)
  BY <1>14 DEF Deleting
<1>4. \A i \in 0..n : l[i] = r[i].left
  OBVIOUS
<1> HIDE DEF l
<1>5. ASSUME NEW i \in 0..n
      PROVE  Left(d, ts, i) = l[i]
  <2>1. n = Len(ts)
    OBVIOUS
  <2> HIDE DEF n
  <2> QED BY <1>1, <1>3, <2>1, LeftIs
<1> HIDE DEF n
<1>15. Shrinking(l, d, ts, n)
  BY <1>1, <1>3, ShrinkChain
<1>6. /\ \A i \in 1..n : l[i] = Drop(l[i - 1], ts[i].key)
      /\ \A i \in 0..n :
           /\ Dict(l[i]) /\ Keys(l[i]) = Keys(d) \ {ts[j].key : j \in 1..i}
           /\ \A k \in Keys(l[i]) : At(l[i], k) = At(d, k)
  BY <1>15 DEF Shrinking
<1>7. ASSUME NEW i \in 1..n
      PROVE  /\ i - 1 \in 0..n /\ i \in 0..n
             /\ ts[i].key \in Keys(l[i - 1]) /\ ts[i].val = At(l[i - 1], ts[i].key)
             /\ IndexOf(l[i - 1], ts[i].key) \in Nat
  <2>1. i - 1 \in 0..n /\ i \in 0..n /\ i \in DOMAIN ts
    BY <1>1
  <2>2. \A j \in 1..(i - 1) : ts[j].key # ts[i].key
    BY <1>1 DEF Dict, IsDict
  <2>3. ts[i].key \in Keys(l[i - 1])
    BY <1>6, <2>1, <2>2
  <2>4. ts[i].val = At(l[i - 1], ts[i].key)
    BY <1>6, <2>1, <2>3
  <2>5. IndexOf(l[i - 1], ts[i].key) \in DOMAIN l[i - 1]
    BY <1>6, <2>1, <2>3, IndexAt
  <2>6. IndexOf(l[i - 1], ts[i].key) \in Nat
    BY <1>6, <2>1, <2>5, DictIs
  <2> QED BY <2>1, <2>3, <2>4, <2>6
<1>8. \A i \in 1..n : r[i].pos = Append(r[i - 1].pos, IndexOf(l[i - 1], ts[i].key))
  BY <1>4, <1>7, <1>14 DEF Deleting
<1> DEFINE Good(i) == /\ r[i].pos \in Seq(Nat) /\ Len(r[i].pos) = i
                      /\ \A j \in 1..i : r[i].pos[j] = IndexOf(l[j - 1], ts[j].key)
           S == {i \in 0..n : Good(i)}
<1>9. 0 \in S
  <2>1. Good(0)
    BY <1>14 DEF Deleting
  <2> QED BY <1>1, <2>1
<1>10. ASSUME NEW i \in 1..n, i - 1 \in S
       PROVE  i \in S
  <2> DEFINE p == r[i - 1].pos
             x == IndexOf(l[i - 1], ts[i].key)
  <2>1. /\ p \in Seq(Nat) /\ Len(p) = i - 1
        /\ \A j \in 1..(i - 1) : p[j] = IndexOf(l[j - 1], ts[j].key)
    BY <1>10
  <2>2. r[i].pos = Append(p, x) /\ x \in Nat
    BY <1>7, <1>8
  <2> HIDE DEF p, x
  <2>3. /\ r[i].pos \in Seq(Nat) /\ Len(r[i].pos) = i /\ r[i].pos[i] = x
        /\ \A j \in 1..(i - 1) : r[i].pos[j] = p[j]
    <3>1. /\ Append(p, x) \in Seq(Nat) /\ Len(Append(p, x)) = Len(p) + 1
          /\ \A j \in 1..Len(p) : Append(p, x)[j] = p[j]
          /\ Append(p, x)[Len(p) + 1] = x
      BY <2>1, <2>2
    <3>2. Len(p) + 1 = i
      BY <2>1
    <3> QED BY <2>1, <2>2, <3>1, <3>2
  <2>4. \A j \in 1..i : j = i \/ j \in 1..(i - 1)
    OBVIOUS
  <2>5. Good(i)
    BY <2>1, <2>3, <2>4 DEF x
  <2> QED BY <2>5
<1> HIDE DEF S, Good
<1>11. n \in S
  <2>1. n \in Nat /\ n \in 0..n
    BY <1>1
  <2>2. \A i \in 0..n : i \in S
    BY <1>9, <1>10, <2>1, Upwards
  <2> QED BY <2>1, <2>2
<1>12. \A j \in 1..n : r[n].pos[j] = IndexOf(l[j - 1], ts[j].key)
  BY <1>11 DEF S, Good
<1>13. ASSUME NEW i \in 1..n
       PROVE  Drops(ts[i].key, ts[i].val, r[n].pos[i], Left(d, ts, i - 1), Left(d, ts, i))
  BY <1>5, <1>6, <1>7, <1>12 DEF Drops
<1>16. r[n].left = Left(d, ts, n)
  <2>1. n \in 0..n
    BY <1>1
  <2> QED BY <1>4, <1>5, <2>1
<1> QED BY <1>1, <1>2, <1>13, <1>16 DEF DropsAll, n

LEMMA RestoredDict ==
  ASSUME NEW d, Dict(d), NEW ts, Dict(ts), NEW pos
  PROVE  Dict(Restored(d, ts, pos))
<1> DEFINE n == Len(ts)
           q == [i \in 1..n |-> n + 1 - i]
<1>1. n \in Nat
  BY DictIs
<1>0. Len(ts) = n
  OBVIOUS
<1> HIDE DEF n
<1>2. PICK r : Chain(r, "restore", ts, pos, d, q, n) /\ Restored(d, ts, pos) = r[n]
  BY <1>0, <1>1, RestoredChain
<1> HIDE DEF q
<1> DEFINE S == {i \in 0..n : Dict(r[i])}
<1>3. 0 \in S
  BY <1>1, <1>2 DEF Chain
<1>4. ASSUME NEW i \in 1..n, i - 1 \in S
      PROVE  i \in S
  <2> DEFINE x == q[i]
  <2>1. r[i] = MoveTo(AddNew(r[i - 1], ts[x].key, ts[x].val), ts[x].key, pos[x])
    BY <1>2 DEF Chain, Turn
  <2>2. Dict(r[i])
    BY <1>4, <2>1, AddNewDict
  <2> QED BY <2>2
<1> HIDE DEF S
<1>5. n \in S
  <2>1. n \in Nat /\ n \in 0..n
    BY <1>1
  <2>2. \A i \in 0..n : i \in S
    BY <1>3, <1>4, <2>1, Upwards
  <2> QED BY <2>1, <2>2
<1> QED BY <1>2, <1>5 DEF S

\* What a selection of deletions finds, and leaves.
LEMMA DropsAllIs ==
  ASSUME NEW d, Dict(d), NEW ts, Dict(ts), NEW pos, NEW e, DropsAll(ts, pos, d, e)
  PROVE  /\ \A i \in 0..Len(ts) : Dict(Left(d, ts, i))
         /\ \A i \in DOMAIN ts : ts[i].key \in Keys(d) /\ ts[i].val = At(d, ts[i].key)
         /\ e = Left(d, ts, Len(ts)) /\ Left(d, ts, 0) = d
<1> DEFINE n == Len(ts)
           T == {ts[i] : i \in DOMAIN ts}
<1>1. n \in Nat /\ DOMAIN ts = 1..n /\ ts \in Seq(T)
  BY DictIs DEF Dict
<1> HIDE DEF T
<1>2. PICK l : Chain(l, "shrink", ts, << >>, d, ts, n)
  <2> HIDE DEF n
  <2> QED BY <1>1, ShrunkChain
<1>3. ASSUME NEW i \in 0..n
      PROVE  Left(d, ts, i) = l[i]
  BY <1>1, <1>2, LeftIs
<1> HIDE DEF n
<1>4. \A i \in 0..n :
        /\ Dict(l[i]) /\ Keys(l[i]) = Keys(d) \ {ts[j].key : j \in 1..i}
        /\ \A k \in Keys(l[i]) : At(l[i], k) = At(d, k)
  <2>1. Shrinking(l, d, ts, n)
    BY <1>1, <1>2, ShrinkChain
  <2> QED BY <2>1 DEF Shrinking
<1>5. ASSUME NEW i \in DOMAIN ts
      PROVE  ts[i].key \in Keys(d) /\ ts[i].val = At(d, ts[i].key)
  <2>1. i - 1 \in 0..n
    BY <1>1
  <2>2. ts[i].key \in Keys(l[i - 1]) /\ ts[i].val = At(l[i - 1], ts[i].key)
    BY <1>3, <2>1 DEF DropsAll, Drops
  <2> QED BY <1>4, <2>1, <2>2
<1>6. l[0] = d /\ 0 \in 0..n
  BY <1>1, <1>2 DEF Chain
<1> QED BY <1>3, <1>4, <1>5, <1>6 DEF DropsAll, n

\* From the last one deleted to the first, all come back.
LEMMA RestoredIs ==
  ASSUME NEW d, Dict(d), NEW ts, Dict(ts), NEW pos, NEW e, DropsAll(ts, pos, d, e)
  PROVE  Restored(e, ts, pos) = d
<1> DEFINE n == Len(ts)
           q == [i \in 1..n |-> n + 1 - i]
<1>1. n \in Nat /\ DOMAIN ts = 1..n
  BY DictIs
<1>2. PICK r : Chain(r, "restore", ts, pos, e, q, n) /\ Restored(e, ts, pos) = r[n]
  <2>1. Len(ts) = n /\ n \in Nat
    BY <1>1
  <2> HIDE DEF n
  <2> QED BY <2>1, RestoredChain
<1>3. /\ \A i \in 0..n : Dict(Left(d, ts, i))
      /\ e = Left(d, ts, n) /\ Left(d, ts, 0) = d
  BY DropsAllIs
<1>4. \A i \in 1..n :
        Drops(ts[i].key, ts[i].val, pos[i], Left(d, ts, i - 1), Left(d, ts, i))
  BY <1>1 DEF DropsAll
<1>5. \A i \in 1..n : q[i] = n + 1 - i
  OBVIOUS
<1> HIDE DEF n, q
<1> DEFINE S == {i \in 0..n : r[i] = Left(d, ts, n - i)}
<1>6. 0 \in S
  <2>1. n - 0 = n /\ r[0] = e
    BY <1>1, <1>2 DEF Chain
  <2> QED BY <1>1, <1>3, <2>1
<1>7. ASSUME NEW i \in 1..n, i - 1 \in S
      PROVE  i \in S
  <2> DEFINE j == n + 1 - i
             b == Left(d, ts, j - 1)
  <2>1. j \in 1..n /\ n - (i - 1) = j /\ n - i = j - 1 /\ j - 1 \in 0..n
    BY <1>1
  <2>2. r[i] = MoveTo(AddNew(r[i - 1], ts[j].key, ts[j].val), ts[j].key, pos[j])
    BY <1>2, <1>5 DEF Chain, Turn
  <2>3. r[i - 1] = Left(d, ts, j)
    BY <1>7, <2>1
  <2>4. Drops(ts[j].key, ts[j].val, pos[j], b, Left(d, ts, j)) /\ Dict(b)
    BY <1>3, <1>4, <2>1
  <2> HIDE DEF j, b
  <2>5. /\ ts[j].key \in Keys(b) /\ ts[j].val = At(b, ts[j].key)
        /\ pos[j] = IndexOf(b, ts[j].key) /\ Left(d, ts, j) = Drop(b, ts[j].key)
    BY <2>4 DEF Drops
  <2>6. MoveTo(AddNew(Drop(b, ts[j].key), ts[j].key, ts[j].val), ts[j].key, pos[j]) = b
    BY <2>4, <2>5, PutBack
  <2>7. r[i] = Left(d, ts, n - i)
    BY <2>1, <2>2, <2>3, <2>5, <2>6 DEF b
  <2> QED BY <2>7
<1> HIDE DEF S
<1>8. n \in S
  <2>1. n \in Nat /\ n \in 0..n
    BY <1>1
  <2>2. \A i \in 0..n : i \in S
    BY <1>6, <1>7, <2>1, Upwards
  <2> QED BY <2>1, <2>2
<1>9. n - n = 0
  BY <1>1
<1> QED BY <1>2, <1>3, <1>8, <1>9 DEF S

-----------------------------------------------------------------------------
\* Templates with other links are still a dictionary.
LEMMA SameKeysDict ==
  ASSUME NEW d, Dict(d), NEW e, e = [i \in DOMAIN d |-> e[i]],
         \A i \in DOMAIN d : e[i] = Entry(d[i].key, e[i].val)
  PROVE  /\ Dict(e) /\ Keys(e) = Keys(d) /\ DOMAIN e = DOMAIN d
         /\ \A k \in Keys(d) : At(e, k) = e[IndexOf(d, k)].val
<1>1. DOMAIN e = 1..Len(d) /\ Len(d) \in Nat /\ DOMAIN e = DOMAIN d
  BY DictIs
<1>2. \A i \in DOMAIN d : e[i].key = d[i].key
  BY EntryIs
<1>3. e \in Seq({e[i] : i \in DOMAIN e})
  BY <1>1
<1>4. Dict(e)
  BY <1>1, <1>2, <1>3 DEF Dict, IsDict
<1>5. Keys(e) = Keys(d)
  BY <1>1, <1>2 DEF Keys
<1>6. ASSUME NEW k \in Keys(d)
      PROVE  At(e, k) = e[IndexOf(d, k)].val
  <2>1. IndexOf(d, k) \in DOMAIN e /\ e[IndexOf(d, k)].key = k
    BY <1>1, <1>2, IndexAt
  <2>2. At(e, e[IndexOf(d, k)].key) = e[IndexOf(d, k)].val
    BY <1>4, <2>1, KeyAt
  <2> QED BY <2>1, <2>2
<1> QED BY <1>1, <1>4, <1>5, <1>6

-----------------------------------------------------------------------------
\* The templates as they are, put into a command's dictionary.
LEMMA TakenIs ==
  ASSUME NEW ts, Dict(ts), NEW from
  PROVE  /\ Dict(Taken(ts, from)) /\ Keys(Taken(ts, from)) = Keys(ts)
         /\ (\A i \in DOMAIN ts : ts[i].key \in Keys(from) =>
                                    ts[i].val = At(from, ts[i].key)) =>
              Taken(ts, from) = ts
<1> DEFINE e == Taken(ts, from)
<1>1. e = [i \in DOMAIN ts |-> e[i]] /\ ts = [i \in DOMAIN ts |-> ts[i]]
  BY DEF Taken, Dict
<1>2. \A i \in DOMAIN ts : e[i] = IF ts[i].key \in Keys(from)
                                  THEN Entry(ts[i].key, At(from, ts[i].key)) ELSE ts[i]
  BY DEF Taken
<1>3. \A i \in DOMAIN ts : ts[i] = Entry(ts[i].key, ts[i].val)
  BY DEF Dict
<1> HIDE DEF e
<1>4. \A i \in DOMAIN ts : e[i] = Entry(ts[i].key, e[i].val)
  BY <1>2, <1>3, EntryIs
<1>5. Dict(e) /\ Keys(e) = Keys(ts)
  BY <1>1, <1>4, SameKeysDict
<1>6. ASSUME \A i \in DOMAIN ts : ts[i].key \in Keys(from) =>
                                    ts[i].val = At(from, ts[i].key)
      PROVE  e = ts
  <2>1. \A i \in DOMAIN ts : e[i] = ts[i]
    BY <1>2, <1>3, <1>6
  <2> QED BY <1>1, <2>1
<1> QED BY <1>5, <1>6 DEF e

LEMMA RelinkedIs ==
  ASSUME NEW ts, Dict(ts), NEW o, NEW n
  PROVE  /\ Dict(Relinked(ts, o, n)) /\ Keys(Relinked(ts, o, n)) = Keys(ts)
         /\ o # n => Relinked(Relinked(ts, o, n), o, n) = Relinked(ts, o, n)
         /\ n \notin Values(ts) => Relinked(Relinked(ts, o, n), n, o) = ts
<1> DEFINE e == Relinked(ts, o, n)
           f == Relinked(e, o, n)
           g == Relinked(e, n, o)
<1>1. e = [i \in DOMAIN ts |-> e[i]] /\ ts = [i \in DOMAIN ts |-> ts[i]]
  BY DEF Relinked, Dict
<1>2. \A i \in DOMAIN ts : e[i] = IF ts[i].val = o THEN Entry(ts[i].key, n) ELSE ts[i]
  BY DEF Relinked
<1>3. \A i \in DOMAIN ts : ts[i] = Entry(ts[i].key, ts[i].val)
  BY DEF Dict
<1>4. f = [i \in DOMAIN e |-> f[i]] /\ g = [i \in DOMAIN e |-> g[i]]
  BY DEF Relinked
<1>5. \A i \in DOMAIN e : /\ f[i] = IF e[i].val = o THEN Entry(e[i].key, n) ELSE e[i]
                          /\ g[i] = IF e[i].val = n THEN Entry(e[i].key, o) ELSE e[i]
  BY DEF Relinked
<1>6. DOMAIN e = DOMAIN ts
  BY DEF Relinked
<1> HIDE DEF e, f, g
<1>7. \A i \in DOMAIN ts : e[i] = Entry(ts[i].key, e[i].val)
  BY <1>2, <1>3, EntryIs
<1>8. Dict(e) /\ Keys(e) = Keys(ts)
  BY <1>1, <1>7, SameKeysDict
<1>9. ASSUME o # n PROVE f = e
  <2>1. \A i \in DOMAIN ts : e[i].val # o
    BY <1>2, <1>9, EntryIs
  <2>2. \A i \in DOMAIN ts : f[i] = e[i]
    BY <1>5, <1>6, <2>1
  <2> QED BY <1>1, <1>4, <1>6, <2>2
<1>10. ASSUME n \notin Values(ts) PROVE g = ts
  <2>1. \A i \in DOMAIN ts : ts[i].val # n
    BY <1>10 DEF Values
  <2>2. ASSUME NEW i \in DOMAIN ts PROVE g[i] = ts[i]
    <3>1. CASE ts[i].val = o
      <4>1. e[i] = Entry(ts[i].key, n)
        BY <1>2, <3>1
      <4>2. e[i].key = ts[i].key /\ e[i].val = n
        BY <4>1, EntryIs
      <4> QED BY <1>3, <1>5, <1>6, <3>1, <4>2
    <3>2. CASE ts[i].val # o
      BY <1>2, <1>5, <1>6, <2>1, <3>2
    <3> QED BY <3>1, <3>2
  <2> QED BY <1>1, <1>4, <1>6, <2>2
<1> QED BY <1>8, <1>9, <1>10 DEF e, f, g

\* In all the panels of a view.
LEMMA AllRelinkedIs ==
  ASSUME NEW ps, Shelf(ps), NEW o, NEW n
  PROVE  /\ Shelf(AllRelinked(ps, o, n)) /\ Keys(AllRelinked(ps, o, n)) = Keys(ps)
         /\ \A p \in Keys(ps) : IndexOf(AllRelinked(ps, o, n), p) = IndexOf(ps, p)
         /\ (\A ts \in Values(ps) : n \notin Values(ts)) =>
              AllRelinked(AllRelinked(ps, o, n), n, o) = ps
<1> DEFINE e == AllRelinked(ps, o, n)
           g == AllRelinked(e, n, o)
<1>1. e = [i \in DOMAIN ps |-> e[i]] /\ DOMAIN e = DOMAIN ps
  BY DEF AllRelinked
<1>2. \A i \in DOMAIN ps : e[i] = Entry(ps[i].key, Relinked(ps[i].val, o, n))
  BY DEF AllRelinked
<1>3. Dict(ps) /\ ps = [i \in DOMAIN ps |-> ps[i]]
  BY DEF Shelf, Dict
<1>4. g = [i \in DOMAIN e |-> g[i]]
  BY DEF AllRelinked
<1>5. \A i \in DOMAIN e : g[i] = Entry(e[i].key, Relinked(e[i].val, n, o))
  BY DEF AllRelinked
<1>6. \A i \in DOMAIN ps : Dict(ps[i].val) /\ ps[i].val \in Values(ps)
                           /\ ps[i] = Entry(ps[i].key, ps[i].val)
  <2> TAKE i \in DOMAIN ps
  <2>1. Dict(At(ps, ps[i].key)) /\ At(ps, ps[i].key) = ps[i].val
    BY <1>3, KeyAt DEF Shelf
  <2> QED BY <2>1 DEF Values, Shelf, Dict
<1> HIDE DEF e, g
<1>7. \A i \in DOMAIN ps : e[i].key = ps[i].key /\ e[i].val = Relinked(ps[i].val, o, n)
  BY <1>2, EntryIs
<1>8. \A i \in DOMAIN ps : e[i] = Entry(ps[i].key, e[i].val)
  BY <1>2, <1>7
<1>9. /\ Dict(e) /\ Keys(e) = Keys(ps)
      /\ \A k \in Keys(ps) : At(e, k) = e[IndexOf(ps, k)].val
  BY <1>1, <1>3, <1>8, SameKeysDict
<1>10. ASSUME NEW p \in Keys(ps)
       PROVE  Dict(At(e, p)) /\ IndexOf(e, p) = IndexOf(ps, p)
  <2>1. IndexOf(ps, p) \in DOMAIN ps /\ ps[IndexOf(ps, p)].key = p
    BY <1>3, IndexAt
  <2>2. Dict(At(e, p))
    BY <1>6, <1>7, <1>9, <2>1, RelinkedIs
  <2>3. e[IndexOf(ps, p)].key = p /\ IndexOf(ps, p) \in DOMAIN e
    BY <1>1, <1>7, <2>1
  <2>4. IndexOf(e, e[IndexOf(ps, p)].key) = IndexOf(ps, p)
    BY <1>9, <2>3, KeyAt
  <2> QED BY <2>2, <2>3, <2>4
<1>11. Shelf(e)
  BY <1>9, <1>10 DEF Shelf
<1>12. ASSUME \A ts \in Values(ps) : n \notin Values(ts)
       PROVE  g = ps
  <2>1. ASSUME NEW i \in DOMAIN ps PROVE g[i] = ps[i]
    <3>1. Relinked(Relinked(ps[i].val, o, n), n, o) = ps[i].val
      BY <1>6, <1>12, RelinkedIs
    <3> QED BY <1>1, <1>5, <1>6, <1>7, <3>1
  <2> QED BY <1>1, <1>3, <1>4, <2>1
<1> QED BY <1>9, <1>10, <1>11, <1>12 DEF e, g

\* A panel's own name has nothing to do with the links.
LEMMA RelinkedRekeyed ==
  ASSUME NEW ps, Shelf(ps), NEW o, NEW n, NEW k \in Keys(ps), NEW j
  PROVE  Rekeyed(AllRelinked(ps, o, n), k, j) = AllRelinked(Rekeyed(ps, k, j), o, n)
<1> DEFINE e == AllRelinked(ps, o, n)
           f == Rekeyed(ps, k, j)
           a == Rekeyed(e, k, j)
           b == AllRelinked(f, o, n)
           i == IndexOf(ps, k)
<1>1. Dict(ps) /\ i \in DOMAIN ps /\ At(ps, k) = ps[i].val
  BY IndexAt DEF Shelf, At
<1>2. IndexOf(e, k) = i /\ DOMAIN e = DOMAIN ps
  BY AllRelinkedIs DEF AllRelinked
<1>3. \A l \in DOMAIN ps : e[l] = Entry(ps[l].key, Relinked(ps[l].val, o, n))
  BY DEF AllRelinked
<1>4. At(e, k) = e[i].val
  BY <1>2 DEF At
<1>5. a = [e EXCEPT ![i] = Entry(j, e[i].val)]
  BY <1>2, <1>4 DEF Rekeyed
<1>6. f = [ps EXCEPT ![i] = Entry(j, ps[i].val)]
  BY <1>1 DEF Rekeyed
<1>7. b = [l \in DOMAIN f |-> Entry(f[l].key, Relinked(f[l].val, o, n))]
  BY DEF AllRelinked
<1>8. e = [l \in DOMAIN ps |-> e[l]]
  BY DEF AllRelinked
<1> HIDE DEF e, f, a, b, i
<1>9. a = [l \in DOMAIN ps |-> IF l = i THEN Entry(j, e[i].val) ELSE e[l]]
  BY <1>2, <1>5, <1>8
<1>10. DOMAIN f = DOMAIN ps /\ f[i] = Entry(j, ps[i].val)
       /\ \A l \in DOMAIN ps : l # i => f[l] = ps[l]
  BY <1>1, <1>6
<1>11. \A l \in DOMAIN ps : (IF l = i THEN Entry(j, e[i].val) ELSE e[l])
                            = Entry(f[l].key, Relinked(f[l].val, o, n))
  BY <1>1, <1>3, <1>10, EntryIs
<1>12. a = b
  BY <1>7, <1>9, <1>10, <1>11
<1> QED BY <1>12 DEF a, b, e, f

-----------------------------------------------------------------------------
(***************************************************************************)
(* Dictionaries of connections, of views and of panels.                    *)
(***************************************************************************)
Well(what, x) ==
  \/ what = "connections" /\ Connection(x)
  \/ what = "views" /\ Shelf(x)
  \/ what = "panels" /\ Dict(x)

Filled(what, d) == Dict(d) /\ \A k \in Keys(d) : Well(what, At(d, k))

LEMMA WellIs ==
  ASSUME NEW x
  PROVE  /\ Well("connections", x) <=> Connection(x)
         /\ Well("views", x) <=> Shelf(x)
         /\ Well("panels", x) <=> Dict(x)
<1>1. Well("connections", x) <=> Connection(x)
  BY DEF Well
<1>2. Well("views", x) <=> Shelf(x)
  BY DEF Well
<1>3. Well("panels", x) <=> Dict(x)
  BY DEF Well
<1> QED BY <1>1, <1>2, <1>3

LEMMA FilledIs ==
  ASSUME NEW d
  PROVE  /\ ConnsTyped(d) <=> Filled("connections", d)
         /\ ViewsTyped(d) <=> Filled("views", d)
         /\ Shelf(d) <=> Filled("panels", d)
<1>1. ConnsTyped(d) <=> Filled("connections", d)
  BY WellIs DEF ConnsTyped, Filled
<1>2. ViewsTyped(d) <=> Filled("views", d)
  BY WellIs DEF ViewsTyped, Filled
<1>3. Shelf(d) <=> Filled("panels", d)
  BY WellIs DEF Shelf, Filled
<1> QED BY <1>1, <1>2, <1>3

LEMMA PutAtDict ==
  ASSUME NEW d, Dict(d), NEW k, NEW v, NEW pos
  PROVE  Dict(PutAt(d, k, v, pos)) /\ Dict(Put(d, k, v))
<1>1. \A i : Dict(PutAt(d, k, v, i))
  <2>1. CASE k \in Keys(d)
    BY <2>1, WithIs DEF PutAt
  <2>2. CASE k \notin Keys(d)
    BY <2>2, PutTakes DEF Taking
  <2> QED BY <2>1, <2>2
<1> QED BY <1>1 DEF Put

\* An entry added, taken away, renamed, moved or replaced.
LEMMA AddsTakes ==
  ASSUME NEW d, Dict(d), NEW k, k \notin Keys(d), NEW v
  PROVE  /\ AddNew(d, k, v) = Put(d, k, v) /\ Taking(d, k, v, Put(d, k, v))
         /\ \A pos : /\ Taking(d, k, v, MoveTo(Put(d, k, v), k, pos))
                     /\ Taking(d, k, v, PutAt(d, k, v, pos))
BY PutTakes, PutMove

LEMMA AddedFills ==
  ASSUME NEW what, NEW d, Filled(what, d), NEW k, NEW v, Well(what, v),
         NEW e, Taking(d, k, v, e)
  PROVE  Filled(what, e)
BY DEF Filled, Taking

LEMMA DroppedFills ==
  ASSUME NEW what, NEW d, Filled(what, d), NEW k
  PROVE  Filled(what, Drop(d, k))
<1>1. Dict(d)
  BY DEF Filled
<1> QED BY <1>1, DropDict DEF Filled

LEMMA MovedFills ==
  ASSUME NEW what, NEW d, Filled(what, d), NEW k, NEW pos
  PROVE  Filled(what, MoveTo(d, k, pos))
<1>1. Dict(d)
  BY DEF Filled
<1> QED BY <1>1, MoveIs DEF Filled

LEMMA WithFills ==
  ASSUME NEW what, NEW d, Filled(what, d), NEW k \in Keys(d), NEW v, Well(what, v)
  PROVE  Filled(what, With(d, k, v))
<1>1. Dict(d)
  BY DEF Filled
<1>2. /\ Dict(With(d, k, v)) /\ Keys(With(d, k, v)) = Keys(d) /\ At(With(d, k, v), k) = v
      /\ \A j \in Keys(d) \ {k} : At(With(d, k, v), j) = At(d, j)
  BY <1>1, WithIs
<1> QED BY <1>2 DEF Filled

\* Renamed: dropped, and put in under the other name.
LEMMA RenamedFills ==
  ASSUME NEW what, NEW d, Filled(what, d), NEW o \in Keys(d), NEW n, n \notin Keys(d),
         NEW e, Taking(Drop(d, o), n, At(d, o), e)
  PROVE  /\ Filled(what, e) /\ Keys(e) = (Keys(d) \ {o}) \cup {n}
         /\ At(e, n) = At(d, o) /\ \A j \in Keys(d) \ {o} : At(e, j) = At(d, j)
<1>1. Dict(d) /\ Well(what, At(d, o))
  BY DEF Filled
<1>2. Filled(what, Drop(d, o))
  BY DroppedFills
<1>3. Filled(what, e)
  BY <1>1, <1>2, AddedFills
<1>4. /\ Keys(Drop(d, o)) = Keys(d) \ {o}
      /\ \A j \in Keys(d) \ {o} : At(Drop(d, o), j) = At(d, j)
  BY <1>1, DropDict
<1> QED BY <1>3, <1>4 DEF Taking

-----------------------------------------------------------------------------
\* The variables of a connection.
LEMMA VarsPutIs ==
  ASSUME NEW cs, ConnsTyped(cs), NEW c \in Keys(cs), NEW d, Dict(d)
  PROVE  /\ ConnsTyped(VarsPut(cs, c, d)) /\ Keys(VarsPut(cs, c, d)) = Keys(cs)
         /\ At(VarsPut(cs, c, d), c).vars = d
         /\ \A e : VarsPut(VarsPut(cs, c, d), c, e) = VarsPut(cs, c, e)
         /\ VarsPut(cs, c, At(cs, c).vars) = cs
<1> DEFINE x == At(cs, c)
           y(e) == [x EXCEPT !.vars = e]
           f == With(cs, c, y(d))
<1>1. Dict(cs) /\ x = [type |-> x.type, vars |-> x.vars]
  BY DEF ConnsTyped, Connection
<1>2. \A e : VarsPut(cs, c, e) = With(cs, c, y(e))
  BY DEF VarsPut
<1> HIDE DEF x
<1>3. /\ \A e : y(e) = [type |-> x.type, vars |-> e] /\ y(e).vars = e
                /\ y(e).type = x.type
      /\ y(x.vars) = x
  BY <1>1
<1>4. Connection(y(d))
  BY <1>3 DEF Connection
<1>5. \A e : [y(d) EXCEPT !.vars = e] = y(e)
  BY <1>3
<1> HIDE DEF y
<1>6. /\ Dict(f) /\ Keys(f) = Keys(cs) /\ At(f, c) = y(d)
      /\ \A j \in Keys(cs) \ {c} : At(f, j) = At(cs, j)
      /\ \A u : With(f, c, u) = With(cs, c, u)
      /\ With(cs, c, x) = cs
  BY <1>1, WithIs DEF x
<1> HIDE DEF f
<1>7. ConnsTyped(f)
  BY <1>4, <1>6 DEF ConnsTyped
<1>8. \A e : VarsPut(f, c, e) = With(cs, c, y(e))
  BY <1>5, <1>6 DEF VarsPut
<1> QED BY <1>2, <1>3, <1>6, <1>7, <1>8 DEF f, x

\* The panels of a view, ...
LEMMA PanelsPutIs ==
  ASSUME NEW vs, ViewsTyped(vs), NEW w \in Keys(vs), NEW ps, Shelf(ps)
  PROVE  /\ ViewsTyped(With(vs, w, ps)) /\ Keys(With(vs, w, ps)) = Keys(vs)
         /\ At(With(vs, w, ps), w) = ps
         /\ Catalog(With(vs, w, ps)) = [Catalog(vs) EXCEPT ![w] = Keys(ps)]
         /\ \A qs : With(With(vs, w, ps), w, qs) = With(vs, w, qs)
         /\ With(vs, w, At(vs, w)) = vs
<1> DEFINE e == With(vs, w, ps)
<1>1. Dict(vs)
  BY DEF ViewsTyped
<1>2. /\ Dict(e) /\ Keys(e) = Keys(vs) /\ At(e, w) = ps
      /\ \A j \in Keys(vs) \ {w} : At(e, j) = At(vs, j)
      /\ \A qs : With(e, w, qs) = With(vs, w, qs)
      /\ With(vs, w, At(vs, w)) = vs
  BY <1>1, WithIs
<1> HIDE DEF e
<1>3. ViewsTyped(e)
  BY <1>2 DEF ViewsTyped
<1>4. Catalog(e) = [Catalog(vs) EXCEPT ![w] = Keys(ps)]
  BY <1>2 DEF Catalog
<1> QED BY <1>2, <1>3, <1>4 DEF e

\* ... and the templates of a panel.
LEMMA TemplatesPutIs ==
  ASSUME NEW vs, ViewsTyped(vs), NEW w \in Keys(vs), NEW p \in Keys(At(vs, w)),
         NEW d, Dict(d)
  PROVE  /\ ViewsTyped(TemplatesPut(vs, w, p, d))
         /\ Catalog(TemplatesPut(vs, w, p, d)) = Catalog(vs)
         /\ At(At(TemplatesPut(vs, w, p, d), w), p) = d
         /\ \A e : TemplatesPut(TemplatesPut(vs, w, p, d), w, p, e)
                   = TemplatesPut(vs, w, p, e)
         /\ TemplatesPut(vs, w, p, At(At(vs, w), p)) = vs
<1> DEFINE ps == At(vs, w)
           qs == With(ps, p, d)
           us == TemplatesPut(vs, w, p, d)
<1>1. Dict(ps) /\ Shelf(ps) /\ us = With(vs, w, qs)
  BY DEF ViewsTyped, Shelf, TemplatesPut
<1>2. /\ Dict(qs) /\ Keys(qs) = Keys(ps) /\ At(qs, p) = d
      /\ \A j \in Keys(ps) \ {p} : At(qs, j) = At(ps, j)
      /\ \A e : With(qs, p, e) = With(ps, p, e)
      /\ With(ps, p, At(ps, p)) = ps
  BY <1>1, WithIs
<1>3. Shelf(qs)
  <2> HIDE DEF ps, qs
  <2> QED BY <1>1, <1>2 DEF Shelf
<1>4. /\ ViewsTyped(us) /\ Keys(us) = Keys(vs)
      /\ At(us, w) = qs
      /\ Catalog(us) = [Catalog(vs) EXCEPT ![w] = Keys(qs)]
      /\ \A rs : With(us, w, rs) = With(vs, w, rs)
      /\ With(vs, w, At(vs, w)) = vs
  <2> HIDE DEF qs, us
  <2> QED BY <1>1, <1>3, PanelsPutIs
<1>5. Catalog(us) = Catalog(vs)
  <2>1. Catalog(vs)[w] = Keys(ps) /\ w \in DOMAIN Catalog(vs)
        /\ Catalog(vs) = [v \in DOMAIN Catalog(vs) |-> Catalog(vs)[v]]
    BY DEF Catalog
  <2> QED BY <1>2, <1>4, <2>1
<1>6. \A e : TemplatesPut(us, w, p, e) = TemplatesPut(vs, w, p, e)
  <2> HIDE DEF qs, us
  <2> QED BY <1>2, <1>4 DEF TemplatesPut
<1>7. TemplatesPut(vs, w, p, At(ps, p)) = vs
  BY <1>2, <1>4 DEF TemplatesPut
<1> QED BY <1>2, <1>4, <1>5, <1>6, <1>7

-----------------------------------------------------------------------------
(***************************************************************************)
(* The names: a command that finds what it works on leaves what the next   *)
(* one, or the one before, looks for.                                      *)
(***************************************************************************)
Known(q, cs, ps) ==
  Fielded(q) /\ Typed(q) /\ Keys(q.conns) = cs /\ Catalog(q.views) = ps

\* From the names cs and ps to ds and qs.
Mapped(f) == f = [x \in DOMAIN f |-> f[x]]

Ok(cmd, cs, ps, ds, qs) ==
  /\ Fits(cmd) /\ NamesConns(cmd, cs, ds) /\ NamesPanels(cmd, ps, qs)
  /\ Mapped(ps) /\ Mapped(qs)

\* The result r has the names xs and ys, its command leads from cs, ps to ds, qs.
Sound(r, xs, ys, cs, ps, ds, qs) ==
  Known(r.prj, xs, ys) /\ Ok(r.cmd, cs, ps, ds, qs)

LEMMA KnownIs ==
  ASSUME NEW q, NEW cs, NEW ps, Known(q, cs, ps)
  PROVE  /\ Has(q, q.conns, q.views) /\ ConnsTyped(q.conns) /\ ViewsTyped(q.views)
         /\ Keys(q.conns) = cs /\ Catalog(q.views) = ps
         /\ DOMAIN ps = Keys(q.views) /\ ps = [w \in DOMAIN ps |-> ps[w]]
         /\ \A w \in Keys(q.views) : ps[w] = Keys(At(q.views, w)) /\ Shelf(At(q.views, w))
<1>1. /\ Has(q, q.conns, q.views) /\ ConnsTyped(q.conns) /\ ViewsTyped(q.views)
      /\ Keys(q.conns) = cs /\ Catalog(q.views) = ps
  BY DEF Known, Has, Typed
<1>2. DOMAIN ps = Keys(q.views) /\ ps = [w \in DOMAIN ps |-> ps[w]]
  BY <1>1 DEF Catalog
<1>3. ASSUME NEW w \in Keys(q.views)
      PROVE  ps[w] = Keys(At(q.views, w)) /\ Shelf(At(q.views, w))
  BY <1>1 DEF Catalog, ViewsTyped
<1> QED BY <1>1, <1>2, <1>3

LEMMA SoundIs ==
  ASSUME NEW r, NEW c, NEW es, NEW vs, Makes(r, c, es, vs),
         ConnsTyped(es), ViewsTyped(vs),
         NEW xs, NEW ys, Keys(es) = xs, Catalog(vs) = ys,
         NEW cs, NEW ps, NEW ds, NEW qs, Ok(c, cs, ps, ds, qs)
  PROVE  Sound(r, xs, ys, cs, ps, ds, qs)
BY DEF Makes, Has, Known, Typed, Sound

-----------------------------------------------------------------------------
\* Connections.
LEMMA ConnectionNames ==
  ASSUME NEW cmd, cmd.kind \in ConnectionKinds \cup VariableKinds,
         NEW cs, NEW ps, NEW ds, NEW qs, Ok(cmd, cs, ps, ds, qs)
  PROVE  /\ qs = ps /\ "kind" \in DOMAIN cmd /\ cmd.kind \in Kinds
         /\ cmd.kind = "AddConnection" => cmd.cn \notin cs /\ ds = cs \cup {cmd.cn}
         /\ cmd.kind = "DelConnection" => cmd.cn \in cs /\ ds = cs \ {cmd.cn}
         /\ cmd.kind = "RenameConnection" =>
              cmd.old \in cs /\ cmd.new \notin cs /\ ds = (cs \ {cmd.old}) \cup {cmd.new}
         /\ cmd.kind \in VariableKinds \cup {"Reimport"} => cmd.cn \in cs /\ ds = cs
         /\ cmd.kind \in {"AddConnection", "DelConnection", "Reimport"} =>
              {"cn", "c"} \subseteq DOMAIN cmd /\ Connection(cmd.c)
         /\ cmd.kind = "Reimport" =>
              {"old", "pos"} \subseteq DOMAIN cmd /\ Connection(cmd.old)
<1>1. qs = ps
  BY DEF Ok, NamesPanels, ConnectionKinds, VariableKinds
<1>2. /\ cmd.kind = "AddConnection" => cmd.cn \notin cs /\ ds = cs \cup {cmd.cn}
      /\ cmd.kind = "DelConnection" => cmd.cn \in cs /\ ds = cs \ {cmd.cn}
      /\ cmd.kind = "RenameConnection" =>
           cmd.old \in cs /\ cmd.new \notin cs /\ ds = (cs \ {cmd.old}) \cup {cmd.new}
  BY DEF Ok, NamesConns
<1>3. cmd.kind \in VariableKinds \cup {"Reimport"} => cmd.cn \in cs /\ ds = cs
  BY DEF Ok, NamesConns, ConnectionKinds, VariableKinds
<1>4. /\ "kind" \in DOMAIN cmd /\ cmd.kind \in Kinds
      /\ cmd.kind \in ConnectionKinds \ {"RenameConnection"} =>
           {"cn", "c"} \subseteq DOMAIN cmd /\ Connection(cmd.c)
      /\ cmd.kind = "Reimport" =>
           {"old", "pos"} \subseteq DOMAIN cmd /\ Connection(cmd.old)
  BY DEF Ok, Fits
<1>5. cmd.kind \in {"AddConnection", "DelConnection", "Reimport"} =>
        cmd.kind \in ConnectionKinds \ {"RenameConnection"}
  BY DEF ConnectionKinds
<1> QED BY <1>1, <1>2, <1>3, <1>4, <1>5

LEMMA ConnectionKept ==
  ASSUME NEW cmd, cmd.kind \in {"AddConnection", "Reimport"},
         NEW cs, NEW ps, NEW ds, NEW qs, Ok(cmd, cs, ps, ds, qs),
         NEW c, Connection(c), NEW next,
         \/ next = [cmd EXCEPT !.c = c]
         \/ cmd.kind = "Reimport" /\ next = [cmd EXCEPT !.old = c]
  PROVE  Ok(next, cs, ps, ds, qs)
<1>1. /\ qs = ps /\ {"kind", "cn", "c"} \subseteq DOMAIN cmd
      /\ cmd.kind \in {"AddConnection", "Reimport"}
      /\ cmd.kind = "Reimport" => "old" \in DOMAIN cmd
  <2>1. cmd.kind \in ConnectionKinds \cup VariableKinds
    BY DEF ConnectionKinds, VariableKinds
  <2> QED BY <2>1, ConnectionNames
<1>2. Fits(cmd) /\ NamesConns(cmd, cs, ds)
  BY DEF Ok
<1>3. ASSUME NEW new, DOMAIN new = DOMAIN cmd, new.kind = cmd.kind, new.cn = cmd.cn,
             Connection(new.c), new.kind = "Reimport" => Connection(new.old)
      PROVE  Ok(new, cs, ps, ds, qs)
  <2>1. NamesConns(new, cs, ds)
    BY <1>1, <1>2, <1>3 DEF NamesConns, ConnectionKinds, VariableKinds
  <2>2. NamesPanels(new, ps, qs)
    BY <1>1, <1>3 DEF NamesPanels, TemplateKinds
  <2>3. Fits(new)
    <3>1. /\ "kind" \in DOMAIN cmd /\ cmd.kind \in Kinds
          /\ cmd.kind = "Reimport" => "pos" \in DOMAIN cmd
      BY <1>2 DEF Fits
    <3>2. new.kind \in {"AddConnection", "Reimport"}
      BY <1>1, <1>3
    <3> QED BY <1>1, <1>3, <3>1, <3>2 DEF Fits
  <2> QED BY <2>1, <2>2, <2>3 DEF Ok
<1>4. Connection(cmd.c) /\ (cmd.kind = "Reimport" => Connection(cmd.old))
  <2>1. cmd.kind \in ConnectionKinds \ {"RenameConnection"}
    BY <1>1 DEF ConnectionKinds
  <2> QED BY <1>2, <2>1 DEF Fits
<1>5. CASE next = [cmd EXCEPT !.c = c]
  <2>1. /\ DOMAIN next = DOMAIN cmd /\ next.kind = cmd.kind /\ next.cn = cmd.cn
        /\ next.c = c /\ (next.old = cmd.old \/ next.kind # "Reimport")
    BY <1>1, <1>5
  <2>2. Connection(next.c) /\ (next.kind = "Reimport" => Connection(next.old))
    BY <1>4, <2>1
  <2> QED BY <1>3, <2>1, <2>2
<1>6. CASE cmd.kind = "Reimport" /\ next = [cmd EXCEPT !.old = c]
  <2>1. /\ DOMAIN next = DOMAIN cmd /\ next.kind = cmd.kind /\ next.cn = cmd.cn
        /\ next.c = cmd.c /\ next.old = c
    BY <1>1, <1>6
  <2>2. Connection(next.c) /\ (next.kind = "Reimport" => Connection(next.old))
    BY <1>4, <2>1
  <2> QED BY <1>3, <2>1, <2>2
<1> QED BY <1>5, <1>6

\* The connections es, the views as they were.
LEMMA ConnectionSound ==
  ASSUME NEW prj, NEW xs, NEW ps, Known(prj, xs, ps),
         NEW es, Filled("connections", es), NEW ys, Keys(es) = ys,
         NEW r, NEW c, Makes(r, c, es, prj.views),
         NEW cs, NEW ds, Ok(c, cs, ps, ds, ps)
  PROVE  Sound(r, ys, ps, cs, ps, ds, ps)
<1>1. ViewsTyped(prj.views) /\ Catalog(prj.views) = ps
  BY KnownIs
<1>2. ConnsTyped(es)
  BY FilledIs
<1> QED BY <1>1, <1>2, SoundIs

LEMMA ConnectionsAre ==
  ASSUME NEW prj, NEW xs, NEW ps, Known(prj, xs, ps)
  PROVE  /\ Has(prj, prj.conns, prj.views) /\ Dict(prj.conns)
         /\ Filled("connections", prj.conns) /\ Keys(prj.conns) = xs
         /\ \A k \in xs : /\ Connection(At(prj.conns, k))
                          /\ Well("connections", At(prj.conns, k))
                          /\ Filled("connections", Drop(prj.conns, k))
                          /\ Keys(Drop(prj.conns, k)) = xs \ {k}
                          /\ Dict(Drop(prj.conns, k))
<1> DEFINE cs == prj.conns
<1>1. Has(prj, cs, prj.views) /\ ConnsTyped(cs) /\ Keys(cs) = xs
  BY KnownIs
<1> HIDE DEF cs
<1>2. Dict(cs) /\ Filled("connections", cs)
  BY <1>1, FilledIs DEF ConnsTyped
<1>3. ASSUME NEW k \in xs
      PROVE  /\ Connection(At(cs, k)) /\ Well("connections", At(cs, k))
             /\ Filled("connections", Drop(cs, k))
             /\ Keys(Drop(cs, k)) = xs \ {k} /\ Dict(Drop(cs, k))
  <2>1. Connection(At(cs, k))
    BY <1>1 DEF ConnsTyped
  <2>2. Well("connections", At(cs, k))
    BY <2>1, WellIs
  <2>3. Filled("connections", Drop(cs, k))
    BY <1>2, DroppedFills
  <2>4. Keys(Drop(cs, k)) = xs \ {k} /\ Dict(Drop(cs, k))
    BY <1>1, <1>2, DropDict
  <2> QED BY <2>1, <2>2, <2>3, <2>4
<1> QED BY <1>1, <1>2, <1>3 DEF cs

\* An entry k put into d, in whatever place.
LEMMA AddedKeys ==
  ASSUME NEW what, NEW d, Filled(what, d), NEW k, k \notin Keys(d), NEW v, Well(what, v)
  PROVE  /\ Filled(what, AddNew(d, k, v)) /\ Keys(AddNew(d, k, v)) = Keys(d) \cup {k}
         /\ Filled(what, Put(d, k, v)) /\ Keys(Put(d, k, v)) = Keys(d) \cup {k}
         /\ \A pos :
              /\ Filled(what, MoveTo(Put(d, k, v), k, pos))
              /\ Keys(MoveTo(Put(d, k, v), k, pos)) = Keys(d) \cup {k}
              /\ Filled(what, MoveTo(AddNew(d, k, v), k, pos))
              /\ Keys(MoveTo(AddNew(d, k, v), k, pos)) = Keys(d) \cup {k}
              /\ Filled(what, PutAt(d, k, v, pos))
              /\ Keys(PutAt(d, k, v, pos)) = Keys(d) \cup {k}
<1>1. Dict(d)
  BY DEF Filled
<1>2. /\ AddNew(d, k, v) = Put(d, k, v) /\ Taking(d, k, v, Put(d, k, v))
      /\ \A pos : /\ Taking(d, k, v, MoveTo(Put(d, k, v), k, pos))
                  /\ Taking(d, k, v, PutAt(d, k, v, pos))
  BY <1>1, AddsTakes
<1>3. ASSUME NEW e, Taking(d, k, v, e)
      PROVE  Filled(what, e) /\ Keys(e) = Keys(d) \cup {k}
  <2>1. Filled(what, e)
    BY <1>3, AddedFills
  <2> QED BY <1>3, <2>1 DEF Taking
<1> QED BY <1>2, <1>3

LEMMA AddConnectionSound ==
  ASSUME NEW cmd, cmd.kind = "AddConnection",
         NEW cs, NEW ps, NEW ds, Ok(cmd, cs, ps, ds, ps), NEW prj
  PROVE  /\ Known(prj, cs, ps) =>
              Sound(RedoAddConnection(cmd, prj), ds, ps, cs, ps, ds, ps)
         /\ Known(prj, ds, ps) =>
              Sound(UndoAddConnection(cmd, prj), cs, ps, cs, ps, ds, ps)
<1> DEFINE xs == prj.conns
           c  == At(xs, cmd.cn)
           new == [cmd EXCEPT !.c = c]
<1>1. cmd.cn \notin cs /\ ds = cs \cup {cmd.cn} /\ Connection(cmd.c)
  <2>1. cmd.kind \in ConnectionKinds \cup VariableKinds
    BY DEF ConnectionKinds
  <2> QED BY <2>1, ConnectionNames
<1>2. ASSUME Known(prj, cs, ps)
      PROVE  Sound(RedoAddConnection(cmd, prj), ds, ps, cs, ps, ds, ps)
  <2> DEFINE es == AddNew(xs, cmd.cn, cmd.c)
  <2>1. Has(prj, xs, prj.views) /\ Filled("connections", xs) /\ Keys(xs) = cs
    BY <1>2, ConnectionsAre
  <2>2. Makes(RedoAddConnection(cmd, prj), cmd, es, prj.views)
    BY <2>1, ConnectionMakes
  <2> HIDE DEF xs
  <2>3. Well("connections", cmd.c) /\ cmd.cn \notin Keys(xs)
    BY <1>1, <2>1, WellIs
  <2>4. Filled("connections", es) /\ Keys(es) = ds
    BY <1>1, <2>1, <2>3, AddedKeys
  <2> HIDE DEF es
  <2> QED BY <1>2, <2>2, <2>4, ConnectionSound
<1>3. ASSUME Known(prj, ds, ps)
      PROVE  Sound(UndoAddConnection(cmd, prj), cs, ps, cs, ps, ds, ps)
  <2> DEFINE es == Drop(xs, cmd.cn)
  <2>1. /\ Has(prj, xs, prj.views)
        /\ Connection(c) /\ Filled("connections", es) /\ Keys(es) = ds \ {cmd.cn}
    BY <1>1, <1>3, ConnectionsAre
  <2>2. Makes(UndoAddConnection(cmd, prj), new, es, prj.views)
    BY <2>1, ConnectionMakes
  <2>5. new = [cmd EXCEPT !.c = c]
    OBVIOUS
  <2> HIDE DEF xs, c, new
  <2>3. Ok(new, cs, ps, ds, ps)
    <3>1. cmd.kind \in {"AddConnection", "Reimport"}
      OBVIOUS
    <3> QED BY <2>1, <2>5, <3>1, ConnectionKept
  <2>4. Keys(es) = cs
    BY <1>1, <2>1
  <2> HIDE DEF es
  <2> QED BY <1>3, <2>1, <2>2, <2>3, <2>4, ConnectionSound
<1> QED BY <1>2, <1>3

-----------------------------------------------------------------------------
LEMMA ReimportSound ==
  ASSUME NEW cmd, cmd.kind = "Reimport",
         NEW cs, NEW ps, NEW ds, Ok(cmd, cs, ps, ds, ps), NEW prj
  PROVE  /\ Known(prj, cs, ps) =>
              Sound(RedoReimport(cmd, prj), ds, ps, cs, ps, ds, ps)
         /\ Known(prj, ds, ps) =>
              Sound(UndoReimport(cmd, prj), cs, ps, cs, ps, ds, ps)
<1>1. cmd.cn \in cs /\ ds = cs /\ Connection(cmd.c) /\ Connection(cmd.old)
  <2>1. cmd.kind \in ConnectionKinds \cup VariableKinds
    BY DEF ConnectionKinds
  <2> QED BY <2>1, ConnectionNames
<1>2. ASSUME Known(prj, cs, ps)
      PROVE  /\ Sound(RedoReimport(cmd, prj), ds, ps, cs, ps, ds, ps)
             /\ Sound(UndoReimport(cmd, prj), cs, ps, cs, ps, ds, ps)
  <2> DEFINE xs == prj.conns
             ys == Drop(xs, cmd.cn)
             es == Put(ys, cmd.cn, cmd.c)
             fs == MoveTo(Put(ys, cmd.cn, cmd.old), cmd.cn, cmd.pos)
             c  == At(xs, cmd.cn)
             a  == [cmd EXCEPT !.old = c]
             b  == [cmd EXCEPT !.c = c]
  <2>1. /\ Has(prj, xs, prj.views) /\ Connection(c) /\ Filled("connections", ys)
        /\ Keys(ys) = cs \ {cmd.cn}
    BY <1>1, <1>2, ConnectionsAre
  <2>2. /\ Makes(RedoReimport(cmd, prj), a, es, prj.views)
        /\ Makes(UndoReimport(cmd, prj), b, fs, prj.views)
    BY <2>1, ConnectionMakes
  <2>3. a = [cmd EXCEPT !.old = c] /\ b = [cmd EXCEPT !.c = c]
    OBVIOUS
  <2> HIDE DEF xs, ys, c, a, b
  <2>4. Well("connections", cmd.c) /\ Well("connections", cmd.old) /\ cmd.cn \notin Keys(ys)
        /\ cs = (cs \ {cmd.cn}) \cup {cmd.cn}
    BY <1>1, <2>1, WellIs
  <2>5. Filled("connections", es) /\ Keys(es) = ds
    <3>1. Filled("connections", es) /\ Keys(es) = Keys(ys) \cup {cmd.cn}
      BY <2>1, <2>4, AddedKeys
    <3> QED BY <1>1, <2>1, <2>4, <3>1
  <2>6. Filled("connections", fs) /\ Keys(fs) = cs
    <3>1. Filled("connections", fs) /\ Keys(fs) = Keys(ys) \cup {cmd.cn}
      BY <2>1, <2>4, AddedKeys
    <3> QED BY <1>1, <2>1, <2>4, <3>1
  <2>7. cmd.kind \in {"AddConnection", "Reimport"}
    OBVIOUS
  <2>12. Connection(c)
    BY <2>1
  <2>13. a = [cmd EXCEPT !.c = c] \/ (cmd.kind = "Reimport" /\ a = [cmd EXCEPT !.old = c])
    BY <2>3
  <2>14. b = [cmd EXCEPT !.c = c] \/ (cmd.kind = "Reimport" /\ b = [cmd EXCEPT !.old = c])
    BY <2>3
  <2>8. Ok(a, cs, ps, ds, ps)
    BY <2>7, <2>12, <2>13, ConnectionKept
  <2>9. Ok(b, cs, ps, ds, ps)
    BY <2>7, <2>12, <2>14, ConnectionKept
  <2> HIDE DEF es, fs
  <2>10. Sound(RedoReimport(cmd, prj), ds, ps, cs, ps, ds, ps)
    BY <1>2, <2>2, <2>5, <2>8, ConnectionSound
  <2>11. Sound(UndoReimport(cmd, prj), cs, ps, cs, ps, ds, ps)
    BY <1>2, <2>2, <2>6, <2>9, ConnectionSound
  <2> QED BY <2>10, <2>11
<1> QED BY <1>1, <1>2

LEMMA DelConnectionSound ==
  ASSUME NEW cmd, cmd.kind = "DelConnection",
         NEW cs, NEW ps, NEW ds, Ok(cmd, cs, ps, ds, ps), NEW prj
  PROVE  /\ Known(prj, cs, ps) =>
              Sound(RedoDelConnection(cmd, prj), ds, ps, cs, ps, ds, ps)
         /\ Known(prj, ds, ps) =>
              Sound(UndoDelConnection(cmd, prj), cs, ps, cs, ps, ds, ps)
<1> DEFINE xs == prj.conns
<1>1. cmd.cn \in cs /\ ds = cs \ {cmd.cn} /\ Connection(cmd.c)
  <2>1. cmd.kind \in ConnectionKinds \cup VariableKinds
    BY DEF ConnectionKinds
  <2> QED BY <2>1, ConnectionNames
<1>2. ASSUME Known(prj, cs, ps)
      PROVE  Sound(RedoDelConnection(cmd, prj), ds, ps, cs, ps, ds, ps)
  <2> DEFINE es == Drop(xs, cmd.cn)
  <2>1. Has(prj, xs, prj.views) /\ Filled("connections", es) /\ Keys(es) = ds
    BY <1>1, <1>2, ConnectionsAre
  <2>2. Makes(RedoDelConnection(cmd, prj), cmd, es, prj.views)
    BY <2>1, ConnectionMakes
  <2> HIDE DEF xs, es
  <2> QED BY <1>2, <2>1, <2>2, ConnectionSound
<1>3. ASSUME Known(prj, ds, ps)
      PROVE  Sound(UndoDelConnection(cmd, prj), cs, ps, cs, ps, ds, ps)
  <2> DEFINE es == MoveTo(AddNew(xs, cmd.cn, cmd.c), cmd.cn, cmd.pos)
  <2>1. Has(prj, xs, prj.views) /\ Filled("connections", xs) /\ Keys(xs) = ds
    BY <1>3, ConnectionsAre
  <2>2. Makes(UndoDelConnection(cmd, prj), cmd, es, prj.views)
    BY <2>1, ConnectionMakes
  <2> HIDE DEF xs
  <2>3. Well("connections", cmd.c) /\ cmd.cn \notin Keys(xs) /\ cs = ds \cup {cmd.cn}
    BY <1>1, <2>1, WellIs
  <2>4. Filled("connections", es) /\ Keys(es) = cs
    BY <2>1, <2>3, AddedKeys
  <2> HIDE DEF es
  <2> QED BY <1>3, <2>2, <2>4, ConnectionSound
<1> QED BY <1>2, <1>3

LEMMA ConnectionRenamedSound ==
  ASSUME NEW cs, NEW ps, NEW prj, Known(prj, cs, ps), NEW o \in cs, NEW n, n \notin cs,
         NEW es, es = (cs \ {o}) \cup {n},
         NEW cmd, NEW xs, NEW ys, Ok(cmd, xs, ps, ys, ps)
  PROVE  Sound(ConnectionRenamed(cmd, prj, o, n), es, ps, xs, ps, ys, ps)
<1> DEFINE d  == prj.conns
           a  == Drop(d, o)
           e  == PutAt(a, n, At(d, o), IndexOf(d, o))
<1>1. /\ Has(prj, d, prj.views) /\ Well("connections", At(d, o))
      /\ Filled("connections", a) /\ Keys(a) = cs \ {o}
  BY ConnectionsAre
<1>2. Makes(ConnectionRenamed(cmd, prj, o, n), cmd, e, prj.views)
  BY <1>1, ConnectionMakes
<1> HIDE DEF d, a
<1>3. n \notin Keys(a)
  BY <1>1
<1>4. Filled("connections", e) /\ Keys(e) = es
  BY <1>1, <1>3, AddedKeys
<1> HIDE DEF e
<1> QED BY <1>2, <1>4, ConnectionSound

LEMMA RenameConnectionSound ==
  ASSUME NEW cmd, cmd.kind = "RenameConnection",
         NEW cs, NEW ps, NEW ds, Ok(cmd, cs, ps, ds, ps), NEW prj
  PROVE  /\ Known(prj, cs, ps) =>
              Sound(ConnectionRenamed(cmd, prj, cmd.old, cmd.new), ds, ps, cs, ps, ds, ps)
         /\ Known(prj, ds, ps) =>
              Sound(ConnectionRenamed(cmd, prj, cmd.new, cmd.old), cs, ps, cs, ps, ds, ps)
<1>1. cmd.old \in cs /\ cmd.new \notin cs /\ ds = (cs \ {cmd.old}) \cup {cmd.new}
  <2>1. cmd.kind \in ConnectionKinds \cup VariableKinds
    BY DEF ConnectionKinds
  <2> QED BY <2>1, ConnectionNames
<1>2. cmd.new \in ds /\ cmd.old \notin ds /\ cs = (ds \ {cmd.new}) \cup {cmd.old}
  BY <1>1
<1>3. ASSUME Known(prj, cs, ps)
      PROVE  Sound(ConnectionRenamed(cmd, prj, cmd.old, cmd.new), ds, ps, cs, ps, ds, ps)
  BY <1>1, <1>3, ConnectionRenamedSound
<1>4. ASSUME Known(prj, ds, ps)
      PROVE  Sound(ConnectionRenamed(cmd, prj, cmd.new, cmd.old), cs, ps, cs, ps, ds, ps)
  BY <1>2, <1>4, ConnectionRenamedSound
<1> QED BY <1>3, <1>4

-----------------------------------------------------------------------------
\* Variables.
LEMMA VariableSound ==
  ASSUME NEW cs, NEW ps, NEW prj, Known(prj, cs, ps), NEW cn \in cs, NEW e, Dict(e),
         NEW r, NEW cmd, Makes(r, cmd, VarsPut(prj.conns, cn, e), prj.views),
         NEW ds, Ok(cmd, cs, ps, ds, ps)
  PROVE  Sound(r, cs, ps, cs, ps, ds, ps)
<1> DEFINE xs == prj.conns
           es == VarsPut(xs, cn, e)
<1>1. ConnsTyped(xs) /\ Keys(xs) = cs /\ ViewsTyped(prj.views) /\ Catalog(prj.views) = ps
  BY KnownIs
<1> HIDE DEF xs
<1>2. ConnsTyped(es) /\ Keys(es) = cs
  BY <1>1, VarsPutIs
<1>3. Makes(r, cmd, es, prj.views)
  BY DEF xs
<1> HIDE DEF es
<1> QED BY <1>1, <1>2, <1>3, SoundIs

LEMMA VariablesSound ==
  ASSUME NEW cmd, cmd.kind \in VariableKinds,
         NEW cs, NEW ps, NEW ds, Ok(cmd, cs, ps, ds, ps), NEW prj, Known(prj, cs, ps)
  PROVE  /\ Sound(RedoAddVariable(cmd, prj), cs, ps, cs, ps, ds, ps)
         /\ Sound(UndoAddVariable(cmd, prj), cs, ps, cs, ps, ds, ps)
         /\ Sound(RedoDelVariable(cmd, prj), cs, ps, cs, ps, ds, ps)
         /\ Sound(UndoDelVariable(cmd, prj), cs, ps, cs, ps, ds, ps)
         /\ \A o, n : Sound(VariableRenamed(cmd, prj, o, n), cs, ps, cs, ps, ds, ps)
<1> DEFINE xs == prj.conns
           d  == At(xs, cmd.cn).vars
<1>1. cmd.cn \in cs
  BY ConnectionNames
<1>2. Has(prj, xs, prj.views) /\ Dict(d)
  BY <1>1, ConnectionsAre DEF Connection
<1>3. /\ Makes(RedoAddVariable(cmd, prj), cmd,
               VarsPut(xs, cmd.cn, Put(d, cmd.vn, cmd.vt)), prj.views)
      /\ Makes(UndoAddVariable(cmd, prj), cmd,
               VarsPut(xs, cmd.cn, Drop(d, cmd.vn)), prj.views)
      /\ Makes(RedoDelVariable(cmd, prj), cmd,
               VarsPut(xs, cmd.cn, Drop(d, cmd.vn)), prj.views)
      /\ Makes(UndoDelVariable(cmd, prj), cmd,
               VarsPut(xs, cmd.cn, MoveTo(Put(d, cmd.vn, cmd.vt), cmd.vn, cmd.pos)),
               prj.views)
      /\ \A o, n : Makes(VariableRenamed(cmd, prj, o, n), cmd,
           VarsPut(xs, cmd.cn, PutAt(Drop(d, o), n, At(d, o), IndexOf(d, o))), prj.views)
  BY <1>2, VariableMakes
<1> HIDE DEF d
<1>4. /\ Dict(Put(d, cmd.vn, cmd.vt)) /\ Dict(Drop(d, cmd.vn))
      /\ Dict(MoveTo(Put(d, cmd.vn, cmd.vt), cmd.vn, cmd.pos))
  BY <1>2, PutAtDict, DropDict, MoveIs
<1>5. \A o, n : Dict(PutAt(Drop(d, o), n, At(d, o), IndexOf(d, o)))
  BY <1>2, PutAtDict, DropDict
<1>6. ASSUME NEW e, Dict(e), NEW r, Makes(r, cmd, VarsPut(xs, cmd.cn, e), prj.views)
      PROVE  Sound(r, cs, ps, cs, ps, ds, ps)
  BY <1>1, <1>6, VariableSound
<1> HIDE DEF xs
<1> QED BY <1>3, <1>4, <1>5, <1>6

-----------------------------------------------------------------------------
\* Views.

Wider(ps, k, S) ==
  [w \in DOMAIN ps \cup {k} |-> IF w = k THEN S ELSE ps[w]]
Narrower(ps, k) == [w \in DOMAIN ps \ {k} |-> ps[w]]
Renaming(ps, o, n) ==
  [w \in (DOMAIN ps \ {o}) \cup {n} |-> ps[IF w = n THEN o ELSE w]]

LEMMA WiderIs ==
  ASSUME NEW ps, Mapped(ps), NEW k, NEW S
  PROVE  /\ DOMAIN Wider(ps, k, S) = DOMAIN ps \cup {k} /\ Wider(ps, k, S)[k] = S
         /\ k \notin DOMAIN ps => Narrower(Wider(ps, k, S), k) = ps
<1>1. DOMAIN Wider(ps, k, S) = DOMAIN ps \cup {k} /\ Wider(ps, k, S)[k] = S
  BY DEF Wider
<1>2. k \notin DOMAIN ps => Narrower(Wider(ps, k, S), k) = ps
  <2>1. ASSUME k \notin DOMAIN ps
        PROVE  Narrower(Wider(ps, k, S), k) = [w \in DOMAIN ps |-> ps[w]]
    BY <2>1 DEF Narrower, Wider
  <2> QED BY <2>1 DEF Mapped
<1> QED BY <1>1, <1>2

LEMMA NarrowerIs ==
  ASSUME NEW ps, Mapped(ps), NEW k \in DOMAIN ps
  PROVE  /\ DOMAIN Narrower(ps, k) = DOMAIN ps \ {k}
         /\ Wider(Narrower(ps, k), k, ps[k]) = ps
<1>1. DOMAIN Narrower(ps, k) = DOMAIN ps \ {k}
  BY DEF Narrower
<1>2. Wider(Narrower(ps, k), k, ps[k]) = [w \in DOMAIN ps |-> ps[w]]
  BY DEF Narrower, Wider
<1> QED BY <1>1, <1>2 DEF Mapped

LEMMA RenamingIs ==
  ASSUME NEW ps, Mapped(ps), NEW o \in DOMAIN ps, NEW n, n \notin DOMAIN ps
  PROVE  /\ DOMAIN Renaming(ps, o, n) = (DOMAIN ps \ {o}) \cup {n}
         /\ Renaming(Renaming(ps, o, n), n, o) = ps
<1>1. DOMAIN Renaming(ps, o, n) = (DOMAIN ps \ {o}) \cup {n}
  BY DEF Renaming
<1>2. Renaming(Renaming(ps, o, n), n, o) = [w \in DOMAIN ps |-> ps[w]]
  BY DEF Renaming
<1> QED BY <1>1, <1>2 DEF Mapped

\* The command keeps the view it takes away, or puts back.
Viewing(cmd, v, next) ==
  next = [cmd EXCEPT !.view = v] \/ next = [cmd EXCEPT !.view = v, !.bl = {}]

LEMMA ViewNames ==
  ASSUME NEW cmd, cmd.kind \in ViewKinds,
         NEW cs, NEW ps, NEW ds, NEW qs, Ok(cmd, cs, ps, ds, qs)
  PROVE  /\ ds = cs /\ "kind" \in DOMAIN cmd /\ Fits(cmd) /\ NamesPanels(cmd, ps, qs)
         /\ cmd.kind = "AddView" =>
              cmd.name \notin DOMAIN ps /\ qs = Wider(ps, cmd.name, Keys(cmd.view))
         /\ cmd.kind = "DelView" =>
              /\ cmd.name \in DOMAIN ps /\ ps[cmd.name] = Keys(cmd.view)
              /\ qs = Narrower(ps, cmd.name)
         /\ cmd.kind = "RenameView" =>
              /\ cmd.old \in DOMAIN ps /\ cmd.new \notin DOMAIN ps
              /\ qs = Renaming(ps, cmd.old, cmd.new)
         /\ cmd.kind = "ReorderView" => qs = ps
         /\ cmd.kind \in {"AddView", "DelView"} =>
              {"name", "view", "pos"} \subseteq DOMAIN cmd /\ Shelf(cmd.view)
<1>1. ds = cs
  BY DEF Ok, NamesConns, ConnectionKinds, ViewKinds
<1>2. Fits(cmd) /\ NamesPanels(cmd, ps, qs)
  BY DEF Ok
<1>3. cmd.kind = "ReorderView" => qs = ps
  BY <1>2 DEF NamesPanels
<1>4. /\ "kind" \in DOMAIN cmd
      /\ cmd.kind \in {"AddView", "DelView"} =>
           {"name", "view", "pos"} \subseteq DOMAIN cmd /\ Shelf(cmd.view)
  BY <1>2 DEF Fits
<1>5. cmd.kind = "AddView" =>
        cmd.name \notin DOMAIN ps /\ qs = Wider(ps, cmd.name, Keys(cmd.view))
  BY <1>2, Zenon DEF NamesPanels, Wider
<1>6. cmd.kind = "DelView" =>
        /\ cmd.name \in DOMAIN ps /\ ps[cmd.name] = Keys(cmd.view)
        /\ qs = Narrower(ps, cmd.name)
  BY <1>2, Zenon DEF NamesPanels, Narrower
<1>7. cmd.kind = "RenameView" =>
        /\ cmd.old \in DOMAIN ps /\ cmd.new \notin DOMAIN ps
        /\ qs = Renaming(ps, cmd.old, cmd.new)
  BY <1>2, Zenon DEF NamesPanels, Renaming
<1> QED BY <1>1, <1>2, <1>3, <1>4, <1>5, <1>6, <1>7

LEMMA ViewKept ==
  ASSUME NEW cmd, cmd.kind \in {"AddView", "DelView"},
         NEW cs, NEW ps, NEW ds, NEW qs, Ok(cmd, cs, ps, ds, qs),
         NEW view, Shelf(view), Keys(view) = Keys(cmd.view), NEW next,
         Viewing(cmd, view, next)
  PROVE  Ok(next, cs, ps, ds, qs)
<1>1. cmd.kind \in ViewKinds
  BY DEF ViewKinds
<1>2. /\ ds = cs /\ "kind" \in DOMAIN cmd /\ Fits(cmd) /\ NamesPanels(cmd, ps, qs)
      /\ {"name", "view", "pos"} \subseteq DOMAIN cmd
  <2>1. cmd.kind \in {"AddView", "DelView"} =>
          {"name", "view", "pos"} \subseteq DOMAIN cmd /\ Shelf(cmd.view)
    BY <1>1, ViewNames
  <2>2. ds = cs /\ "kind" \in DOMAIN cmd /\ Fits(cmd) /\ NamesPanels(cmd, ps, qs)
    BY <1>1, ViewNames
  <2> QED BY <2>1, <2>2
<1>3. /\ DOMAIN next = DOMAIN cmd /\ next.kind = cmd.kind /\ next.name = cmd.name
      /\ next.view = view
  <2>1. "kind" \in DOMAIN cmd /\ "name" \in DOMAIN cmd /\ "view" \in DOMAIN cmd
    BY <1>2
  <2>2. CASE next = [cmd EXCEPT !.view = view]
    BY <2>1, <2>2
  <2>3. CASE next = [cmd EXCEPT !.view = view, !.bl = {}]
    BY <2>1, <2>3
  <2> QED BY <2>2, <2>3 DEF Viewing
<1>4. Fits(next)
  <2>1. cmd.kind \in Kinds
    BY <1>2 DEF Fits
  <2> QED BY <1>2, <1>3, <2>1 DEF Fits, ConnectionKinds
<1>5. NamesPanels(next, ps, qs)
  BY <1>2, <1>3 DEF NamesPanels, TemplateKinds
<1>6. NamesConns(next, cs, ds)
  BY <1>2, <1>3 DEF NamesConns, VariableKinds
<1> QED BY <1>4, <1>5, <1>6 DEF Ok

LEMMA ViewSound ==
  ASSUME NEW prj, NEW cs, NEW xs, Known(prj, cs, xs),
         NEW vs, ViewsTyped(vs), NEW ys, Catalog(vs) = ys,
         NEW r, NEW c, Makes(r, c, prj.conns, vs),
         NEW ps, NEW qs, Ok(c, cs, ps, cs, qs)
  PROVE  Sound(r, cs, ys, cs, ps, cs, qs)
<1>1. ConnsTyped(prj.conns) /\ Keys(prj.conns) = cs
  BY KnownIs
<1> QED BY <1>1, SoundIs

LEMMA ViewsAre ==
  ASSUME NEW prj, NEW cs, NEW ps, Known(prj, cs, ps)
  PROVE  /\ Has(prj, prj.conns, prj.views) /\ Dict(prj.views) /\ ViewsTyped(prj.views)
         /\ Filled("views", prj.views) /\ Catalog(prj.views) = ps
         /\ DOMAIN ps = Keys(prj.views)
         /\ \A w \in DOMAIN ps : /\ Shelf(At(prj.views, w))
                                 /\ Well("views", At(prj.views, w))
                                 /\ Keys(At(prj.views, w)) = ps[w]
<1>1. /\ Has(prj, prj.conns, prj.views) /\ ViewsTyped(prj.views) /\ Catalog(prj.views) = ps
      /\ DOMAIN ps = Keys(prj.views)
      /\ \A w \in DOMAIN ps : Keys(At(prj.views, w)) = ps[w] /\ Shelf(At(prj.views, w))
  BY KnownIs
<1>2. Dict(prj.views) /\ Filled("views", prj.views)
  BY <1>1, FilledIs DEF ViewsTyped
<1>3. \A w \in DOMAIN ps : Well("views", At(prj.views, w))
  BY <1>1, WellIs
<1> QED BY <1>1, <1>2, <1>3

\* The catalog with a view more, one less, one renamed, in another order.
LEMMA AddedCatalog ==
  ASSUME NEW vs, Filled("views", vs), NEW k, k \notin Keys(vs), NEW v, Shelf(v),
         NEW e, Taking(vs, k, v, e)
  PROVE  /\ ViewsTyped(e)
         /\ Catalog(e) = Wider(Catalog(vs), k, Keys(v))
<1>1. ViewsTyped(e)
  <2>1. Well("views", v)
    BY WellIs
  <2>2. Filled("views", e)
    BY <2>1, AddedFills
  <2> QED BY <2>2, FilledIs
<1>2. Keys(e) = Keys(vs) \cup {k} /\ At(e, k) = v /\ \A w \in Keys(vs) : At(e, w) = At(vs, w)
  BY DEF Taking
<1>3. Catalog(e) = Wider(Catalog(vs), k, Keys(v))
  BY <1>2 DEF Catalog, Wider
<1> QED BY <1>1, <1>3

LEMMA DroppedCatalog ==
  ASSUME NEW vs, Filled("views", vs), NEW k
  PROVE  /\ ViewsTyped(Drop(vs, k))
         /\ Catalog(Drop(vs, k)) = Narrower(Catalog(vs), k)
<1>1. Dict(vs)
  BY DEF Filled
<1>2. Filled("views", Drop(vs, k))
  BY DroppedFills
<1>3. Keys(Drop(vs, k)) = Keys(vs) \ {k}
      /\ \A w \in Keys(vs) \ {k} : At(Drop(vs, k), w) = At(vs, w)
  BY <1>1, DropDict
<1>4. Catalog(Drop(vs, k)) = Narrower(Catalog(vs), k)
  BY <1>3 DEF Catalog, Narrower
<1> QED BY <1>2, <1>4, FilledIs

LEMMA RenamedCatalog ==
  ASSUME NEW vs, Filled("views", vs), NEW o \in Keys(vs), NEW n, n \notin Keys(vs),
         NEW pos, NEW e, e = MoveTo(AddNew(Drop(vs, o), n, At(vs, o)), n, pos)
  PROVE  /\ ViewsTyped(e)
         /\ Catalog(e) = Renaming(Catalog(vs), o, n)
<1> DEFINE a == Drop(vs, o)
<1>1. Dict(vs)
  BY DEF Filled
<1>2. Dict(a) /\ n \notin Keys(a)
  BY <1>1, DropDict
<1>3. AddNew(a, n, At(vs, o)) = Put(a, n, At(vs, o))
      /\ \A i : Taking(a, n, At(vs, o), MoveTo(Put(a, n, At(vs, o)), n, i))
  <2> HIDE DEF a
  <2> QED BY <1>2, AddsTakes
<1>4. Taking(a, n, At(vs, o), e)
  BY <1>3
<1>5. /\ Filled("views", e) /\ Keys(e) = (Keys(vs) \ {o}) \cup {n}
      /\ At(e, n) = At(vs, o) /\ \A j \in Keys(vs) \ {o} : At(e, j) = At(vs, j)
  BY <1>4, RenamedFills
<1>6. Catalog(e) = Renaming(Catalog(vs), o, n)
  BY <1>5 DEF Catalog, Renaming
<1> QED BY <1>5, <1>6, FilledIs

LEMMA MovedCatalog ==
  ASSUME NEW vs, Filled("views", vs), NEW k, NEW pos
  PROVE  ViewsTyped(MoveTo(vs, k, pos)) /\ Catalog(MoveTo(vs, k, pos)) = Catalog(vs)
<1>1. Dict(vs)
  BY DEF Filled
<1>2. Filled("views", MoveTo(vs, k, pos))
  BY MovedFills
<1>3. /\ Keys(MoveTo(vs, k, pos)) = Keys(vs)
      /\ \A w \in Keys(vs) : At(MoveTo(vs, k, pos), w) = At(vs, w)
  BY <1>1, MoveIs
<1> QED BY <1>2, <1>3, FilledIs DEF Catalog

-----------------------------------------------------------------------------
LEMMA AddViewSound ==
  ASSUME NEW cmd, cmd.kind = "AddView",
         NEW cs, NEW ps, NEW qs, Ok(cmd, cs, ps, cs, qs), NEW prj
  PROVE  /\ Known(prj, cs, ps) =>
              Sound(RedoAddView(cmd, prj), cs, qs, cs, ps, cs, qs)
         /\ Known(prj, cs, qs) =>
              Sound(UndoAddView(cmd, prj), cs, ps, cs, ps, cs, qs)
<1> DEFINE vs == prj.views
<1>1. /\ cmd.name \notin DOMAIN ps /\ Shelf(cmd.view)
      /\ qs = Wider(ps, cmd.name, Keys(cmd.view)) /\ Mapped(ps)
  <2>1. cmd.kind \in ViewKinds
    BY DEF ViewKinds
  <2>2. /\ cmd.kind = "AddView" =>
             cmd.name \notin DOMAIN ps /\ qs = Wider(ps, cmd.name, Keys(cmd.view))
        /\ cmd.kind \in {"AddView", "DelView"} =>
             {"name", "view", "pos"} \subseteq DOMAIN cmd /\ Shelf(cmd.view)
    BY <2>1, ViewNames
  <2> QED BY <2>2 DEF Ok
<1>2. ASSUME Known(prj, cs, ps)
      PROVE  Sound(RedoAddView(cmd, prj), cs, qs, cs, ps, cs, qs)
  <2> DEFINE e == IF cmd.pos = 0 THEN AddNew(vs, cmd.name, cmd.view)
                  ELSE MoveTo(AddNew(vs, cmd.name, cmd.view), cmd.name, cmd.pos)
  <2>1. /\ Has(prj, prj.conns, vs) /\ Dict(vs) /\ Filled("views", vs)
        /\ Catalog(vs) = ps /\ DOMAIN ps = Keys(vs)
    BY <1>2, ViewsAre
  <2>2. Makes(RedoAddView(cmd, prj), cmd, prj.conns, e)
    BY <2>1, ViewMakes
  <2> HIDE DEF vs
  <2>3. Taking(vs, cmd.name, cmd.view, e)
    <3>1. cmd.name \notin Keys(vs)
      BY <1>1, <2>1
    <3>2. /\ AddNew(vs, cmd.name, cmd.view) = Put(vs, cmd.name, cmd.view)
          /\ Taking(vs, cmd.name, cmd.view, Put(vs, cmd.name, cmd.view))
          /\ \A i : Taking(vs, cmd.name, cmd.view,
                           MoveTo(Put(vs, cmd.name, cmd.view), cmd.name, i))
      BY <2>1, <3>1, AddsTakes
    <3> QED BY <3>2
  <2> HIDE DEF e
  <2>4. ViewsTyped(e) /\ Catalog(e) = qs
    <3>1. cmd.name \notin Keys(vs)
      BY <1>1, <2>1
    <3>2. /\ ViewsTyped(e)
          /\ Catalog(e) = Wider(Catalog(vs), cmd.name, Keys(cmd.view))
      BY <1>1, <2>1, <2>3, <3>1, AddedCatalog
    <3> QED BY <1>1, <2>1, <3>2
  <2> QED BY <1>2, <2>2, <2>4, ViewSound
<1>3. ASSUME Known(prj, cs, qs)
      PROVE  Sound(UndoAddView(cmd, prj), cs, ps, cs, ps, cs, qs)
  <2> DEFINE e == Drop(vs, cmd.name)
             v == At(vs, cmd.name)
             next == [cmd EXCEPT !.view = v]
  <2>1. /\ Has(prj, prj.conns, vs) /\ Filled("views", vs)
        /\ Catalog(vs) = qs /\ DOMAIN qs = Keys(vs)
        /\ \A w \in DOMAIN qs : Shelf(At(vs, w)) /\ Keys(At(vs, w)) = qs[w]
    BY <1>3, ViewsAre
  <2>2. Makes(UndoAddView(cmd, prj), next, prj.conns, e)
    BY <2>1, ViewMakes
  <2>3. cmd.name \in DOMAIN qs /\ qs[cmd.name] = Keys(cmd.view)
    <3>1. Mapped(ps)
      BY <1>1
    <3>2. /\ DOMAIN Wider(ps, cmd.name, Keys(cmd.view)) = DOMAIN ps \cup {cmd.name}
          /\ Wider(ps, cmd.name, Keys(cmd.view))[cmd.name] = Keys(cmd.view)
      BY <3>1, WiderIs
    <3> QED BY <1>1, <3>2
  <2>4. Shelf(v) /\ Keys(v) = Keys(cmd.view)
    BY <2>1, <2>3
  <2>5. ViewsTyped(e) /\ Catalog(e) = ps
    <3>1. /\ ViewsTyped(e)
          /\ Catalog(e) = Narrower(Catalog(vs), cmd.name)
      BY <2>1, DroppedCatalog
    <3>3. ps = Narrower(qs, cmd.name)
      BY <1>1, WiderIs
    <3> QED BY <2>1, <3>1, <3>3
  <2>6. next = [cmd EXCEPT !.view = v]
    OBVIOUS
  <2> HIDE DEF vs, e, v, next
  <2>7. Ok(next, cs, ps, cs, qs)
    <3>1. cmd.kind \in {"AddView", "DelView"}
      OBVIOUS
    <3>2. Viewing(cmd, v, next)
      BY <2>6 DEF Viewing
    <3> QED BY <2>4, <3>1, <3>2, ViewKept
  <2> QED BY <1>3, <2>2, <2>5, <2>7, ViewSound
<1> QED BY <1>2, <1>3

LEMMA DelViewSound ==
  ASSUME NEW cmd, cmd.kind = "DelView",
         NEW cs, NEW ps, NEW qs, Ok(cmd, cs, ps, cs, qs), NEW prj
  PROVE  /\ Known(prj, cs, ps) =>
              Sound(RedoDelView(cmd, prj), cs, qs, cs, ps, cs, qs)
         /\ Known(prj, cs, qs) =>
              Sound(UndoDelView(cmd, prj), cs, ps, cs, ps, cs, qs)
<1> DEFINE vs == prj.views
<1>1. /\ cmd.name \in DOMAIN ps /\ ps[cmd.name] = Keys(cmd.view) /\ Shelf(cmd.view)
      /\ qs = Narrower(ps, cmd.name) /\ Mapped(ps)
  <2>1. cmd.kind \in ViewKinds
    BY DEF ViewKinds
  <2>2. /\ cmd.kind = "DelView" =>
             /\ cmd.name \in DOMAIN ps /\ ps[cmd.name] = Keys(cmd.view)
             /\ qs = Narrower(ps, cmd.name)
        /\ cmd.kind \in {"AddView", "DelView"} =>
             {"name", "view", "pos"} \subseteq DOMAIN cmd /\ Shelf(cmd.view)
    BY <2>1, ViewNames
  <2> QED BY <2>2 DEF Ok
<1>2. ASSUME Known(prj, cs, qs)
      PROVE  Sound(UndoDelView(cmd, prj), cs, ps, cs, ps, cs, qs)
  <2> DEFINE e == MoveTo(AddNew(vs, cmd.name, cmd.view), cmd.name, cmd.pos)
  <2>1. /\ Has(prj, prj.conns, vs) /\ Dict(vs) /\ Filled("views", vs)
        /\ Catalog(vs) = qs /\ DOMAIN qs = Keys(vs)
    BY <1>2, ViewsAre
  <2>2. Makes(UndoDelView(cmd, prj), cmd, prj.conns, e)
    BY <2>1, ViewMakes
  <2> HIDE DEF vs
  <2>3. cmd.name \notin Keys(vs) /\ Wider(qs, cmd.name, Keys(cmd.view)) = ps
    <3>1. Mapped(ps) /\ cmd.name \in DOMAIN ps /\ ps[cmd.name] = Keys(cmd.view)
      BY <1>1
    <3>2. /\ DOMAIN Narrower(ps, cmd.name) = DOMAIN ps \ {cmd.name}
          /\ Wider(Narrower(ps, cmd.name), cmd.name, ps[cmd.name]) = ps
      BY <3>1, NarrowerIs
    <3> QED BY <1>1, <2>1, <3>1, <3>2
  <2>4. Taking(vs, cmd.name, cmd.view, e)
    <3>1. /\ AddNew(vs, cmd.name, cmd.view) = Put(vs, cmd.name, cmd.view)
          /\ \A i : Taking(vs, cmd.name, cmd.view,
                           MoveTo(Put(vs, cmd.name, cmd.view), cmd.name, i))
      BY <2>1, <2>3, AddsTakes
    <3> QED BY <3>1
  <2> HIDE DEF e
  <2>5. ViewsTyped(e) /\ Catalog(e) = ps
    <3>1. ViewsTyped(e) /\ Catalog(e) = Wider(Catalog(vs), cmd.name, Keys(cmd.view))
      BY <1>1, <2>1, <2>3, <2>4, AddedCatalog
    <3> QED BY <2>1, <2>3, <3>1
  <2> QED BY <1>2, <2>2, <2>5, ViewSound
<1>3. ASSUME Known(prj, cs, ps)
      PROVE  Sound(RedoDelView(cmd, prj), cs, qs, cs, ps, cs, qs)
  <2> DEFINE e == Drop(vs, cmd.name)
             v == At(vs, cmd.name)
             next == [cmd EXCEPT !.view = v, !.bl = {}]
  <2>1. /\ Has(prj, prj.conns, vs) /\ Filled("views", vs)
        /\ Catalog(vs) = ps /\ DOMAIN ps = Keys(vs)
        /\ \A w \in DOMAIN ps : Shelf(At(vs, w)) /\ Keys(At(vs, w)) = ps[w]
    BY <1>3, ViewsAre
  <2>2. Makes(RedoDelView(cmd, prj), next, prj.conns, e)
    BY <2>1, ViewMakes
  <2>4. Shelf(v) /\ Keys(v) = Keys(cmd.view)
    BY <1>1, <2>1
  <2>5. ViewsTyped(e) /\ Catalog(e) = qs
    <3>1. ViewsTyped(e) /\ Catalog(e) = Narrower(Catalog(vs), cmd.name)
      BY <2>1, DroppedCatalog
    <3> QED BY <1>1, <2>1, <3>1
  <2>6. next = [cmd EXCEPT !.view = v, !.bl = {}]
    OBVIOUS
  <2> HIDE DEF vs, e, v, next
  <2>7. Ok(next, cs, ps, cs, qs)
    <3>1. cmd.kind \in {"AddView", "DelView"}
      OBVIOUS
    <3>2. Viewing(cmd, v, next)
      BY <2>6 DEF Viewing
    <3> QED BY <2>4, <3>1, <3>2, ViewKept
  <2> QED BY <1>3, <2>2, <2>5, <2>7, ViewSound
<1> QED BY <1>2, <1>3

LEMMA ViewRenamedSound ==
  ASSUME NEW cs, NEW ps, NEW prj, Known(prj, cs, ps),
         NEW o \in DOMAIN ps, NEW n, n \notin DOMAIN ps,
         NEW rs, rs = Renaming(ps, o, n),
         NEW cmd, NEW xs, NEW ys, Ok(cmd, cs, xs, cs, ys)
  PROVE  Sound(ViewRenamed(cmd, prj, o, n), cs, rs, cs, xs, cs, ys)
<1> DEFINE vs == prj.views
           e  == MoveTo(AddNew(Drop(vs, o), n, At(vs, o)), n, cmd.pos)
<1>1. /\ Has(prj, prj.conns, vs) /\ Filled("views", vs)
      /\ Catalog(vs) = ps /\ DOMAIN ps = Keys(vs)
  BY ViewsAre
<1>2. Makes(ViewRenamed(cmd, prj, o, n), cmd, prj.conns, e)
  BY <1>1, ViewMakes
<1>3. ViewsTyped(e) /\ Catalog(e) = rs
  <2> HIDE DEF vs
  <2>1. o \in Keys(vs) /\ n \notin Keys(vs)
    BY <1>1
  <2>2. ViewsTyped(e) /\ Catalog(e) = Renaming(Catalog(vs), o, n)
    BY <1>1, <2>1, RenamedCatalog
  <2> QED BY <1>1, <2>2
<1> HIDE DEF e
<1> QED BY <1>2, <1>3, ViewSound

LEMMA RenameViewSound ==
  ASSUME NEW cmd, cmd.kind = "RenameView",
         NEW cs, NEW ps, NEW qs, Ok(cmd, cs, ps, cs, qs), NEW prj
  PROVE  /\ Known(prj, cs, ps) =>
              Sound(ViewRenamed(cmd, prj, cmd.old, cmd.new), cs, qs, cs, ps, cs, qs)
         /\ Known(prj, cs, qs) =>
              Sound(ViewRenamed(cmd, prj, cmd.new, cmd.old), cs, ps, cs, ps, cs, qs)
<1>1. /\ cmd.old \in DOMAIN ps /\ cmd.new \notin DOMAIN ps
      /\ qs = Renaming(ps, cmd.old, cmd.new)
  <2>1. cmd.kind \in ViewKinds
    BY DEF ViewKinds
  <2>2. cmd.kind = "RenameView" =>
             /\ cmd.old \in DOMAIN ps /\ cmd.new \notin DOMAIN ps
             /\ qs = Renaming(ps, cmd.old, cmd.new)
    BY <2>1, ViewNames
  <2> QED BY <2>2
<1>2. cmd.new \in DOMAIN qs /\ cmd.old \notin DOMAIN qs
      /\ ps = Renaming(qs, cmd.new, cmd.old)
  <2>1. Mapped(ps)
    BY DEF Ok
  <2>2. /\ DOMAIN Renaming(ps, cmd.old, cmd.new) = (DOMAIN ps \ {cmd.old}) \cup {cmd.new}
        /\ Renaming(Renaming(ps, cmd.old, cmd.new), cmd.new, cmd.old) = ps
    BY <1>1, <2>1, RenamingIs
  <2> QED BY <1>1, <2>2
<1>3. ASSUME Known(prj, cs, ps)
      PROVE  Sound(ViewRenamed(cmd, prj, cmd.old, cmd.new), cs, qs, cs, ps, cs, qs)
  BY <1>1, <1>3, ViewRenamedSound
<1>4. ASSUME Known(prj, cs, qs)
      PROVE  Sound(ViewRenamed(cmd, prj, cmd.new, cmd.old), cs, ps, cs, ps, cs, qs)
  BY <1>2, <1>4, ViewRenamedSound
<1> QED BY <1>3, <1>4

LEMMA ReorderViewSound ==
  ASSUME NEW cmd, NEW cs, NEW ps, Ok(cmd, cs, ps, cs, ps), NEW prj, Known(prj, cs, ps)
  PROVE  \A i, j : Sound(ViewMoved(cmd, prj, i, j), cs, ps, cs, ps, cs, ps)
<1> TAKE i, j
<1> DEFINE vs == prj.views
           e  == MoveTo(vs, vs[i].key, j)
<1>1. Has(prj, prj.conns, vs) /\ Filled("views", vs) /\ Catalog(vs) = ps
  BY ViewsAre
<1>2. Makes(ViewMoved(cmd, prj, i, j), cmd, prj.conns, e)
  BY <1>1, ViewMakes
<1>3. ViewsTyped(e) /\ Catalog(e) = ps
  <2> HIDE DEF vs
  <2> QED BY <1>1, MovedCatalog
<1> HIDE DEF e
<1> QED BY <1>2, <1>3, ViewSound

-----------------------------------------------------------------------------
\* Panels.

Shelved(ps, w, S) == [ps EXCEPT ![w] = S]

LEMMA ShelvedIs ==
  ASSUME NEW ps, Mapped(ps), NEW w \in DOMAIN ps, NEW S
  PROVE  /\ DOMAIN Shelved(ps, w, S) = DOMAIN ps /\ Shelved(ps, w, S)[w] = S
         /\ Shelved(Shelved(ps, w, S), w, ps[w]) = ps
         /\ Shelved(ps, w, ps[w]) = ps
<1>1. ps = [x \in DOMAIN ps |-> ps[x]]
  BY DEF Mapped
<1>2. DOMAIN Shelved(ps, w, S) = DOMAIN ps /\ Shelved(ps, w, S)[w] = S
  BY DEF Shelved
<1>3. Shelved(Shelved(ps, w, S), w, ps[w]) = [x \in DOMAIN ps |-> ps[x]]
  BY DEF Shelved
<1>4. Shelved(ps, w, ps[w]) = [x \in DOMAIN ps |-> ps[x]]
  BY DEF Shelved
<1> QED BY <1>1, <1>2, <1>3, <1>4

\* What the names of a command on panels say.
Shelves(cmd, ps, qs) ==
  /\ cmd.view \in DOMAIN ps
  /\ cmd.kind = "AddPanel" =>
       /\ cmd.name \notin ps[cmd.view]
       /\ qs = Shelved(ps, cmd.view, ps[cmd.view] \cup {cmd.name})
  /\ cmd.kind = "DelPanel" =>
       /\ cmd.name \in ps[cmd.view]
       /\ qs = Shelved(ps, cmd.view, ps[cmd.view] \ {cmd.name})
  /\ cmd.kind = "RenamePanel" =>
       /\ cmd.old \in ps[cmd.view] /\ cmd.new \notin ps[cmd.view]
       /\ qs = Shelved(ps, cmd.view, (ps[cmd.view] \ {cmd.old}) \cup {cmd.new})
  /\ cmd.kind = "PanelOrder" => qs = ps
  /\ cmd.kind \in {"AddPanel", "DelPanel"} =>
       {"view", "name", "panel", "pos"} \subseteq DOMAIN cmd /\ Dict(cmd.panel)
  /\ cmd.kind = "AddPanel" => "src" \in DOMAIN cmd

LEMMA PanelNames ==
  ASSUME NEW cmd, cmd.kind \in PanelKinds,
         NEW cs, NEW ps, NEW ds, NEW qs, Ok(cmd, cs, ps, ds, qs)
  PROVE  /\ ds = cs /\ "kind" \in DOMAIN cmd /\ Fits(cmd) /\ NamesPanels(cmd, ps, qs)
         /\ Shelves(cmd, ps, qs)
<1>1. ds = cs
  BY DEF Ok, NamesConns, ConnectionKinds, PanelKinds
<1>2. Fits(cmd) /\ NamesPanels(cmd, ps, qs)
  BY DEF Ok
<1>3. cmd.kind = "PanelOrder" => qs = ps
  BY <1>2 DEF NamesPanels
<1>4. /\ "kind" \in DOMAIN cmd
      /\ cmd.kind \in {"AddPanel", "DelPanel"} =>
           {"view", "name", "panel", "pos"} \subseteq DOMAIN cmd /\ Dict(cmd.panel)
      /\ cmd.kind = "AddPanel" => "src" \in DOMAIN cmd
  BY <1>2 DEF Fits
<1>5. cmd.kind = "AddPanel" =>
        /\ cmd.name \notin ps[cmd.view] /\ cmd.view \in DOMAIN ps
        /\ qs = Shelved(ps, cmd.view, ps[cmd.view] \cup {cmd.name})
  BY <1>2, Zenon DEF NamesPanels, Shelved
<1>6. cmd.kind = "DelPanel" =>
        /\ cmd.name \in ps[cmd.view] /\ cmd.view \in DOMAIN ps
        /\ qs = Shelved(ps, cmd.view, ps[cmd.view] \ {cmd.name})
  BY <1>2, Zenon DEF NamesPanels, Shelved
<1>7. cmd.kind = "RenamePanel" =>
        /\ cmd.old \in ps[cmd.view] /\ cmd.new \notin ps[cmd.view]
        /\ cmd.view \in DOMAIN ps
        /\ qs = Shelved(ps, cmd.view, (ps[cmd.view] \ {cmd.old}) \cup {cmd.new})
  BY <1>2, Zenon DEF NamesPanels, Shelved
<1>8. cmd.kind = "PanelOrder" => cmd.view \in DOMAIN ps
  BY <1>2, Zenon DEF NamesPanels
<1>9. cmd.view \in DOMAIN ps
  BY <1>5, <1>6, <1>7, <1>8 DEF PanelKinds
<1> QED BY <1>1, <1>2, <1>3, <1>4, <1>5, <1>6, <1>7, <1>9 DEF Shelves

\* The command keeps the panel it takes away, or puts back.
Showing(cmd, v, next) ==
  next = [cmd EXCEPT !.panel = v] \/ next = [cmd EXCEPT !.panel = v, !.bl = {}]

LEMMA PanelKept ==
  ASSUME NEW cmd, cmd.kind \in {"AddPanel", "DelPanel"},
         NEW cs, NEW ps, NEW ds, NEW qs, Ok(cmd, cs, ps, ds, qs),
         NEW panel, Dict(panel), NEW next, Showing(cmd, panel, next)
  PROVE  Ok(next, cs, ps, ds, qs)
<1>1. cmd.kind \in PanelKinds
  BY DEF PanelKinds
<1>2. /\ ds = cs /\ "kind" \in DOMAIN cmd /\ Fits(cmd) /\ NamesPanels(cmd, ps, qs)
      /\ {"view", "name", "panel", "pos"} \subseteq DOMAIN cmd
      /\ cmd.kind = "AddPanel" => "src" \in DOMAIN cmd
  <2>1. /\ cmd.kind \in {"AddPanel", "DelPanel"} =>
             {"view", "name", "panel", "pos"} \subseteq DOMAIN cmd /\ Dict(cmd.panel)
        /\ cmd.kind = "AddPanel" => "src" \in DOMAIN cmd
    BY <1>1, PanelNames DEF Shelves
  <2>2. ds = cs /\ "kind" \in DOMAIN cmd /\ Fits(cmd) /\ NamesPanels(cmd, ps, qs)
    BY <1>1, PanelNames
  <2> QED BY <2>1, <2>2
<1>3. /\ DOMAIN next = DOMAIN cmd /\ next.kind = cmd.kind /\ next.name = cmd.name
      /\ next.view = cmd.view /\ next.panel = panel
  <2>1. /\ "kind" \in DOMAIN cmd /\ "name" \in DOMAIN cmd /\ "view" \in DOMAIN cmd
        /\ "panel" \in DOMAIN cmd
    BY <1>2
  <2>2. CASE next = [cmd EXCEPT !.panel = panel]
    BY <2>1, <2>2
  <2>3. CASE next = [cmd EXCEPT !.panel = panel, !.bl = {}]
    BY <2>1, <2>3
  <2> QED BY <2>2, <2>3 DEF Showing
<1>4. Fits(next)
  <2>1. cmd.kind \in Kinds
    BY <1>2 DEF Fits
  <2> QED BY <1>2, <1>3, <2>1 DEF Fits, ConnectionKinds
<1>5. NamesPanels(next, ps, qs)
  BY <1>2, <1>3 DEF NamesPanels, TemplateKinds
<1>6. NamesConns(next, cs, ds)
  BY <1>2, <1>3 DEF NamesConns, VariableKinds
<1> QED BY <1>4, <1>5, <1>6 DEF Ok

LEMMA PanelSound ==
  ASSUME NEW prj, NEW cs, NEW xs, Known(prj, cs, xs), NEW w \in DOMAIN xs,
         NEW d, Filled("panels", d), NEW ys, ys = Shelved(xs, w, Keys(d)),
         NEW r, NEW c, Makes(r, c, prj.conns, With(prj.views, w, d)),
         NEW ps, NEW qs, Ok(c, cs, ps, cs, qs)
  PROVE  Sound(r, cs, ys, cs, ps, cs, qs)
<1> DEFINE vs == prj.views
           es == With(vs, w, d)
<1>1. ViewsTyped(vs) /\ Catalog(vs) = xs /\ DOMAIN xs = Keys(vs)
  BY ViewsAre
<1> HIDE DEF vs
<1>2. Shelf(d) /\ w \in Keys(vs)
  BY <1>1, FilledIs
<1>3. ViewsTyped(es) /\ Catalog(es) = [Catalog(vs) EXCEPT ![w] = Keys(d)]
  BY <1>1, <1>2, PanelsPutIs
<1>4. Catalog(es) = ys
  BY <1>1, <1>3 DEF Shelved
<1>5. Makes(r, c, prj.conns, es)
  BY DEF vs
<1> HIDE DEF es
<1> QED BY <1>3, <1>4, <1>5, ViewSound

\* A view's dictionary of the panels S.
Stocked(d, S) ==
  /\ Dict(d) /\ Filled("panels", d) /\ Keys(d) = S
  /\ \A p \in S : Dict(At(d, p)) /\ Well("panels", At(d, p))
  /\ \A p : Filled("panels", Drop(d, p)) /\ Keys(Drop(d, p)) = S \ {p}

LEMMA PanelsAre ==
  ASSUME NEW prj, NEW cs, NEW ps, Known(prj, cs, ps), NEW w \in DOMAIN ps
  PROVE  Has(prj, prj.conns, prj.views) /\ Stocked(At(prj.views, w), ps[w])
<1> DEFINE d == At(prj.views, w)
<1>1. Has(prj, prj.conns, prj.views) /\ Shelf(d) /\ Keys(d) = ps[w]
  BY ViewsAre
<1> HIDE DEF d
<1>2. Dict(d) /\ \A p \in ps[w] : Dict(At(d, p))
  BY <1>1 DEF Shelf
<1>3. Filled("panels", d) /\ \A p \in ps[w] : Well("panels", At(d, p))
  BY <1>1, <1>2, FilledIs, WellIs
<1>4. \A p : Filled("panels", Drop(d, p))
  BY <1>3, DroppedFills
<1>5. \A p : Keys(Drop(d, p)) = ps[w] \ {p}
  BY <1>1, <1>2, DropDict
<1> QED BY <1>1, <1>2, <1>3, <1>4, <1>5 DEF d, Stocked

LEMMA AddPanelSound ==
  ASSUME NEW cmd, cmd.kind = "AddPanel",
         NEW cs, NEW ps, NEW qs, Ok(cmd, cs, ps, cs, qs), NEW prj
  PROVE  /\ Known(prj, cs, ps) =>
              Sound(RedoAddPanel(cmd, prj), cs, qs, cs, ps, cs, qs)
         /\ Known(prj, cs, qs) =>
              Sound(UndoAddPanel(cmd, prj), cs, ps, cs, ps, cs, qs)
<1> DEFINE w == cmd.view
           d == At(prj.views, w)
<1>1. /\ w \in DOMAIN ps /\ cmd.name \notin ps[w] /\ Dict(cmd.panel)
      /\ qs = Shelved(ps, w, ps[w] \cup {cmd.name}) /\ Mapped(ps)
  <2>1. cmd.kind \in PanelKinds
    BY DEF PanelKinds
  <2>2. Shelves(cmd, ps, qs)
    BY <2>1, PanelNames
  <2> QED BY <2>2 DEF Ok, Shelves
<1>2. ASSUME Known(prj, cs, ps)
      PROVE  Sound(RedoAddPanel(cmd, prj), cs, qs, cs, ps, cs, qs)
  <2> DEFINE v == Relinked(cmd.panel, cmd.src, cmd.name)
             e == IF cmd.src = None THEN AddNew(d, cmd.name, cmd.panel)
                  ELSE MoveTo(AddNew(d, cmd.name, v), cmd.name, cmd.pos)
  <2>1. Has(prj, prj.conns, prj.views) /\ Filled("panels", d) /\ Keys(d) = ps[w]
    BY <1>1, <1>2, PanelsAre DEF Stocked
  <2>2. Makes(RedoAddPanel(cmd, prj), cmd, prj.conns, With(prj.views, w, e))
    <3>1. Has(prj, prj.conns, prj.views) /\ d = At(prj.views, cmd.view)
      BY <2>1
    <3> HIDE DEF d
    <3> QED BY <3>1, PanelMakes
  <2>3. Well("panels", cmd.panel) /\ Well("panels", v) /\ cmd.name \notin Keys(d)
    BY <1>1, <2>1, RelinkedIs, WellIs
  <2> HIDE DEF w, d, v
  <2>4. Filled("panels", e) /\ Keys(e) = Keys(d) \cup {cmd.name}
    <3>1. /\ Filled("panels", AddNew(d, cmd.name, cmd.panel))
          /\ Keys(AddNew(d, cmd.name, cmd.panel)) = Keys(d) \cup {cmd.name}
      BY <2>1, <2>3, AddedKeys
    <3>2. /\ Filled("panels", MoveTo(AddNew(d, cmd.name, v), cmd.name, cmd.pos))
          /\ Keys(MoveTo(AddNew(d, cmd.name, v), cmd.name, cmd.pos))
               = Keys(d) \cup {cmd.name}
      BY <2>1, <2>3, AddedKeys
    <3> QED BY <3>1, <3>2
  <2> HIDE DEF e
  <2>5. qs = Shelved(ps, w, Keys(e))
    BY <1>1, <2>1, <2>4
  <2> QED BY <1>1, <1>2, <2>2, <2>4, <2>5, PanelSound
<1>3. ASSUME Known(prj, cs, qs)
      PROVE  Sound(UndoAddPanel(cmd, prj), cs, ps, cs, ps, cs, qs)
  <2> DEFINE e == Drop(d, cmd.name)
             v == At(d, cmd.name)
             next == [cmd EXCEPT !.panel = v]
  <2>1. /\ DOMAIN qs = DOMAIN ps /\ w \in DOMAIN qs /\ qs[w] = ps[w] \cup {cmd.name}
        /\ ps = Shelved(qs, w, ps[w])
    <3> DEFINE S == ps[w] \cup {cmd.name}
    <3> HIDE DEF S
    <3>1. Mapped(ps) /\ w \in DOMAIN ps
      BY <1>1
    <3>2. /\ DOMAIN Shelved(ps, w, S) = DOMAIN ps /\ Shelved(ps, w, S)[w] = S
          /\ Shelved(Shelved(ps, w, S), w, ps[w]) = ps
      BY <3>1, ShelvedIs
    <3> QED BY <1>1, <3>2 DEF S
  <2>2. /\ Has(prj, prj.conns, prj.views) /\ Dict(v) /\ Filled("panels", e)
        /\ Keys(e) = qs[w] \ {cmd.name}
    <3>1. w \in DOMAIN qs /\ cmd.name \in qs[w]
      BY <2>1
    <3> HIDE DEF w
    <3>2. Has(prj, prj.conns, prj.views) /\ Stocked(d, qs[w])
      BY <1>3, <3>1, PanelsAre
    <3> QED BY <3>1, <3>2 DEF Stocked
  <2>3. Makes(UndoAddPanel(cmd, prj), next, prj.conns, With(prj.views, w, e))
    <3>1. Has(prj, prj.conns, prj.views) /\ d = At(prj.views, cmd.view)
      BY <2>2
    <3> HIDE DEF d
    <3> QED BY <3>1, PanelMakes
  <2>4. Showing(cmd, v, next)
    BY DEF Showing
  <2> HIDE DEF w, d, v, e, next
  <2>5. Ok(next, cs, ps, cs, qs)
    <3>1. cmd.kind \in {"AddPanel", "DelPanel"}
      OBVIOUS
    <3> QED BY <2>2, <2>4, <3>1, PanelKept
  <2>6. ps = Shelved(qs, w, Keys(e))
    <3>1. Keys(e) = ps[w]
      BY <1>1, <2>1, <2>2
    <3> QED BY <2>1, <3>1
  <2> QED BY <1>3, <2>1, <2>2, <2>3, <2>5, <2>6, PanelSound
<1> QED BY <1>2, <1>3

-----------------------------------------------------------------------------
LEMMA DelPanelSound ==
  ASSUME NEW cmd, cmd.kind = "DelPanel",
         NEW cs, NEW ps, NEW qs, Ok(cmd, cs, ps, cs, qs), NEW prj
  PROVE  /\ Known(prj, cs, ps) =>
              Sound(RedoDelPanel(cmd, prj), cs, qs, cs, ps, cs, qs)
         /\ Known(prj, cs, qs) =>
              Sound(UndoDelPanel(cmd, prj), cs, ps, cs, ps, cs, qs)
<1> DEFINE w == cmd.view
           d == At(prj.views, w)
<1>1. /\ w \in DOMAIN ps /\ cmd.name \in ps[w] /\ Dict(cmd.panel)
      /\ qs = Shelved(ps, w, ps[w] \ {cmd.name}) /\ Mapped(ps)
  <2>1. cmd.kind \in PanelKinds
    BY DEF PanelKinds
  <2>2. Shelves(cmd, ps, qs)
    BY <2>1, PanelNames
  <2> QED BY <2>2 DEF Ok, Shelves
<1>2. ASSUME Known(prj, cs, ps)
      PROVE  Sound(RedoDelPanel(cmd, prj), cs, qs, cs, ps, cs, qs)
  <2> DEFINE e == Drop(d, cmd.name)
             v == At(d, cmd.name)
             next == [cmd EXCEPT !.panel = v, !.bl = {}]
  <2>2. /\ Has(prj, prj.conns, prj.views) /\ Dict(v) /\ Filled("panels", e)
        /\ Keys(e) = ps[w] \ {cmd.name}
    <3>1. w \in DOMAIN ps /\ cmd.name \in ps[w]
      BY <1>1
    <3> HIDE DEF w
    <3>2. Has(prj, prj.conns, prj.views) /\ Stocked(d, ps[w])
      BY <1>2, <3>1, PanelsAre
    <3> QED BY <3>1, <3>2 DEF Stocked
  <2>3. Makes(RedoDelPanel(cmd, prj), next, prj.conns, With(prj.views, w, e))
    <3>1. Has(prj, prj.conns, prj.views) /\ d = At(prj.views, cmd.view)
      BY <2>2
    <3> HIDE DEF d
    <3> QED BY <3>1, PanelMakes
  <2>4. Showing(cmd, v, next)
    BY DEF Showing
  <2> HIDE DEF w, d, v, e, next
  <2>5. Ok(next, cs, ps, cs, qs)
    <3>1. cmd.kind \in {"AddPanel", "DelPanel"}
      OBVIOUS
    <3> QED BY <2>2, <2>4, <3>1, PanelKept
  <2>6. qs = Shelved(ps, w, Keys(e))
    BY <1>1, <2>2
  <2> QED BY <1>1, <1>2, <2>2, <2>3, <2>5, <2>6, PanelSound
<1>3. ASSUME Known(prj, cs, qs)
      PROVE  Sound(UndoDelPanel(cmd, prj), cs, ps, cs, ps, cs, qs)
  <2> DEFINE e == MoveTo(AddNew(d, cmd.name, cmd.panel), cmd.name, cmd.pos)
  <2>1. /\ DOMAIN qs = DOMAIN ps /\ w \in DOMAIN qs /\ qs[w] = ps[w] \ {cmd.name}
        /\ ps = Shelved(qs, w, ps[w])
    <3> DEFINE S == ps[w] \ {cmd.name}
    <3> HIDE DEF S
    <3>1. Mapped(ps) /\ w \in DOMAIN ps
      BY <1>1
    <3>2. /\ DOMAIN Shelved(ps, w, S) = DOMAIN ps /\ Shelved(ps, w, S)[w] = S
          /\ Shelved(Shelved(ps, w, S), w, ps[w]) = ps
      BY <3>1, ShelvedIs
    <3> QED BY <1>1, <3>2 DEF S
  <2>2. Has(prj, prj.conns, prj.views) /\ Filled("panels", d) /\ Keys(d) = qs[w]
    BY <1>3, <2>1, PanelsAre DEF Stocked
  <2>3. Makes(UndoDelPanel(cmd, prj), cmd, prj.conns, With(prj.views, w, e))
    <3>1. Has(prj, prj.conns, prj.views) /\ d = At(prj.views, cmd.view)
      BY <2>2
    <3> HIDE DEF d
    <3> QED BY <3>1, PanelMakes
  <2> HIDE DEF w, d
  <2>4. Well("panels", cmd.panel) /\ cmd.name \notin Keys(d)
    BY <1>1, <2>1, <2>2, WellIs
  <2>5. Filled("panels", e) /\ Keys(e) = Keys(d) \cup {cmd.name}
    BY <2>2, <2>4, AddedKeys
  <2> HIDE DEF e
  <2>6. ps = Shelved(qs, w, Keys(e))
    <3>1. Keys(e) = ps[w]
      BY <1>1, <2>1, <2>2, <2>5
    <3> QED BY <2>1, <3>1
  <2> QED BY <1>3, <2>1, <2>3, <2>5, <2>6, PanelSound
<1> QED BY <1>2, <1>3

LEMMA PanelRenamedSound ==
  ASSUME NEW cmd, NEW cs, NEW ps, NEW prj, Known(prj, cs, ps),
         cmd.view \in DOMAIN ps, NEW o \in ps[cmd.view], NEW n, n \notin ps[cmd.view],
         NEW rs, rs = Shelved(ps, cmd.view, (ps[cmd.view] \ {o}) \cup {n}),
         NEW xs, NEW ys, Ok(cmd, cs, xs, cs, ys)
  PROVE  Sound(PanelRenamed(cmd, prj, o, n), cs, rs, cs, xs, cs, ys)
<1> DEFINE w == cmd.view
           d == At(prj.views, w)
           a == Drop(d, o)
           b == MoveTo(AddNew(a, n, At(d, o)), n, cmd.pos)
           e == AllRelinked(b, o, n)
<1>1. /\ Has(prj, prj.conns, prj.views) /\ Well("panels", At(d, o)) /\ Filled("panels", a)
      /\ Keys(a) = ps[w] \ {o}
  <2>1. w \in DOMAIN ps /\ o \in ps[w]
    OBVIOUS
  <2> HIDE DEF w
  <2>2. Has(prj, prj.conns, prj.views) /\ Stocked(d, ps[w])
    BY <2>1, PanelsAre
  <2> QED BY <2>1, <2>2 DEF Stocked
<1>2. Makes(PanelRenamed(cmd, prj, o, n), cmd, prj.conns, With(prj.views, w, e))
  <2>1. Has(prj, prj.conns, prj.views) /\ d = At(prj.views, cmd.view)
    BY <1>1
  <2> HIDE DEF d
  <2> QED BY <2>1, PanelMakes
<1>3. rs = Shelved(ps, w, (ps[w] \ {o}) \cup {n}) /\ n \notin ps[w] /\ w \in DOMAIN ps
  OBVIOUS
<1> HIDE DEF w, d, a
<1>4. Filled("panels", b) /\ Keys(b) = Keys(a) \cup {n}
  <2>1. n \notin Keys(a)
    BY <1>1, <1>3
  <2> QED BY <1>1, <2>1, AddedKeys
<1> HIDE DEF b
<1>5. Filled("panels", e) /\ Keys(e) = Keys(b)
  <2>1. Shelf(b)
    BY <1>4, FilledIs
  <2>2. Shelf(e) /\ Keys(e) = Keys(b)
    BY <2>1, AllRelinkedIs
  <2> QED BY <2>2, FilledIs
<1> HIDE DEF e
<1>6. rs = Shelved(ps, w, Keys(e))
  BY <1>1, <1>3, <1>4, <1>5
<1> QED BY <1>2, <1>3, <1>5, <1>6, PanelSound

LEMMA RenamePanelSound ==
  ASSUME NEW cmd, cmd.kind = "RenamePanel",
         NEW cs, NEW ps, NEW qs, Ok(cmd, cs, ps, cs, qs), NEW prj
  PROVE  /\ Known(prj, cs, ps) =>
              Sound(PanelRenamed(cmd, prj, cmd.old, cmd.new), cs, qs, cs, ps, cs, qs)
         /\ Known(prj, cs, qs) =>
              Sound(PanelRenamed(cmd, prj, cmd.new, cmd.old), cs, ps, cs, ps, cs, qs)
<1> DEFINE w == cmd.view
           o == cmd.old
           n == cmd.new
           S == (ps[w] \ {o}) \cup {n}
<1>1. /\ w \in DOMAIN ps /\ o \in ps[w] /\ n \notin ps[w]
      /\ qs = Shelved(ps, w, S) /\ Mapped(ps)
  <2>1. cmd.kind \in PanelKinds
    BY DEF PanelKinds
  <2>2. Shelves(cmd, ps, qs)
    BY <2>1, PanelNames
  <2> QED BY <2>2 DEF Ok, Shelves
<1>2. w \in DOMAIN qs /\ n \in qs[w] /\ o \notin qs[w]
      /\ ps = Shelved(qs, w, (qs[w] \ {n}) \cup {o})
  <2>1. /\ DOMAIN Shelved(ps, w, S) = DOMAIN ps /\ Shelved(ps, w, S)[w] = S
        /\ Shelved(Shelved(ps, w, S), w, ps[w]) = ps
    <3> HIDE DEF w, S
    <3> QED BY <1>1, ShelvedIs
  <2>2. n \in S /\ o \notin S /\ ps[w] = (S \ {n}) \cup {o}
    BY <1>1
  <2> HIDE DEF S, w, o, n
  <2> QED BY <1>1, <2>1, <2>2
<1>3. ASSUME Known(prj, cs, ps)
      PROVE  Sound(PanelRenamed(cmd, prj, o, n), cs, qs, cs, ps, cs, qs)
  <2> HIDE DEF o, n
  <2> QED BY <1>1, <1>3, PanelRenamedSound
<1>4. ASSUME Known(prj, cs, qs)
      PROVE  Sound(PanelRenamed(cmd, prj, n, o), cs, ps, cs, ps, cs, qs)
  <2> HIDE DEF o, n
  <2> QED BY <1>2, <1>4, PanelRenamedSound
<1> QED BY <1>3, <1>4

LEMMA PanelOrderSound ==
  ASSUME NEW cmd, cmd.kind = "PanelOrder",
         NEW cs, NEW ps, NEW qs, Ok(cmd, cs, ps, cs, qs), NEW prj, Known(prj, cs, ps)
  PROVE  qs = ps /\ \A p : Sound(PanelMoved(cmd, prj, p), cs, ps, cs, ps, cs, qs)
<1> DEFINE w == cmd.view
           d == At(prj.views, w)
<1>1. qs = ps /\ w \in DOMAIN ps /\ Mapped(ps)
  <2>1. cmd.kind \in PanelKinds
    BY DEF PanelKinds
  <2>2. Shelves(cmd, ps, qs)
    BY <2>1, PanelNames
  <2> QED BY <2>2 DEF Ok, Shelves
<1>2. Has(prj, prj.conns, prj.views) /\ Dict(d) /\ Filled("panels", d) /\ Keys(d) = ps[w]
  BY <1>1, PanelsAre DEF Stocked
<1>3. ASSUME NEW p
      PROVE  Sound(PanelMoved(cmd, prj, p), cs, ps, cs, ps, cs, qs)
  <2> DEFINE e == MoveTo(d, p, cmd.pos)
  <2>1. Makes(PanelMoved(cmd, prj, p), cmd, prj.conns, With(prj.views, w, e))
    <3>1. Has(prj, prj.conns, prj.views) /\ d = At(prj.views, cmd.view)
      BY <1>2
    <3> HIDE DEF d
    <3> QED BY <3>1, PanelMakes
  <2> HIDE DEF w, d
  <2>2. Filled("panels", e) /\ Keys(e) = Keys(d)
    BY <1>2, MovedFills, MoveIs
  <2> HIDE DEF e
  <2>3. ps = Shelved(ps, w, Keys(e))
    <3>1. Shelved(ps, w, ps[w]) = ps
      BY <1>1, ShelvedIs
    <3> QED BY <1>2, <2>2, <3>1
  <2> QED BY <1>1, <2>1, <2>2, <2>3, PanelSound
<1> QED BY <1>1, <1>3

-----------------------------------------------------------------------------
\* Templates.
LEMMA TemplateNames ==
  ASSUME NEW cmd, cmd.kind \in TemplateKinds,
         NEW cs, NEW ps, NEW ds, NEW qs, Ok(cmd, cs, ps, ds, qs)
  PROVE  /\ ds = cs /\ qs = ps /\ Fits(cmd)
         /\ cmd.view \in DOMAIN ps /\ cmd.panel \in ps[cmd.view]
<1>1. ds = cs
  BY DEF Ok, NamesConns, ConnectionKinds, TemplateKinds
<1>2. Fits(cmd) /\ NamesPanels(cmd, ps, qs)
  BY DEF Ok
<1>3. qs = ps
  BY <1>2 DEF NamesPanels, TemplateKinds
<1>4. cmd.view \in DOMAIN ps /\ cmd.panel \in ps[cmd.view]
  BY <1>2 DEF NamesPanels
<1> QED BY <1>1, <1>2, <1>3, <1>4

\* Of a selection the command keeps the templates, and where they were.
Selecting(cmd, ts, next) ==
  \/ next = [cmd EXCEPT !.ts = ts]
  \/ \E pos, bl : next = [cmd EXCEPT !.ts = ts, !.pos = pos, !.bl = bl]
  \/ ts = cmd.ts /\ next = [cmd EXCEPT !.bl = {}]

LEMMA SelectionKept ==
  ASSUME NEW cmd, cmd.kind \in {"AddSelection", "DelSelection"},
         NEW cs, NEW ps, NEW ds, NEW qs, Ok(cmd, cs, ps, ds, qs),
         NEW ts, Dict(ts), NEW next, Selecting(cmd, ts, next)
  PROVE  Ok(next, cs, ps, ds, qs)
<1>1. cmd.kind \in TemplateKinds
  BY DEF TemplateKinds
<1>2. /\ ds = cs /\ qs = ps /\ Fits(cmd)
      /\ cmd.view \in DOMAIN ps /\ cmd.panel \in ps[cmd.view]
  BY <1>1, TemplateNames
<1>3. /\ "kind" \in DOMAIN cmd /\ "view" \in DOMAIN cmd /\ "panel" \in DOMAIN cmd
      /\ "ts" \in DOMAIN cmd /\ cmd.kind \in Kinds
      /\ cmd.kind = "DelSelection" => "pos" \in DOMAIN cmd
  BY <1>2 DEF Fits
<1>4. /\ DOMAIN next = DOMAIN cmd /\ next.kind = cmd.kind
      /\ next.view = cmd.view /\ next.panel = cmd.panel /\ next.ts = ts
  <2>2. CASE next = [cmd EXCEPT !.ts = ts]
    BY <1>3, <2>2
  <2>3. ASSUME NEW pos, NEW bl, next = [cmd EXCEPT !.ts = ts, !.pos = pos, !.bl = bl]
        PROVE  /\ DOMAIN next = DOMAIN cmd /\ next.kind = cmd.kind
               /\ next.view = cmd.view /\ next.panel = cmd.panel /\ next.ts = ts
    BY <1>3, <2>3
  <2>4. CASE ts = cmd.ts /\ next = [cmd EXCEPT !.bl = {}]
    BY <1>3, <2>4
  <2> QED BY <2>2, <2>3, <2>4 DEF Selecting
<1>5. Fits(next)
  BY <1>2, <1>3, <1>4 DEF Fits, ConnectionKinds
<1>6. NamesPanels(next, ps, qs)
  BY <1>2, <1>4 DEF NamesPanels, TemplateKinds
<1>7. NamesConns(next, cs, ds)
  BY <1>2, <1>4 DEF NamesConns, VariableKinds
<1> QED BY <1>5, <1>6, <1>7 DEF Ok

LEMMA TemplateSound ==
  ASSUME NEW prj, NEW cs, NEW ps, Known(prj, cs, ps), NEW w \in DOMAIN ps,
         NEW p \in ps[w], NEW d, Dict(d),
         NEW r, NEW c, Makes(r, c, prj.conns, TemplatesPut(prj.views, w, p, d)),
         Ok(c, cs, ps, cs, ps)
  PROVE  Sound(r, cs, ps, cs, ps, cs, ps)
<1> DEFINE vs == prj.views
           es == TemplatesPut(vs, w, p, d)
<1>1. /\ ViewsTyped(vs) /\ Catalog(vs) = ps /\ DOMAIN ps = Keys(vs)
      /\ Keys(At(vs, w)) = ps[w]
  BY ViewsAre
<1> HIDE DEF vs
<1>2. w \in Keys(vs) /\ p \in Keys(At(vs, w))
  BY <1>1
<1>3. ViewsTyped(es) /\ Catalog(es) = ps
  BY <1>1, <1>2, TemplatesPutIs
<1>4. Makes(r, c, prj.conns, es)
  BY DEF vs
<1> HIDE DEF es
<1> QED BY <1>3, <1>4, ViewSound

LEMMA TemplatesAre ==
  ASSUME NEW prj, NEW cs, NEW ps, Known(prj, cs, ps), NEW w \in DOMAIN ps, NEW p \in ps[w]
  PROVE  Has(prj, prj.conns, prj.views) /\ Dict(At(At(prj.views, w), p))
BY PanelsAre DEF Stocked

LEMMA SelectionsSound ==
  ASSUME NEW cmd, cmd.kind \in {"AddSelection", "DelSelection"},
         NEW cs, NEW ps, Ok(cmd, cs, ps, cs, ps), NEW prj, Known(prj, cs, ps)
  PROVE  /\ Sound(RedoAddSelection(cmd, prj), cs, ps, cs, ps, cs, ps)
         /\ Sound(UndoAddSelection(cmd, prj), cs, ps, cs, ps, cs, ps)
         /\ Sound(RedoDelSelection(cmd, prj), cs, ps, cs, ps, cs, ps)
         /\ Sound(UndoDelSelection(cmd, prj), cs, ps, cs, ps, cs, ps)
<1> DEFINE w == cmd.view
           p == cmd.panel
           d == At(At(prj.views, w), p)
           ts == cmd.ts
           us == Taken(ts, d)
<1>1. w \in DOMAIN ps /\ p \in ps[w] /\ Dict(ts)
  <2>1. cmd.kind \in TemplateKinds
    BY DEF TemplateKinds
  <2>2. w \in DOMAIN ps /\ p \in ps[w] /\ Fits(cmd)
    BY <2>1, TemplateNames
  <2> QED BY <2>2 DEF Fits
<1>2. Has(prj, prj.conns, prj.views) /\ Dict(d)
  <2> HIDE DEF w, p
  <2> QED BY <1>1, TemplatesAre
<1>3. /\ Makes(RedoAddSelection(cmd, prj), cmd, prj.conns,
               TemplatesPut(prj.views, w, p, Grown(d, ts)))
      /\ Makes(UndoAddSelection(cmd, prj), [cmd EXCEPT !.ts = us], prj.conns,
               TemplatesPut(prj.views, w, p, Shrunk(d, ts)))
      /\ \E bl : Makes(RedoDelSelection(cmd, prj),
               [cmd EXCEPT !.ts = us, !.pos = Deleted(d, ts).pos, !.bl = bl], prj.conns,
               TemplatesPut(prj.views, w, p, Deleted(d, ts).left))
      /\ Makes(UndoDelSelection(cmd, prj), [cmd EXCEPT !.bl = {}], prj.conns,
               TemplatesPut(prj.views, w, p, Restored(d, ts, cmd.pos)))
  <2>1. Has(prj, prj.conns, prj.views) /\ d = At(At(prj.views, cmd.view), cmd.panel)
    BY <1>2
  <2> HIDE DEF d
  <2> QED BY <2>1, SelectionMakes
<1>4. ts = cmd.ts
  OBVIOUS
<1> HIDE DEF w, p, d, ts
<1>5. /\ Dict(Grown(d, ts)) /\ Dict(Shrunk(d, ts)) /\ Dict(Deleted(d, ts).left)
      /\ Dict(Restored(d, ts, cmd.pos)) /\ Dict(us)
  BY <1>1, <1>2, GrownDict, ShrunkDict, DeletedDict, RestoredDict, TakenIs
<1> HIDE DEF us
<1>6. ASSUME NEW e, Dict(e), NEW r, NEW xs, Dict(xs), NEW next, Selecting(cmd, xs, next),
             Makes(r, next, prj.conns, TemplatesPut(prj.views, w, p, e))
      PROVE  Sound(r, cs, ps, cs, ps, cs, ps)
  <2>1. Ok(next, cs, ps, cs, ps)
    BY <1>6, SelectionKept
  <2> QED BY <1>1, <1>6, <2>1, TemplateSound
<1>7. Sound(RedoAddSelection(cmd, prj), cs, ps, cs, ps, cs, ps)
  BY <1>1, <1>3, <1>5, TemplateSound
<1>8. Sound(UndoAddSelection(cmd, prj), cs, ps, cs, ps, cs, ps)
  <2>1. Selecting(cmd, us, [cmd EXCEPT !.ts = us])
    BY DEF Selecting
  <2> QED BY <1>3, <1>5, <1>6, <2>1
<1>9. Sound(RedoDelSelection(cmd, prj), cs, ps, cs, ps, cs, ps)
  <2> DEFINE l == Deleted(d, ts).left
             s == Deleted(d, ts).pos
  <2>1. Dict(l)
    BY <1>5
  <2>2. PICK bl : Makes(RedoDelSelection(cmd, prj),
               [cmd EXCEPT !.ts = us, !.pos = s, !.bl = bl], prj.conns,
               TemplatesPut(prj.views, w, p, l))
    BY <1>3
  <2> HIDE DEF l, s
  <2>3. Selecting(cmd, us, [cmd EXCEPT !.ts = us, !.pos = s, !.bl = bl])
    BY DEF Selecting
  <2> QED BY <1>5, <1>6, <2>1, <2>2, <2>3
<1>10. Sound(UndoDelSelection(cmd, prj), cs, ps, cs, ps, cs, ps)
  <2>1. Selecting(cmd, ts, [cmd EXCEPT !.bl = {}])
    BY <1>4 DEF Selecting
  <2> QED BY <1>1, <1>3, <1>5, <1>6, <2>1
<1> QED BY <1>7, <1>8, <1>9, <1>10

LEMMA TemplatesSound ==
  ASSUME NEW cmd, cmd.kind \in TemplateKinds,
         NEW cs, NEW ps, Ok(cmd, cs, ps, cs, ps), NEW prj, Known(prj, cs, ps)
  PROVE  /\ \A o, n : Sound(TemplateRenamed(cmd, prj, o, n), cs, ps, cs, ps, cs, ps)
         /\ \A t : Sound(TemplateMoved(cmd, prj, t), cs, ps, cs, ps, cs, ps)
         /\ \A n : Sound(LinkSet(cmd, prj, n), cs, ps, cs, ps, cs, ps)
<1> DEFINE w == cmd.view
           p == cmd.panel
           d == At(At(prj.views, w), p)
<1>1. w \in DOMAIN ps /\ p \in ps[w]
  BY TemplateNames
<1>2. Has(prj, prj.conns, prj.views) /\ Dict(d)
  <2> HIDE DEF w, p
  <2> QED BY <1>1, TemplatesAre
<1>3. Has(prj, prj.conns, prj.views) /\ d = At(At(prj.views, cmd.view), cmd.panel)
  BY <1>2
<1>4. ASSUME NEW e, Dict(e), NEW r,
             Makes(r, cmd, prj.conns, TemplatesPut(prj.views, w, p, e))
      PROVE  Sound(r, cs, ps, cs, ps, cs, ps)
  <2> HIDE DEF w, p
  <2> QED BY <1>1, <1>4, TemplateSound
<1>5. ASSUME NEW o, NEW n
      PROVE  Sound(TemplateRenamed(cmd, prj, o, n), cs, ps, cs, ps, cs, ps)
  <2> DEFINE v == d[cmd.pos].val
             a == Drop(d, o)
             i == IF o \in Keys(d) THEN IndexOf(d, o) ELSE 0
             e == IF cmd.pos \in DOMAIN d THEN PutAt(a, n, v, i) ELSE a
  <2>1. Makes(TemplateRenamed(cmd, prj, o, n), cmd, prj.conns,
              TemplatesPut(prj.views, w, p, e))
    <3> HIDE DEF d
    <3> QED BY <1>3, TemplateMakes
  <2> HIDE DEF d, v, i
  <2>2. Dict(e)
    BY <1>2, DropDict, PutAtDict
  <2> HIDE DEF e
  <2> QED BY <1>4, <2>1, <2>2
<1>6. ASSUME NEW t
      PROVE  Sound(TemplateMoved(cmd, prj, t), cs, ps, cs, ps, cs, ps)
  <2> DEFINE e == MoveTo(d, t, cmd.pos)
  <2>1. Makes(TemplateMoved(cmd, prj, t), cmd, prj.conns, TemplatesPut(prj.views, w, p, e))
    <3> HIDE DEF d
    <3> QED BY <1>3, TemplateMakes
  <2> HIDE DEF d
  <2>2. Dict(e)
    BY <1>2, MoveIs
  <2> HIDE DEF e
  <2> QED BY <1>4, <2>1, <2>2
<1>7. ASSUME NEW n
      PROVE  Sound(LinkSet(cmd, prj, n), cs, ps, cs, ps, cs, ps)
  <2> DEFINE e == With(d, cmd.templ, n)
  <2>1. Makes(LinkSet(cmd, prj, n), cmd, prj.conns,
              IF cmd.templ \in Keys(d) THEN TemplatesPut(prj.views, w, p, e)
              ELSE prj.views)
    <3> HIDE DEF d
    <3> QED BY <1>3, TemplateMakes
  <2>2. CASE cmd.templ \in Keys(d)
    <3>1. Dict(e)
      BY <1>2, <2>2, WithIs
    <3> HIDE DEF d, e
    <3>2. Makes(LinkSet(cmd, prj, n), cmd, prj.conns, TemplatesPut(prj.views, w, p, e))
      BY <2>1, <2>2
    <3> QED BY <1>4, <3>1, <3>2
  <2>3. CASE cmd.templ \notin Keys(d)
    <3>1. Makes(LinkSet(cmd, prj, n), cmd, prj.conns, prj.views)
      BY <2>1, <2>3
    <3>2. ViewsTyped(prj.views) /\ Catalog(prj.views) = ps
      BY ViewsAre
    <3> QED BY <3>1, <3>2, ViewSound
  <2> QED BY <2>2, <2>3
<1> QED BY <1>5, <1>6, <1>7

LEMMA BindingSound ==
  ASSUME NEW cmd, NEW cs, NEW ps, Ok(cmd, cs, ps, cs, ps), NEW prj, Known(prj, cs, ps)
  PROVE  \A S, U : Sound(BindingSwitched(cmd, prj, S, U), cs, ps, cs, ps, cs, ps)
<1> TAKE S, U
<1>1. /\ Has(prj, prj.conns, prj.views) /\ ViewsTyped(prj.views)
      /\ Catalog(prj.views) = ps
  BY ViewsAre
<1> DEFINE d == At(At(prj.views, cmd.view), cmd.panel)
<1>2. d = At(At(prj.views, cmd.view), cmd.panel)
  OBVIOUS
<1> HIDE DEF d
<1>3. Makes(BindingSwitched(cmd, prj, S, U), cmd, prj.conns, prj.views)
  BY <1>1, <1>2, TemplateMakes
<1> QED BY <1>1, <1>3, ViewSound

-----------------------------------------------------------------------------
(***************************************************************************)
(* Every command.                                                          *)
(***************************************************************************)
\* The command leads from the names cs and ps to ds and qs, and back.
Leads(cmd, prj, cs, ps, ds, qs) ==
  /\ Known(prj, cs, ps) => Sound(Redone(cmd, prj), ds, qs, cs, ps, ds, qs)
  /\ Known(prj, ds, qs) => Sound(Undone(cmd, prj), cs, ps, cs, ps, ds, qs)

LEMMA ConnectionLeads ==
  ASSUME NEW cmd, cmd.kind \in ConnectionKinds,
         NEW cs, NEW ps, NEW ds, NEW qs, Ok(cmd, cs, ps, ds, qs), NEW prj
  PROVE  Leads(cmd, prj, cs, ps, ds, qs)
<1>1. qs = ps
  <2>1. cmd.kind \in ConnectionKinds \cup VariableKinds
    OBVIOUS
  <2> QED BY <2>1, ConnectionNames
<1>2. CASE cmd.kind = "AddConnection"
  BY <1>1, <1>2, AddConnectionSound DEF Leads, Redone, Undone
<1>3. CASE cmd.kind = "Reimport"
  BY <1>1, <1>3, ReimportSound DEF Leads, Redone, Undone
<1>4. CASE cmd.kind = "DelConnection"
  BY <1>1, <1>4, DelConnectionSound DEF Leads, Redone, Undone
<1>5. CASE cmd.kind = "RenameConnection"
  BY <1>1, <1>5, RenameConnectionSound DEF Leads, Redone, Undone
<1> QED BY <1>2, <1>3, <1>4, <1>5 DEF ConnectionKinds

LEMMA VariableLeads ==
  ASSUME NEW cmd, cmd.kind \in VariableKinds,
         NEW cs, NEW ps, NEW ds, NEW qs, Ok(cmd, cs, ps, ds, qs), NEW prj
  PROVE  Leads(cmd, prj, cs, ps, ds, qs)
<1>1. qs = ps /\ ds = cs
  <2>1. cmd.kind \in ConnectionKinds \cup VariableKinds
    OBVIOUS
  <2> QED BY <2>1, ConnectionNames
<1>2. Known(prj, cs, ps) =>
        /\ Sound(RedoAddVariable(cmd, prj), cs, ps, cs, ps, cs, ps)
        /\ Sound(UndoAddVariable(cmd, prj), cs, ps, cs, ps, cs, ps)
        /\ Sound(RedoDelVariable(cmd, prj), cs, ps, cs, ps, cs, ps)
        /\ Sound(UndoDelVariable(cmd, prj), cs, ps, cs, ps, cs, ps)
        /\ \A o, n : Sound(VariableRenamed(cmd, prj, o, n), cs, ps, cs, ps, cs, ps)
  BY <1>1, VariablesSound
<1>3. cmd.kind \in {"AddVariable", "DelVariable", "RenameVariable"}
  BY DEF VariableKinds
<1> QED BY <1>1, <1>2, <1>3 DEF Leads, Redone, Undone

LEMMA ViewLeads ==
  ASSUME NEW cmd, cmd.kind \in ViewKinds,
         NEW cs, NEW ps, NEW ds, NEW qs, Ok(cmd, cs, ps, ds, qs), NEW prj
  PROVE  Leads(cmd, prj, cs, ps, ds, qs)
<1>1. ds = cs /\ (cmd.kind = "ReorderView" => qs = ps)
  BY ViewNames
<1>2. CASE cmd.kind = "AddView"
  BY <1>1, <1>2, AddViewSound DEF Leads, Redone, Undone
<1>3. CASE cmd.kind = "DelView"
  BY <1>1, <1>3, DelViewSound DEF Leads, Redone, Undone
<1>4. CASE cmd.kind = "RenameView"
  BY <1>1, <1>4, RenameViewSound DEF Leads, Redone, Undone
<1>5. CASE cmd.kind = "ReorderView"
  BY <1>1, <1>5, ReorderViewSound DEF Leads, Redone, Undone
<1> QED BY <1>2, <1>3, <1>4, <1>5 DEF ViewKinds

LEMMA PanelLeads ==
  ASSUME NEW cmd, cmd.kind \in PanelKinds,
         NEW cs, NEW ps, NEW ds, NEW qs, Ok(cmd, cs, ps, ds, qs), NEW prj
  PROVE  Leads(cmd, prj, cs, ps, ds, qs)
<1>1. ds = cs
  BY PanelNames
<1>2. CASE cmd.kind = "AddPanel"
  BY <1>1, <1>2, AddPanelSound DEF Leads, Redone, Undone
<1>3. CASE cmd.kind = "DelPanel"
  BY <1>1, <1>3, DelPanelSound DEF Leads, Redone, Undone
<1>4. CASE cmd.kind = "RenamePanel"
  BY <1>1, <1>4, RenamePanelSound DEF Leads, Redone, Undone
<1>5. CASE cmd.kind = "PanelOrder"
  <2>1. qs = ps
    BY <1>5 DEF Ok, NamesPanels
  <2> QED BY <1>1, <1>5, <2>1, PanelOrderSound DEF Leads, Redone, Undone
<1> QED BY <1>2, <1>3, <1>4, <1>5 DEF PanelKinds

LEMMA TemplateLeads ==
  ASSUME NEW cmd, cmd.kind \in TemplateKinds,
         NEW cs, NEW ps, NEW ds, NEW qs, Ok(cmd, cs, ps, ds, qs), NEW prj
  PROVE  Leads(cmd, prj, cs, ps, ds, qs)
<1>1. ds = cs /\ qs = ps
  BY TemplateNames
<1>2. CASE cmd.kind = "AddSelection"
  BY <1>1, <1>2, SelectionsSound DEF Leads, Redone, Undone
<1>3. CASE cmd.kind = "DelSelection"
  BY <1>1, <1>3, SelectionsSound DEF Leads, Redone, Undone
<1>4. CASE cmd.kind \in {"RenameTemplate", "TabOrder", "SetLink"}
  BY <1>1, <1>4, TemplatesSound DEF Leads, Redone, Undone
<1> QED BY <1>2, <1>3, <1>4 DEF TemplateKinds

LEMMA BindingLeads ==
  ASSUME NEW cmd, cmd.kind = "ChangeBinding",
         NEW cs, NEW ps, NEW ds, NEW qs, Ok(cmd, cs, ps, ds, qs), NEW prj
  PROVE  Leads(cmd, prj, cs, ps, ds, qs)
<1>1. ds = cs
  BY DEF Ok, NamesConns, ConnectionKinds
<1>2. qs = ps
  BY DEF Ok, NamesPanels
<1> QED BY <1>1, <1>2, BindingSound DEF Leads, Redone, Undone

\* A command that found what it works on finds it again.
LEMMA CommandLeads ==
  ASSUME NEW cmd, NEW cs, NEW ps, NEW ds, NEW qs, Ok(cmd, cs, ps, ds, qs), NEW prj
  PROVE  Leads(cmd, prj, cs, ps, ds, qs)
<1>1. cmd.kind \in Kinds
  BY DEF Ok, Fits
<1>2. cmd.kind \in ConnectionKinds \cup VariableKinds \cup ViewKinds \cup PanelKinds
                     \cup TemplateKinds \cup {"ChangeBinding"}
  BY <1>1 DEF Kinds, Renames, Keepers, ConnectionKinds, VariableKinds, ViewKinds,
              PanelKinds, TemplateKinds
<1> QED BY <1>2, ConnectionLeads, VariableLeads, ViewLeads, PanelLeads, TemplateLeads,
           BindingLeads

-----------------------------------------------------------------------------
(***************************************************************************)
(* What may go wrong has a name.                                           *)
(***************************************************************************)
LEMMA IfIs ==
  ASSUME NEW c \in Causes, NEW test
  PROVE  If(test, c) \subseteq Causes
BY DEF If

LEMMA NothingWrong == {} \subseteq Causes
OBVIOUS

LEMMA CauseIs ==
  /\ "lost" \in Causes /\ "kept" \in Causes /\ "refused" \in Causes
  /\ "merged" \in Causes /\ "overwritten" \in Causes
  /\ "crossed" \in Causes /\ "stale" \in Causes
BY DEF Causes

\* What a step gives goes wrong in known ways.
Caused(r) == r.wrong \subseteq Causes

LEMMA Tried ==
  ASSUME NEW cmd, NEW prj, NEW W, W \subseteq Causes
  PROVE  Caused(Result(cmd, prj, W))
BY DEF Caused, Result

LEMMA ConnectionsCaused ==
  ASSUME NEW cmd, NEW prj
  PROVE  /\ Caused(RedoAddConnection(cmd, prj)) /\ Caused(UndoAddConnection(cmd, prj))
         /\ Caused(RedoReimport(cmd, prj)) /\ Caused(UndoReimport(cmd, prj))
         /\ Caused(RedoDelConnection(cmd, prj)) /\ Caused(UndoDelConnection(cmd, prj))
         /\ \A o, n : Caused(ConnectionRenamed(cmd, prj, o, n))
<1>1. Caused(RedoAddConnection(cmd, prj)) /\ Caused(UndoAddConnection(cmd, prj))
  BY Tried, NothingWrong DEF RedoAddConnection, UndoAddConnection
<1>2. Caused(RedoReimport(cmd, prj)) /\ Caused(UndoReimport(cmd, prj))
  BY Tried, NothingWrong DEF RedoReimport, UndoReimport
<1>3. Caused(RedoDelConnection(cmd, prj)) /\ Caused(UndoDelConnection(cmd, prj))
  BY Tried, NothingWrong, IfIs, CauseIs, Zenon DEF RedoDelConnection, UndoDelConnection
<1>4. \A o, n : Caused(ConnectionRenamed(cmd, prj, o, n))
  BY Tried, IfIs, CauseIs, Zenon DEF ConnectionRenamed
<1> QED BY <1>1, <1>2, <1>3, <1>4

LEMMA VariablesCaused ==
  ASSUME NEW cmd, NEW prj
  PROVE  /\ Caused(RedoAddVariable(cmd, prj)) /\ Caused(UndoAddVariable(cmd, prj))
         /\ Caused(RedoDelVariable(cmd, prj)) /\ Caused(UndoDelVariable(cmd, prj))
         /\ \A o, n : Caused(VariableRenamed(cmd, prj, o, n))
<1>1. Caused(RedoAddVariable(cmd, prj)) /\ Caused(UndoAddVariable(cmd, prj))
  BY Tried, NothingWrong DEF RedoAddVariable, UndoAddVariable
<1>2. Caused(RedoDelVariable(cmd, prj)) /\ Caused(UndoDelVariable(cmd, prj))
  BY Tried, NothingWrong, IfIs, CauseIs, Zenon DEF RedoDelVariable, UndoDelVariable
<1>3. \A o, n : Caused(VariableRenamed(cmd, prj, o, n))
  BY Tried, IfIs, CauseIs, Zenon DEF VariableRenamed
<1> QED BY <1>1, <1>2, <1>3

LEMMA Both ==
  ASSUME NEW V, V \subseteq Causes, NEW W, W \subseteq Causes
  PROVE  V \cup W \subseteq Causes
OBVIOUS

LEMMA ViewsCaused ==
  ASSUME NEW cmd, NEW prj
  PROVE  /\ Caused(RedoAddView(cmd, prj)) /\ Caused(UndoAddView(cmd, prj))
         /\ Caused(RedoDelView(cmd, prj)) /\ Caused(UndoDelView(cmd, prj))
         /\ \A o, n : Caused(ViewRenamed(cmd, prj, o, n))
         /\ \A i, j : Caused(ViewMoved(cmd, prj, i, j))
<1>1. Caused(RedoAddView(cmd, prj)) /\ Caused(UndoAddView(cmd, prj))
  BY Tried, NothingWrong DEF RedoAddView, UndoAddView
<1>2. Caused(RedoDelView(cmd, prj)) /\ Caused(UndoDelView(cmd, prj))
  BY Tried, NothingWrong, IfIs, Both, CauseIs, Zenon DEF RedoDelView, UndoDelView
<1>3. \A o, n : Caused(ViewRenamed(cmd, prj, o, n))
  BY Tried, IfIs, CauseIs, Zenon DEF ViewRenamed
<1>4. \A i, j : Caused(ViewMoved(cmd, prj, i, j))
  BY Tried, NothingWrong DEF ViewMoved
<1> QED BY <1>1, <1>2, <1>3, <1>4

LEMMA PanelsCaused ==
  ASSUME NEW cmd, NEW prj
  PROVE  /\ Caused(RedoAddPanel(cmd, prj)) /\ Caused(UndoAddPanel(cmd, prj))
         /\ Caused(RedoDelPanel(cmd, prj)) /\ Caused(UndoDelPanel(cmd, prj))
         /\ \A o, n : Caused(PanelRenamed(cmd, prj, o, n))
         /\ \A p : Caused(PanelMoved(cmd, prj, p))
<1>1. Caused(RedoAddPanel(cmd, prj)) /\ Caused(UndoAddPanel(cmd, prj))
  BY Tried, NothingWrong DEF RedoAddPanel, UndoAddPanel
<1>2. Caused(RedoDelPanel(cmd, prj)) /\ Caused(UndoDelPanel(cmd, prj))
  BY Tried, NothingWrong, IfIs, Both, CauseIs, Zenon DEF RedoDelPanel, UndoDelPanel
<1>3. \A o, n : Caused(PanelRenamed(cmd, prj, o, n))
  BY Tried, IfIs, Both, CauseIs, Zenon DEF PanelRenamed
<1>4. \A p : Caused(PanelMoved(cmd, prj, p))
  BY Tried, NothingWrong DEF PanelMoved
<1> QED BY <1>1, <1>2, <1>3, <1>4

LEMMA TemplatesCaused ==
  ASSUME NEW cmd, NEW prj
  PROVE  /\ Caused(RedoAddSelection(cmd, prj)) /\ Caused(UndoAddSelection(cmd, prj))
         /\ Caused(RedoDelSelection(cmd, prj)) /\ Caused(UndoDelSelection(cmd, prj))
         /\ \A o, n : Caused(TemplateRenamed(cmd, prj, o, n))
         /\ \A t : Caused(TemplateMoved(cmd, prj, t))
         /\ \A n : Caused(LinkSet(cmd, prj, n))
         /\ \A o, n : Caused(BindingSwitched(cmd, prj, o, n))
<1>1. Caused(RedoAddSelection(cmd, prj)) /\ Caused(UndoAddSelection(cmd, prj))
  BY Tried, NothingWrong, IfIs, Both, CauseIs, Zenon
  DEF RedoAddSelection, UndoAddSelection
<1>2. Caused(RedoDelSelection(cmd, prj)) /\ Caused(UndoDelSelection(cmd, prj))
  BY Tried, NothingWrong, Zenon DEF RedoDelSelection, UndoDelSelection
<1>3. \A o, n : Caused(TemplateRenamed(cmd, prj, o, n))
  BY Tried, IfIs, Both, CauseIs, ZenonT(40) DEF TemplateRenamed
<1>4. \A t : Caused(TemplateMoved(cmd, prj, t))
  BY Tried, NothingWrong DEF TemplateMoved
<1>5. \A n : Caused(LinkSet(cmd, prj, n))
  BY Tried, NothingWrong DEF LinkSet
<1>6. \A o, n : Caused(BindingSwitched(cmd, prj, o, n))
  BY Tried, NothingWrong DEF BindingSwitched
<1> QED BY <1>1, <1>2, <1>3, <1>4, <1>5, <1>6

LEMMA CommandCaused ==
  ASSUME NEW cmd, cmd.kind \in Kinds, NEW prj
  PROVE  Caused(Redone(cmd, prj)) /\ Caused(Undone(cmd, prj))
<1>1. CASE cmd.kind \in ConnectionKinds
  BY <1>1, ConnectionsCaused DEF ConnectionKinds, Redone, Undone
<1>2. CASE cmd.kind \in VariableKinds
  BY <1>2, VariablesCaused DEF VariableKinds, Redone, Undone
<1>3. CASE cmd.kind \in ViewKinds
  BY <1>3, ViewsCaused DEF ViewKinds, Redone, Undone
<1>4. CASE cmd.kind \in PanelKinds
  BY <1>4, PanelsCaused DEF PanelKinds, Redone, Undone
<1>5. CASE cmd.kind \in TemplateKinds \cup {"ChangeBinding"}
  BY <1>5, TemplatesCaused DEF TemplateKinds, Redone, Undone
<1> QED BY <1>1, <1>2, <1>3, <1>4, <1>5
        DEF Kinds, Renames, Keepers, ConnectionKinds, VariableKinds, ViewKinds,
            PanelKinds, TemplateKinds

-----------------------------------------------------------------------------
(***************************************************************************)
(* The history along with the stack.                                       *)
(***************************************************************************)
Recording(st, pa) ==
  /\ Len(pa) = Len(st) + 1
  /\ pa \in Seq({pa[i] : i \in DOMAIN pa})
  /\ \A i \in DOMAIN pa : Typed(pa[i])
  /\ \A i \in DOMAIN st : Fits(st[i]) /\ Named(st[i], pa[i], pa[i + 1])

LEMMA RecordingIs ==
  ASSUME NEW st, NEW T, st \in Seq(T), NEW pa, Recording(st, pa)
  PROVE  /\ DOMAIN st = 1..Len(st) /\ Len(st) \in Nat
         /\ DOMAIN pa = 1..(Len(st) + 1) /\ Len(pa) = Len(st) + 1
         /\ \E U : pa \in Seq(U)
         /\ \A i \in 1..(Len(st) + 1) : Typed(pa[i])
         /\ \A i \in 1..Len(st) : Fits(st[i]) /\ Named(st[i], pa[i], pa[i + 1])
<1>1. DOMAIN st = 1..Len(st) /\ Len(st) \in Nat
  OBVIOUS
<1>2. pa \in Seq({pa[i] : i \in DOMAIN pa}) /\ Len(pa) = Len(st) + 1
  BY DEF Recording
<1>3. DOMAIN pa = 1..(Len(st) + 1)
  BY <1>2
<1> QED BY <1>1, <1>2, <1>3 DEF Recording

\* The first n entries, and another.
Prolongs(t, s, n, e) ==
  /\ DOMAIN t = 1..(n + 1) /\ Len(t) = n + 1
  /\ \A i \in 1..n : t[i] = s[i]
  /\ t[n + 1] = e
  /\ t \in Seq({t[i] : i \in DOMAIN t})

LEMMA Prolonged ==
  ASSUME NEW T, NEW s \in Seq(T), NEW n \in 0..Len(s), NEW e
  PROVE  Prolongs(Append(SubSeq(s, 1, n), e), s, n, e)
<1> DEFINE s0 == SubSeq(s, 1, n)
           W  == T \cup {e}
           t  == Append(s0, e)
<1>1. s0 \in Seq(T) /\ Len(s0) = n /\ \A i \in 1..n : s0[i] = s[i]
  OBVIOUS
<1> HIDE DEF s0
<1>2. s0 \in Seq(W) /\ e \in W
  BY <1>1
<1> HIDE DEF W
<1>3. /\ t \in Seq(W) /\ DOMAIN t = 1..(n + 1) /\ Len(t) = n + 1
      /\ \A i \in 1..n : t[i] = s[i]
      /\ t[n + 1] = e
  BY <1>1, <1>2
<1> HIDE DEF t
<1>4. t \in Seq({t[i] : i \in DOMAIN t})
  BY <1>3, OwnElements
<1>5. Prolongs(t, s, n, e)
  BY <1>3, <1>4 DEF Prolongs
<1> QED BY <1>5 DEF t, s0

LEMMA RecordingPush ==
  ASSUME NEW st, NEW T, st \in Seq(T), NEW pa, Recording(st, pa),
         NEW n \in 0..Len(st), NEW c, Fits(c), NEW x, Typed(x), Named(c, pa[n + 1], x)
  PROVE  /\ Recording(Append(SubSeq(st, 1, n), c), Append(SubSeq(pa, 1, n + 1), x))
         /\ Append(SubSeq(pa, 1, n + 1), x)[n + 2] = x
<1> DEFINE ts == Append(SubSeq(st, 1, n), c)
           m  == n + 1
           qa == Append(SubSeq(pa, 1, m), x)
<1>1. /\ DOMAIN st = 1..Len(st) /\ Len(st) \in Nat
      /\ DOMAIN pa = 1..(Len(st) + 1) /\ Len(pa) = Len(st) + 1
      /\ \A i \in 1..(Len(st) + 1) : Typed(pa[i])
      /\ \A i \in 1..Len(st) : Fits(st[i]) /\ Named(st[i], pa[i], pa[i + 1])
  BY RecordingIs
<1>2. PICK U : pa \in Seq(U)
  BY RecordingIs
<1>3. Prolongs(ts, st, n, c)
  BY Prolonged
<1>4. n \in Int /\ m = n + 1 /\ m \in 0..Len(pa) /\ 1..m \subseteq 1..(Len(st) + 1)
      /\ n + 2 = m + 1 /\ n <= Len(st)
  BY <1>1
<1> HIDE DEF m
<1>5. Prolongs(qa, pa, m, x)
  BY <1>2, <1>4, Prolonged
<1> HIDE DEF ts, qa
<1>6. /\ DOMAIN ts = 1..(n + 1) /\ Len(ts) = n + 1
      /\ \A i \in 1..n : ts[i] = st[i]
      /\ ts[n + 1] = c
  BY <1>3 DEF Prolongs
<1>7. /\ DOMAIN qa = 1..(m + 1) /\ Len(qa) = m + 1
      /\ \A i \in 1..m : qa[i] = pa[i]
      /\ qa[m + 1] = x
      /\ qa \in Seq({qa[i] : i \in DOMAIN qa})
  BY <1>5 DEF Prolongs
<1>8. ASSUME NEW i \in 1..(m + 1)
      PROVE  Typed(qa[i])
  <2>1. i \in 1..m \/ i = m + 1
    BY <1>4
  <2> QED BY <1>1, <1>4, <1>7, <2>1
<1>9. ASSUME NEW i \in 1..(n + 1)
      PROVE  Fits(ts[i]) /\ Named(ts[i], qa[i], qa[i + 1])
  <2>1. i \in 1..n \/ i = n + 1
    BY <1>4
  <2>2. CASE i \in 1..n
    <3>1. i \in 1..Len(st) /\ i \in 1..m /\ i + 1 \in 1..m
      BY <1>1, <1>4, <2>2
    <3> QED BY <1>1, <1>6, <1>7, <2>2, <3>1
  <2>3. CASE i = n + 1
    <3>1. i = m /\ i \in 1..m /\ i + 1 = m + 1
      BY <1>4, <2>3
    <3>2. qa[i] = pa[n + 1] /\ qa[i + 1] = x /\ ts[i] = c
      BY <1>4, <1>6, <1>7, <2>3, <3>1
    <3> QED BY <3>2
  <2> QED BY <2>1, <2>2, <2>3
<1>10. Recording(ts, qa)
  BY <1>4, <1>6, <1>7, <1>8, <1>9 DEF Recording
<1>11. qa[n + 2] = x
  BY <1>4, <1>7
<1> QED BY <1>10, <1>11 DEF ts, qa, m

LEMMA RecordingReplace ==
  ASSUME NEW st, NEW T, st \in Seq(T), NEW pa, Recording(st, pa),
         NEW k \in 1..Len(st), NEW c, Fits(c), Named(c, pa[k], pa[k + 1])
  PROVE  Recording([st EXCEPT ![k] = c], pa)
<1>1. /\ DOMAIN st = 1..Len(st) /\ Len(st) \in Nat
      /\ \A i \in 1..Len(st) : Fits(st[i]) /\ Named(st[i], pa[i], pa[i + 1])
  BY RecordingIs
<1> DEFINE ts == [st EXCEPT ![k] = c]
           W  == T \cup {c}
<1>2. st \in Seq(W) /\ c \in W
  OBVIOUS
<1> HIDE DEF W
<1>3. /\ Len(ts) = Len(st) /\ DOMAIN ts = 1..Len(st)
      /\ \A i \in 1..Len(st) : ts[i] = IF i = k THEN c ELSE st[i]
  BY <1>1, <1>2
<1> HIDE DEF ts
<1>4. \A i \in DOMAIN ts : Fits(ts[i]) /\ Named(ts[i], pa[i], pa[i + 1])
  BY <1>1, <1>3
<1>5. Recording(ts, pa)
  BY <1>3, <1>4 DEF Recording
<1> QED BY <1>5 DEF ts

LEMMA RecordingNone ==
  ASSUME NEW x, Typed(x)
  PROVE  Recording(<< >>, <<x>>)
<1> DEFINE pa == <<x>>
           st == << >>
<1>1. Len(pa) = 1 /\ DOMAIN pa = {1} /\ pa[1] = x /\ Len(st) = 0 /\ DOMAIN st = {}
  OBVIOUS
<1>2. pa \in Seq({pa[i] : i \in DOMAIN pa})
  OBVIOUS
<1> HIDE DEF pa, st
<1>3. Recording(st, pa)
  BY <1>1, <1>2 DEF Recording
<1> QED BY <1>3 DEF pa, st

-----------------------------------------------------------------------------
\* Names and what has them.
LEMMA OkNamed ==
  ASSUME NEW cmd, NEW x, NEW y, Fits(cmd), Named(cmd, x, y)
  PROVE  Ok(cmd, Keys(x.conns), Catalog(x.views), Keys(y.conns), Catalog(y.views))
BY DEF Ok, Named, Mapped, Catalog

LEMMA NamedOk ==
  ASSUME NEW cmd, NEW x, NEW y,
         Ok(cmd, Keys(x.conns), Catalog(x.views), Keys(y.conns), Catalog(y.views))
  PROVE  Fits(cmd) /\ Named(cmd, x, y)
BY DEF Ok, Named

\* The part of the invariant about the project, with the stack and the history.
Kept ==
  /\ Recording(stack, past) /\ slips \subseteq Causes
  /\ Known(project, Keys(past[last + 1].conns), Catalog(past[last + 1].views))

LEMMA RecordedIs ==
  ASSUME Listing
  PROVE  Recorded <=> Kept /\ Typed(file)
<1>1. DOMAIN project = {"conns", "views", "bs"}
  BY DEF Listing
<1> QED BY <1>1 DEF Recorded, Kept, Recording, Known, Fielded

LEMMA RecordedNext ==
  ASSUME Listing', Kept', Typed(file')
  PROVE  Recorded'
<1>1. DOMAIN project' = {"conns", "views", "bs"}
  BY DEF Listing
<1> QED BY <1>1 DEF Recorded, Kept, Recording, Known, Fielded

\* A command that finds what it works on in the project.
Finds(cmd) == \E ds, qs : Ok(cmd, Keys(project.conns), Catalog(project.views), ds, qs)

LEMMA Contents ==
  ASSUME NEW prj, NEW cs, NEW ps, Known(prj, cs, ps)
  PROVE  /\ Typed(Content(prj))
         /\ Keys(Content(prj).conns) = cs /\ Catalog(Content(prj).views) = ps
BY DEF Known, Content, Typed

LEMMA PushKept ==
  ASSUME Listing, Kept, NEW cmd, Finds(cmd),
         NEW prj, Known(prj, Keys(project.conns), Catalog(project.views)),
         Push(cmd, prj)
  PROVE  Kept'
<1> DEFINE r  == Redone(cmd, prj)
           cs == Keys(past[last + 1].conns)
           ps == Catalog(past[last + 1].views)
           x  == Content(r.prj)
<1>1. Keys(project.conns) = cs /\ Catalog(project.views) = ps
  BY DEF Kept, Known
<1>2. PICK ds, qs : Ok(cmd, cs, ps, ds, qs)
  BY <1>1 DEF Finds
<1>3. Known(prj, cs, ps)
  BY <1>1
<1> HIDE DEF cs, ps
<1>4. Sound(r, ds, qs, cs, ps, ds, qs)
  BY <1>2, <1>3, CommandLeads DEF Leads
<1>5. Caused(r)
  <2>1. cmd.kind \in Kinds
    BY <1>2 DEF Ok, Fits
  <2> QED BY <2>1, CommandCaused
<1> DEFINE q == r.prj
           c == r.cmd
<1>6. /\ project' = q /\ stack' = Append(SubSeq(stack, 1, last), c)
      /\ last' = last + 1
      /\ past' = Append(SubSeq(past, 1, last + 1), x)
      /\ slips' = slips \cup r.wrong
  BY DEF Push
<1>7. Known(q, ds, qs) /\ Ok(c, cs, ps, ds, qs)
  BY <1>4 DEF Sound
<1>8. Typed(x) /\ Keys(x.conns) = ds /\ Catalog(x.views) = qs
  <2> HIDE DEF q
  <2>1. x = Content(q)
    BY DEF q
  <2> HIDE DEF x
  <2> QED BY <1>7, <2>1, Contents
<1>9. slips' \subseteq Causes
  BY <1>5, <1>6 DEF Caused, Kept
<1> HIDE DEF r, x, q, c
<1>10. Fits(c) /\ Named(c, past[last + 1], x)
  <2>1. Ok(c, Keys(past[last + 1].conns), Catalog(past[last + 1].views),
              Keys(x.conns), Catalog(x.views))
    BY <1>7, <1>8 DEF cs, ps
  <2> QED BY <2>1, NamedOk
<1>11. PICK T : stack \in Seq(T)
  BY ListingIs
<1>12. last \in 0..Len(stack) /\ last \in Nat /\ last' + 1 = last + 2
  BY <1>6, ListingIs
<1>13. Recording(stack', past') /\ past'[last + 2] = x
  <2>1. Recording(stack, past)
    BY DEF Kept
  <2> DEFINE n == last
  <2>2. n \in 0..Len(stack) /\ Named(c, past[n + 1], x)
    BY <1>10, <1>12
  <2>3. /\ stack' = Append(SubSeq(stack, 1, n), c)
        /\ past' = Append(SubSeq(past, 1, n + 1), x)
    BY <1>6
  <2> HIDE DEF n
  <2>4. /\ Recording(Append(SubSeq(stack, 1, n), c), Append(SubSeq(past, 1, n + 1), x))
        /\ Append(SubSeq(past, 1, n + 1), x)[n + 2] = x
    BY <1>8, <1>10, <1>11, <2>1, <2>2, RecordingPush
  <2>5. Recording(stack', past') /\ past'[n + 2] = x
    BY <2>3, <2>4
  <2> QED BY <2>5 DEF n
<1>14. Known(project', Keys(past'[last' + 1].conns), Catalog(past'[last' + 1].views))
  BY <1>6, <1>7, <1>8, <1>12, <1>13
<1> QED BY <1>9, <1>13, <1>14 DEF Kept

LEMMA AppliedOk ==
  ASSUME Listing, Kept, NEW k \in 1..Len(stack)
  PROVE  Ok(stack[k], Keys(past[k].conns), Catalog(past[k].views),
            Keys(past[k + 1].conns), Catalog(past[k + 1].views))
<1>1. PICK T : stack \in Seq(T)
  BY ListingIs
<1>2. Recording(stack, past)
  BY DEF Kept
<1>3. Fits(stack[k]) /\ Named(stack[k], past[k], past[k + 1])
  BY <1>1, <1>2, RecordingIs
<1> QED BY <1>3, OkNamed

\* Undo and redo: one command is replaced, the history stays.
LEMMA ReplaceKept ==
  ASSUME Listing, Kept, NEW k \in 1..Len(stack), NEW r, Caused(r),
         NEW i, i \in {k, k + 1},
         Sound(r, Keys(past[i].conns), Catalog(past[i].views),
               Keys(past[k].conns), Catalog(past[k].views),
               Keys(past[k + 1].conns), Catalog(past[k + 1].views)),
         project' = r.prj, stack' = [stack EXCEPT ![k] = r.cmd], last' + 1 = i,
         past' = past, slips' = slips \cup r.wrong
  PROVE  Kept'
<1>1. PICK T : stack \in Seq(T)
  BY ListingIs
<1> DEFINE c == r.cmd
<1>2. /\ Known(project', Keys(past[i].conns), Catalog(past[i].views))
      /\ Ok(c, Keys(past[k].conns), Catalog(past[k].views),
               Keys(past[k + 1].conns), Catalog(past[k + 1].views))
  BY DEF Sound
<1>3. stack' = [stack EXCEPT ![k] = c]
  OBVIOUS
<1> HIDE DEF c
<1>4. Fits(c) /\ Named(c, past[k], past[k + 1])
  BY <1>2, NamedOk
<1>5. Recording(stack', past')
  <2>1. Recording(stack, past)
    BY DEF Kept
  <2>2. Recording([stack EXCEPT ![k] = c], past)
    BY <1>1, <1>4, <2>1, RecordingReplace
  <2> QED BY <1>3, <2>2
<1>6. slips' \subseteq Causes
  BY DEF Kept, Caused
<1>7. Known(project', Keys(past'[last' + 1].conns), Catalog(past'[last' + 1].views))
  BY <1>2
<1> QED BY <1>5, <1>6, <1>7 DEF Kept

LEMMA UndoKept ==
  ASSUME Listing, Kept, Undo
  PROVE  Kept'
<1> DEFINE k == last
           r == Undone(stack[k], project)
<1>1. k \in 1..Len(stack) /\ k \in Int
  BY ListingIs DEF Undo
<1>2. /\ project' = r.prj /\ stack' = [stack EXCEPT ![k] = r.cmd]
      /\ slips' = slips \cup r.wrong /\ last' + 1 = k /\ past' = past
  BY <1>1 DEF Undo
<1>3. Known(project, Keys(past[k + 1].conns), Catalog(past[k + 1].views))
  BY DEF Kept
<1> HIDE DEF k
<1>4. Ok(stack[k], Keys(past[k].conns), Catalog(past[k].views),
         Keys(past[k + 1].conns), Catalog(past[k + 1].views))
  BY <1>1, AppliedOk
<1>5. Sound(r, Keys(past[k].conns), Catalog(past[k].views),
            Keys(past[k].conns), Catalog(past[k].views),
            Keys(past[k + 1].conns), Catalog(past[k + 1].views))
  BY <1>3, <1>4, CommandLeads DEF Leads
<1>6. Caused(r)
  <2>1. stack[k].kind \in Kinds
    BY <1>4 DEF Ok, Fits
  <2> QED BY <2>1, CommandCaused
<1> HIDE DEF r
<1>7. k \in {k, k + 1}
  OBVIOUS
<1> QED BY <1>1, <1>2, <1>5, <1>6, <1>7, ReplaceKept

LEMMA RedoKept ==
  ASSUME Listing, Kept, Redo
  PROVE  Kept'
<1> DEFINE k == last + 1
           r == Redone(stack[k], project)
<1>1. k \in 1..Len(stack) /\ k \in Int
  BY ListingIs DEF Redo
<1>2. /\ project' = r.prj /\ stack' = [stack EXCEPT ![k] = r.cmd]
      /\ slips' = slips \cup r.wrong /\ last' + 1 = k + 1 /\ past' = past
  BY DEF Redo
<1>3. Known(project, Keys(past[k].conns), Catalog(past[k].views))
  BY DEF Kept
<1> HIDE DEF k
<1>4. Ok(stack[k], Keys(past[k].conns), Catalog(past[k].views),
         Keys(past[k + 1].conns), Catalog(past[k + 1].views))
  BY <1>1, AppliedOk
<1>5. Sound(r, Keys(past[k + 1].conns), Catalog(past[k + 1].views),
            Keys(past[k].conns), Catalog(past[k].views),
            Keys(past[k + 1].conns), Catalog(past[k + 1].views))
  BY <1>3, <1>4, CommandLeads DEF Leads
<1>6. Caused(r)
  <2>1. stack[k].kind \in Kinds
    BY <1>4 DEF Ok, Fits
  <2> QED BY <2>1, CommandCaused
<1> HIDE DEF r
<1>7. k + 1 \in {k, k + 1}
  OBVIOUS
<1> QED BY <1>1, <1>2, <1>5, <1>6, <1>7, ReplaceKept

-----------------------------------------------------------------------------
(***************************************************************************)
(* What the windows make finds what it works on.                           *)
(***************************************************************************)
LEMMA Finding ==
  ASSUME NEW cmd, Fits(cmd), NEW ds, NEW qs, Mapped(qs),
         NamesConns(cmd, Keys(project.conns), ds),
         NamesPanels(cmd, Catalog(project.views), qs)
  PROVE  Finds(cmd)
<1>1. Mapped(Catalog(project.views))
  BY DEF Mapped, Catalog
<1> QED BY <1>1 DEF Finds, Ok

LEMMA FindsConnection ==
  ASSUME NEW cmd, "kind" \in DOMAIN cmd,
         \/ /\ cmd.kind = "AddConnection" /\ {"cn", "c"} \subseteq DOMAIN cmd
            /\ Connection(cmd.c) /\ cmd.cn \notin Keys(project.conns)
         \/ /\ cmd.kind = "Reimport" /\ {"cn", "c", "old", "pos"} \subseteq DOMAIN cmd
            /\ Connection(cmd.c) /\ Connection(cmd.old) /\ cmd.cn \in Keys(project.conns)
         \/ /\ cmd.kind = "DelConnection" /\ {"cn", "c"} \subseteq DOMAIN cmd
            /\ Connection(cmd.c) /\ cmd.cn \in Keys(project.conns)
         \/ /\ cmd.kind = "RenameConnection"
            /\ cmd.old \in Keys(project.conns) /\ cmd.new \notin Keys(project.conns)
  PROVE  Finds(cmd)
<1> DEFINE cs == Keys(project.conns)
           ps == Catalog(project.views)
<1>1. cmd.kind \in ConnectionKinds
  BY DEF ConnectionKinds
<1>2. Fits(cmd)
  BY DEF Fits, ConnectionKinds, Kinds, Renames, Keepers
<1>3. NamesPanels(cmd, ps, ps)
  <2> HIDE DEF ps
  <2> QED BY DEF NamesPanels, TemplateKinds
<1>4. Mapped(ps)
  BY DEF Mapped, Catalog
<1> HIDE DEF cs, ps
<1>5. \E ds : NamesConns(cmd, cs, ds)
  <2>1. CASE cmd.kind = "AddConnection"
    <3>1. NamesConns(cmd, cs, cs \cup {cmd.cn})
      BY <2>1 DEF NamesConns, ConnectionKinds, VariableKinds, cs
    <3> QED BY <3>1
  <2>2. CASE cmd.kind = "Reimport"
    <3>1. NamesConns(cmd, cs, cs)
      BY <2>2 DEF NamesConns, ConnectionKinds, VariableKinds, cs
    <3> QED BY <3>1
  <2>3. CASE cmd.kind = "DelConnection"
    <3>1. NamesConns(cmd, cs, cs \ {cmd.cn})
      BY <2>3 DEF NamesConns, ConnectionKinds, VariableKinds, cs
    <3> QED BY <3>1
  <2>4. CASE cmd.kind = "RenameConnection"
    <3>1. NamesConns(cmd, cs, (cs \ {cmd.old}) \cup {cmd.new})
      BY <2>4 DEF NamesConns, ConnectionKinds, VariableKinds, cs
    <3> QED BY <3>1
  <2> QED BY <2>1, <2>2, <2>3, <2>4
<1> QED BY <1>2, <1>3, <1>4, <1>5, Finding DEF cs, ps

LEMMA FindsVariable ==
  ASSUME NEW cmd, "kind" \in DOMAIN cmd, cmd.kind \in VariableKinds,
         cmd.cn \in Keys(project.conns)
  PROVE  Finds(cmd)
<1> DEFINE cs == Keys(project.conns)
           ps == Catalog(project.views)
<1>1. Fits(cmd)
  BY DEF Fits, VariableKinds, ConnectionKinds, Kinds, Renames, Keepers
<1>2. Mapped(ps)
  BY DEF Mapped, Catalog
<1> HIDE DEF ps
<1>3. NamesPanels(cmd, ps, ps)
  BY DEF NamesPanels, TemplateKinds, VariableKinds
<1>4. NamesConns(cmd, cs, cs)
  BY DEF NamesConns, ConnectionKinds, VariableKinds
<1> QED BY <1>1, <1>2, <1>3, <1>4, Finding DEF ps

LEMMA FindsView ==
  ASSUME NEW cmd, "kind" \in DOMAIN cmd,
         \/ /\ cmd.kind = "AddView" /\ {"name", "view", "pos"} \subseteq DOMAIN cmd
            /\ Shelf(cmd.view) /\ cmd.name \notin Keys(project.views)
         \/ /\ cmd.kind = "DelView" /\ {"name", "view", "pos"} \subseteq DOMAIN cmd
            /\ Shelf(cmd.view) /\ cmd.name \in Keys(project.views)
            /\ cmd.view = PanelsOf(project, cmd.name)
         \/ /\ cmd.kind = "RenameView"
            /\ cmd.old \in Keys(project.views) /\ cmd.new \notin Keys(project.views)
         \/ cmd.kind = "ReorderView"
  PROVE  Finds(cmd)
<1> DEFINE cs == Keys(project.conns)
           ps == Catalog(project.views)
<1>1. Fits(cmd)
  BY DEF Fits, ConnectionKinds, Kinds, Renames, Keepers
<1>2. NamesConns(cmd, cs, cs)
  BY DEF NamesConns, ConnectionKinds, VariableKinds
<1>3. /\ DOMAIN ps = Keys(project.views) /\ ps = [w \in DOMAIN ps |-> ps[w]]
      /\ \A w \in DOMAIN ps : ps[w] = Keys(PanelsOf(project, w))
  BY DEF Catalog, PanelsOf
<1> HIDE DEF cs, ps
<1>4. \E qs : NamesPanels(cmd, ps, qs) /\ Mapped(qs)
  <2>1. CASE cmd.kind = "AddView"
    <3> DEFINE qs == [w \in DOMAIN ps \cup {cmd.name} |->
                        IF w = cmd.name THEN Keys(cmd.view) ELSE ps[w]]
    <3>1. Mapped(qs)
      BY DEF Mapped
    <3>2. NamesPanels(cmd, ps, qs)
      BY <1>3, <2>1 DEF NamesPanels, TemplateKinds
    <3> QED BY <3>1, <3>2
  <2>2. CASE cmd.kind = "DelView"
    <3> DEFINE qs == [w \in DOMAIN ps \ {cmd.name} |-> ps[w]]
    <3>1. Mapped(qs)
      BY DEF Mapped
    <3>2. NamesPanels(cmd, ps, qs)
      BY <1>3, <2>2 DEF NamesPanels, TemplateKinds
    <3> QED BY <3>1, <3>2
  <2>3. CASE cmd.kind = "RenameView"
    <3> DEFINE qs == [w \in (DOMAIN ps \ {cmd.old}) \cup {cmd.new} |->
                        ps[IF w = cmd.new THEN cmd.old ELSE w]]
    <3>1. Mapped(qs)
      BY DEF Mapped
    <3>2. NamesPanels(cmd, ps, qs)
      BY <1>3, <2>3 DEF NamesPanels, TemplateKinds
    <3> QED BY <3>1, <3>2
  <2>4. CASE cmd.kind = "ReorderView"
    <3>1. NamesPanels(cmd, ps, ps)
      BY <2>4 DEF NamesPanels, TemplateKinds
    <3> QED BY <1>3, <3>1 DEF Mapped
  <2> QED BY <2>1, <2>2, <2>3, <2>4
<1> QED BY <1>1, <1>2, <1>4, Finding DEF cs, ps

LEMMA FindsPanel ==
  ASSUME NEW cmd, {"kind", "view"} \subseteq DOMAIN cmd, cmd.view \in Keys(project.views),
         \/ /\ cmd.kind = "AddPanel"
            /\ {"name", "panel", "pos", "src"} \subseteq DOMAIN cmd
            /\ Dict(cmd.panel) /\ cmd.name \notin Keys(PanelsOf(project, cmd.view))
         \/ /\ cmd.kind = "DelPanel" /\ {"name", "panel", "pos"} \subseteq DOMAIN cmd
            /\ Dict(cmd.panel) /\ cmd.name \in Keys(PanelsOf(project, cmd.view))
         \/ /\ cmd.kind = "RenamePanel"
            /\ cmd.old \in Keys(PanelsOf(project, cmd.view))
            /\ cmd.new \notin Keys(PanelsOf(project, cmd.view))
         \/ cmd.kind = "PanelOrder"
  PROVE  Finds(cmd)
<1> DEFINE cs == Keys(project.conns)
           ps == Catalog(project.views)
<1>1. Fits(cmd)
  BY DEF Fits, ConnectionKinds, Kinds, Renames, Keepers
<1>2. NamesConns(cmd, cs, cs)
  BY DEF NamesConns, ConnectionKinds, VariableKinds
<1>3. /\ cmd.view \in DOMAIN ps /\ ps = [w \in DOMAIN ps |-> ps[w]]
      /\ ps[cmd.view] = Keys(PanelsOf(project, cmd.view))
  BY DEF Catalog, PanelsOf
<1> HIDE DEF cs, ps
<1>4. \A S : Mapped([ps EXCEPT ![cmd.view] = S])
  BY DEF Mapped
<1>5. \E qs : NamesPanels(cmd, ps, qs) /\ Mapped(qs)
  <2>1. CASE cmd.kind = "AddPanel"
    <3> DEFINE qs == [ps EXCEPT ![cmd.view] = ps[cmd.view] \cup {cmd.name}]
    <3>1. NamesPanels(cmd, ps, qs)
      BY <1>3, <2>1 DEF NamesPanels, TemplateKinds
    <3> QED BY <1>4, <3>1
  <2>2. CASE cmd.kind = "DelPanel"
    <3> DEFINE qs == [ps EXCEPT ![cmd.view] = ps[cmd.view] \ {cmd.name}]
    <3>1. NamesPanels(cmd, ps, qs)
      BY <1>3, <2>2 DEF NamesPanels, TemplateKinds
    <3> QED BY <1>4, <3>1
  <2>3. CASE cmd.kind = "RenamePanel"
    <3> DEFINE qs == [ps EXCEPT ![cmd.view] = (ps[cmd.view] \ {cmd.old}) \cup {cmd.new}]
    <3>1. NamesPanels(cmd, ps, qs)
      BY <1>3, <2>3 DEF NamesPanels, TemplateKinds
    <3> QED BY <1>4, <3>1
  <2>4. CASE cmd.kind = "PanelOrder"
    <3>1. NamesPanels(cmd, ps, ps)
      BY <1>3, <2>4 DEF NamesPanels, TemplateKinds
    <3> QED BY <1>3, <3>1 DEF Mapped
  <2> QED BY <2>1, <2>2, <2>3, <2>4
<1> QED BY <1>1, <1>2, <1>5, Finding DEF cs, ps

LEMMA FindsTemplate ==
  ASSUME NEW cmd, {"kind", "view", "panel"} \subseteq DOMAIN cmd,
         cmd.view \in Keys(project.views), cmd.panel \in Keys(PanelsOf(project, cmd.view)),
         \/ cmd.kind = "AddSelection" /\ "ts" \in DOMAIN cmd /\ Dict(cmd.ts)
         \/ /\ cmd.kind = "DelSelection" /\ {"ts", "pos"} \subseteq DOMAIN cmd
            /\ Dict(cmd.ts)
         \/ cmd.kind \in {"RenameTemplate", "TabOrder", "SetLink"}
  PROVE  Finds(cmd)
<1> DEFINE cs == Keys(project.conns)
           ps == Catalog(project.views)
<1>1. Fits(cmd)
  BY DEF Fits, ConnectionKinds, Kinds, Renames, Keepers
<1>2. NamesConns(cmd, cs, cs)
  BY DEF NamesConns, ConnectionKinds, VariableKinds
<1>3. /\ cmd.view \in DOMAIN ps /\ Mapped(ps)
      /\ ps[cmd.view] = Keys(PanelsOf(project, cmd.view))
  BY DEF Catalog, PanelsOf, Mapped
<1> HIDE DEF cs, ps
<1>4. NamesPanels(cmd, ps, ps)
  BY <1>3 DEF NamesPanels, TemplateKinds
<1> QED BY <1>1, <1>2, <1>3, <1>4, Finding DEF cs, ps

LEMMA FindsBinding ==
  ASSUME NEW cmd, "kind" \in DOMAIN cmd, cmd.kind = "ChangeBinding"
  PROVE  Finds(cmd)
<1> DEFINE cs == Keys(project.conns)
           ps == Catalog(project.views)
<1>1. Fits(cmd)
  BY DEF Fits, ConnectionKinds, Kinds, Renames, Keepers
<1>2. NamesConns(cmd, cs, cs)
  BY DEF NamesConns, ConnectionKinds, VariableKinds
<1>3. Mapped(ps)
  BY DEF Catalog, Mapped
<1> HIDE DEF cs, ps
<1>4. NamesPanels(cmd, ps, ps)
  BY <1>3 DEF NamesPanels, TemplateKinds
<1> QED BY <1>1, <1>2, <1>3, <1>4, Finding DEF cs, ps

-----------------------------------------------------------------------------
(***************************************************************************)
(* There and back: what each command does.                                 *)
(***************************************************************************)
LEMMA DoesIs ==
  ASSUME NEW cmd, NEW s, NEW t
  PROVE  /\ cmd.kind \in ConnectionKinds =>
              (Does(cmd, s, t) <=> t.views = s.views /\ DoesConnection(cmd, s, t))
         /\ cmd.kind \in VariableKinds =>
              (Does(cmd, s, t) <=>
                 /\ InVariables(cmd.cn, s, t)
                 /\ DoesVariable(cmd, VarsOf(s, cmd.cn), VarsOf(t, cmd.cn)))
         /\ cmd.kind \in ViewKinds =>
              (Does(cmd, s, t) <=> t.conns = s.conns /\ DoesView(cmd, s, t))
         /\ cmd.kind \in PanelKinds =>
              (Does(cmd, s, t) <=>
                 /\ InPanels(cmd.view, s, t)
                 /\ DoesPanel(cmd, PanelsOf(s, cmd.view), PanelsOf(t, cmd.view)))
         /\ cmd.kind \in TemplateKinds =>
              (Does(cmd, s, t) <=>
                 /\ InTemplates(cmd.view, cmd.panel, s, t)
                 /\ DoesTemplate(cmd, TemplatesOf(s, cmd.view, cmd.panel),
                                      TemplatesOf(t, cmd.view, cmd.panel)))
         /\ cmd.kind = "ChangeBinding" =>
              (Does(cmd, s, t) <=> t.views = s.views /\ t.conns = s.conns)
<1>1. /\ cmd.kind \in ConnectionKinds =>
           cmd.kind \notin VariableKinds \cup ViewKinds \cup PanelKinds \cup TemplateKinds
             \cup {"ChangeBinding"}
      /\ cmd.kind \in VariableKinds =>
           cmd.kind \notin ConnectionKinds \cup ViewKinds \cup PanelKinds
             \cup TemplateKinds \cup {"ChangeBinding"}
      /\ cmd.kind \in ViewKinds =>
           cmd.kind \notin ConnectionKinds \cup VariableKinds \cup PanelKinds
             \cup TemplateKinds \cup {"ChangeBinding"}
      /\ cmd.kind \in PanelKinds =>
           cmd.kind \notin ConnectionKinds \cup VariableKinds \cup ViewKinds
             \cup TemplateKinds \cup {"ChangeBinding"}
      /\ cmd.kind \in TemplateKinds =>
           cmd.kind \notin ConnectionKinds \cup VariableKinds \cup ViewKinds
             \cup PanelKinds \cup {"ChangeBinding"}
  BY DEF ConnectionKinds, VariableKinds, ViewKinds, PanelKinds, TemplateKinds
<1> QED BY <1>1 DEF Does, InConnections, InViews

-----------------------------------------------------------------------------
(***************************************************************************)
(* What one step does to a dictionary, the other undoes.                   *)
(***************************************************************************)
LEMMA AddsBack ==
  ASSUME NEW d, Dict(d), NEW k, NEW v, NEW pos, NEW e, Adds(k, v, pos, d, e)
  PROVE  /\ Taking(d, k, v, e) /\ k \in Keys(e) /\ At(e, k) = v /\ Drop(e, k) = d
         /\ pos = 0 => e = Put(d, k, v) /\ e = AddNew(d, k, v)
         /\ pos # 0 => e = MoveTo(AddNew(d, k, v), k, pos)
<1>1. k \notin Keys(d) /\ e = IF pos = 0 THEN Put(d, k, v) ELSE MoveTo(Put(d, k, v), k, pos)
  BY DEF Adds
<1>2. AddNew(d, k, v) = Put(d, k, v) /\ Taking(d, k, v, Put(d, k, v))
  BY <1>1, AddsTakes
<1>3. \A i : Taking(d, k, v, MoveTo(Put(d, k, v), k, i))
  BY <1>1, AddsTakes
<1>4. Taking(d, k, v, e)
  BY <1>1, <1>2, <1>3
<1>5. k \in Keys(e) /\ At(e, k) = v /\ Drop(e, k) = d
  BY <1>4 DEF Taking
<1> QED BY <1>1, <1>2, <1>4, <1>5

LEMMA DropsBack ==
  ASSUME NEW d, Dict(d), NEW k, NEW v, NEW pos, NEW e, Drops(k, v, pos, d, e)
  PROVE  /\ k \in Keys(d) /\ At(d, k) = v /\ e = Drop(d, k)
         /\ MoveTo(AddNew(e, k, v), k, pos) = d /\ MoveTo(Put(e, k, v), k, pos) = d
<1>1. k \in Keys(d) /\ v = At(d, k) /\ pos = IndexOf(d, k) /\ e = Drop(d, k)
  BY DEF Drops
<1> QED BY <1>1, PutBack

LEMMA RekeysBack ==
  ASSUME NEW d, Dict(d), NEW o, NEW n, NEW e, Rekeys(o, n, d, e)
  PROVE  /\ e = PutAt(Drop(d, o), n, At(d, o), IndexOf(d, o))
         /\ e = MoveTo(AddNew(Drop(d, o), n, At(d, o)), n, IndexOf(d, o))
         /\ Rekeys(n, o, e, d) /\ IndexOf(e, n) = IndexOf(d, o) /\ Dict(e)
         /\ d = PutAt(Drop(e, n), o, At(e, n), IndexOf(e, n))
         /\ d = MoveTo(AddNew(Drop(e, n), o, At(e, n)), o, IndexOf(e, n))
<1>1. o \in Keys(d) /\ n \notin Keys(d) /\ e = Rekeyed(d, o, n)
  BY DEF Rekeys
<1>2. /\ Dict(e) /\ Keys(e) = (Keys(d) \ {o}) \cup {n} /\ IndexOf(e, n) = IndexOf(d, o)
      /\ PutAt(Drop(d, o), n, At(d, o), IndexOf(d, o)) = e
      /\ MoveTo(AddNew(Drop(d, o), n, At(d, o)), n, IndexOf(d, o)) = e
      /\ Rekeyed(e, n, o) = d
  BY <1>1, RekeyedIs
<1>3. n \in Keys(e) /\ o \notin Keys(e)
  BY <1>1, <1>2
<1>4. /\ PutAt(Drop(e, n), o, At(e, n), IndexOf(e, n)) = d
      /\ MoveTo(AddNew(Drop(e, n), o, At(e, n)), o, IndexOf(e, n)) = d
  BY <1>2, <1>3, RekeyedIs
<1>5. Rekeys(n, o, e, d)
  BY <1>2, <1>3 DEF Rekeys
<1> QED BY <1>2, <1>4, <1>5

-----------------------------------------------------------------------------
(***************************************************************************)
(* What each command does, done again and undone.                          *)
(***************************************************************************)
\* From s the result r leads to t; from t, back to s.  Its command still leads
\* from s to t.
There(r, s, t) == Has(r.prj, t.conns, t.views) /\ Does(r.cmd, s, t)
Back(r, s, t)  == Has(r.prj, s.conns, s.views) /\ Does(r.cmd, s, t)

BothWays(redo, undo, prj, s, t) ==
  /\ Has(prj, s.conns, s.views) => There(redo, s, t)
  /\ Has(prj, t.conns, t.views) => Back(undo, s, t)

LEMMA ThereIs ==
  ASSUME NEW s, NEW t, NEW r, NEW c, NEW cs, NEW vs, Makes(r, c, cs, vs), Does(c, s, t)
  PROVE  /\ cs = t.conns /\ vs = t.views => There(r, s, t)
         /\ cs = s.conns /\ vs = s.views => Back(r, s, t)
BY DEF Makes, There, Back

\* A command of a connection, with what it keeps looked up again.
LEMMA ConnectionAgain ==
  ASSUME NEW cmd, cmd.kind \in {"AddConnection", "Reimport"}, Fits(cmd),
         NEW s, NEW t, Does(cmd, s, t), NEW next,
         \/ next = [cmd EXCEPT !.c = cmd.c]
         \/ cmd.kind = "Reimport" /\ next = [cmd EXCEPT !.old = cmd.old]
  PROVE  Does(next, s, t)
<1>1. cmd.kind \in ConnectionKinds /\ cmd.kind \in ConnectionKinds \ {"RenameConnection"}
  BY DEF ConnectionKinds
<1>2. t.views = s.views /\ DoesConnection(cmd, s, t)
  BY <1>1, DoesIs
<1>3. {"kind", "cn", "c"} \subseteq DOMAIN cmd
      /\ (cmd.kind = "Reimport" => {"old", "pos"} \subseteq DOMAIN cmd)
  BY <1>1 DEF Fits
<1>4. /\ next.kind = cmd.kind /\ next.cn = cmd.cn /\ next.c = cmd.c
      /\ cmd.kind = "Reimport" => next.old = cmd.old /\ next.pos = cmd.pos
  BY <1>3
<1>5. DoesConnection(next, s, t)
  BY <1>2, <1>4 DEF DoesConnection
<1> QED BY <1>1, <1>2, <1>4, <1>5, DoesIs

LEMMA AddConnectionBoth ==
  ASSUME NEW cmd, cmd.kind = "AddConnection", Fits(cmd),
         NEW s, NEW t, Typed(s), Does(cmd, s, t), NEW prj
  PROVE  BothWays(RedoAddConnection(cmd, prj), UndoAddConnection(cmd, prj), prj, s, t)
<1> DEFINE d == s.conns
           e == t.conns
           next == [cmd EXCEPT !.c = At(e, cmd.cn)]
<1>1. t.views = s.views /\ Adds(cmd.cn, cmd.c, 0, d, e)
  BY DoesIs DEF DoesConnection, ConnectionKinds
<1>2. Dict(d)
  BY DEF Typed, ConnsTyped
<1>3. At(e, cmd.cn) = cmd.c /\ Drop(e, cmd.cn) = d /\ e = AddNew(d, cmd.cn, cmd.c)
  BY <1>1, <1>2, AddsBack
<1>4. next = [cmd EXCEPT !.c = cmd.c]
  BY <1>3
<1> HIDE DEF next
<1>5. Does(next, s, t)
  BY <1>4, ConnectionAgain
<1>6. ASSUME Has(prj, s.conns, s.views)
      PROVE  There(RedoAddConnection(cmd, prj), s, t)
  <2>1. Makes(RedoAddConnection(cmd, prj), cmd, AddNew(d, cmd.cn, cmd.c), s.views)
    BY <1>6, ConnectionMakes
  <2> QED BY <1>1, <1>3, <2>1, ThereIs
<1>7. ASSUME Has(prj, t.conns, t.views)
      PROVE  Back(UndoAddConnection(cmd, prj), s, t)
  <2>1. Makes(UndoAddConnection(cmd, prj), next, Drop(e, cmd.cn), t.views)
    BY <1>7, ConnectionMakes DEF next
  <2> QED BY <1>1, <1>3, <1>5, <2>1, ThereIs
<1> QED BY <1>6, <1>7 DEF BothWays

LEMMA ReimportBoth ==
  ASSUME NEW cmd, cmd.kind = "Reimport", Fits(cmd),
         NEW s, NEW t, Typed(s), Does(cmd, s, t), NEW prj
  PROVE  BothWays(RedoReimport(cmd, prj), UndoReimport(cmd, prj), prj, s, t)
<1> DEFINE d == s.conns
           e == t.conns
           f == Drop(d, cmd.cn)
           redo == [cmd EXCEPT !.old = At(d, cmd.cn)]
           undo == [cmd EXCEPT !.c = At(e, cmd.cn)]
<1>1. t.views = s.views
      /\ cmd.cn \in Keys(d) /\ cmd.old = At(d, cmd.cn) /\ cmd.pos = IndexOf(d, cmd.cn)
      /\ e = Put(f, cmd.cn, cmd.c)
  BY DoesIs DEF DoesConnection, ConnectionKinds
<1>2. Dict(d)
  BY DEF Typed, ConnsTyped
<1>3. MoveTo(Put(f, cmd.cn, cmd.old), cmd.cn, cmd.pos) = d /\ Dict(f) /\ cmd.cn \notin Keys(f)
  BY <1>1, <1>2, PutBack, DropIs
<1>4. At(e, cmd.cn) = cmd.c /\ Drop(e, cmd.cn) = f
  <2> HIDE DEF f
  <2>1. Taking(f, cmd.cn, cmd.c, Put(f, cmd.cn, cmd.c))
    BY <1>3, AddsTakes
  <2> QED BY <1>1, <2>1 DEF Taking
<1>5. redo = [cmd EXCEPT !.old = cmd.old] /\ undo = [cmd EXCEPT !.c = cmd.c]
  BY <1>1, <1>4
<1> HIDE DEF redo, undo
<1>6. Does(redo, s, t) /\ Does(undo, s, t)
  BY <1>5, ConnectionAgain
<1>7. ASSUME Has(prj, s.conns, s.views)
      PROVE  There(RedoReimport(cmd, prj), s, t)
  <2>1. Makes(RedoReimport(cmd, prj), redo, Put(f, cmd.cn, cmd.c), s.views)
    BY <1>7, ConnectionMakes DEF redo
  <2> QED BY <1>1, <1>6, <2>1, ThereIs
<1>8. ASSUME Has(prj, t.conns, t.views)
      PROVE  Back(UndoReimport(cmd, prj), s, t)
  <2>1. Makes(UndoReimport(cmd, prj), undo,
              MoveTo(Put(Drop(e, cmd.cn), cmd.cn, cmd.old), cmd.cn, cmd.pos), t.views)
    BY <1>8, ConnectionMakes DEF undo
  <2> QED BY <1>1, <1>3, <1>4, <1>6, <2>1, ThereIs
<1> QED BY <1>7, <1>8 DEF BothWays

LEMMA DelConnectionBoth ==
  ASSUME NEW cmd, cmd.kind = "DelConnection",
         NEW s, NEW t, Typed(s), Does(cmd, s, t), NEW prj
  PROVE  BothWays(RedoDelConnection(cmd, prj), UndoDelConnection(cmd, prj), prj, s, t)
<1> DEFINE d == s.conns
           e == t.conns
<1>1. t.views = s.views /\ Drops(cmd.cn, cmd.c, cmd.pos, d, e)
  BY DoesIs DEF DoesConnection, ConnectionKinds
<1>2. Dict(d)
  BY DEF Typed, ConnsTyped
<1>3. e = Drop(d, cmd.cn) /\ MoveTo(AddNew(e, cmd.cn, cmd.c), cmd.cn, cmd.pos) = d
  BY <1>1, <1>2, DropsBack
<1>4. ASSUME Has(prj, s.conns, s.views)
      PROVE  There(RedoDelConnection(cmd, prj), s, t)
  <2>1. Makes(RedoDelConnection(cmd, prj), cmd, Drop(d, cmd.cn), s.views)
    BY <1>4, ConnectionMakes
  <2> QED BY <1>1, <1>3, <2>1, ThereIs
<1>5. ASSUME Has(prj, t.conns, t.views)
      PROVE  Back(UndoDelConnection(cmd, prj), s, t)
  <2>1. Makes(UndoDelConnection(cmd, prj), cmd,
              MoveTo(AddNew(e, cmd.cn, cmd.c), cmd.cn, cmd.pos), t.views)
    BY <1>5, ConnectionMakes
  <2> QED BY <1>1, <1>3, <2>1, ThereIs
<1> QED BY <1>4, <1>5 DEF BothWays

LEMMA RenameConnectionBoth ==
  ASSUME NEW cmd, cmd.kind = "RenameConnection",
         NEW s, NEW t, Typed(s), Does(cmd, s, t), NEW prj
  PROVE  BothWays(ConnectionRenamed(cmd, prj, cmd.old, cmd.new),
              ConnectionRenamed(cmd, prj, cmd.new, cmd.old), prj, s, t)
<1> DEFINE d == s.conns
           e == t.conns
<1>1. t.views = s.views /\ Rekeys(cmd.old, cmd.new, d, e)
  BY DoesIs DEF DoesConnection, ConnectionKinds
<1>2. Dict(d)
  BY DEF Typed, ConnsTyped
<1>3. /\ e = PutAt(Drop(d, cmd.old), cmd.new, At(d, cmd.old), IndexOf(d, cmd.old))
      /\ d = PutAt(Drop(e, cmd.new), cmd.old, At(e, cmd.new), IndexOf(e, cmd.new))
  BY <1>1, <1>2, RekeysBack
<1>4. ASSUME Has(prj, s.conns, s.views)
      PROVE  There(ConnectionRenamed(cmd, prj, cmd.old, cmd.new), s, t)
  <2>1. Makes(ConnectionRenamed(cmd, prj, cmd.old, cmd.new), cmd,
              PutAt(Drop(d, cmd.old), cmd.new, At(d, cmd.old), IndexOf(d, cmd.old)),
              s.views)
    BY <1>4, ConnectionMakes
  <2> QED BY <1>1, <1>3, <2>1, ThereIs
<1>5. ASSUME Has(prj, t.conns, t.views)
      PROVE  Back(ConnectionRenamed(cmd, prj, cmd.new, cmd.old), s, t)
  <2>1. Makes(ConnectionRenamed(cmd, prj, cmd.new, cmd.old), cmd,
              PutAt(Drop(e, cmd.new), cmd.old, At(e, cmd.new), IndexOf(e, cmd.new)),
              t.views)
    BY <1>5, ConnectionMakes
  <2> QED BY <1>1, <1>3, <2>1, ThereIs
<1> QED BY <1>4, <1>5 DEF BothWays

-----------------------------------------------------------------------------
\* Variables: all that changes is the dictionary of one connection.
LEMMA VariablesMove ==
  ASSUME NEW s, NEW t, Typed(s), NEW c, InVariables(c, s, t), Dict(VarsOf(t, c))
  PROVE  /\ VarsPut(s.conns, c, VarsOf(t, c)) = t.conns
         /\ VarsPut(t.conns, c, VarsOf(s, c)) = s.conns
<1> DEFINE d == VarsOf(s, c)
           e == VarsOf(t, c)
<1>1. c \in Keys(s.conns) /\ t.conns = VarsPut(s.conns, c, e)
  BY DEF InVariables, VarsPut
<1>2. ConnsTyped(s.conns) /\ d = At(s.conns, c).vars
  BY DEF Typed, VarsOf
<1> HIDE DEF d, e
<1>3. /\ VarsPut(VarsPut(s.conns, c, e), c, d) = VarsPut(s.conns, c, d)
      /\ VarsPut(s.conns, c, d) = s.conns
  BY <1>1, <1>2, VarsPutIs DEF e
<1> QED BY <1>1, <1>3 DEF d, e

LEMMA HasVariables ==
  ASSUME NEW s, NEW t, Typed(s), NEW c, InVariables(c, s, t)
  PROVE  Dict(VarsOf(s, c))
BY DEF Typed, ConnsTyped, Connection, InVariables, VarsOf

LEMMA VariableBoth ==
  ASSUME NEW cmd, cmd.kind \in VariableKinds,
         NEW s, NEW t, Typed(s), Does(cmd, s, t),
         NEW d, d = VarsOf(s, cmd.cn), NEW e, e = VarsOf(t, cmd.cn), Dict(e),
         NEW prj, NEW redo, NEW undo,
         Has(prj, s.conns, s.views) =>
           Makes(redo, cmd, VarsPut(s.conns, cmd.cn, e), s.views),
         Has(prj, t.conns, t.views) =>
           Makes(undo, cmd, VarsPut(t.conns, cmd.cn, d), t.views)
  PROVE  BothWays(redo, undo, prj, s, t)
<1>1. InVariables(cmd.cn, s, t) /\ t.views = s.views
  BY DoesIs DEF InVariables, InConnections
<1>2. VarsPut(s.conns, cmd.cn, e) = t.conns /\ VarsPut(t.conns, cmd.cn, d) = s.conns
  BY <1>1, VariablesMove
<1> QED BY <1>1, <1>2, ThereIs DEF BothWays

LEMMA VariablesBoth ==
  ASSUME NEW cmd, cmd.kind \in VariableKinds,
         NEW s, NEW t, Typed(s), Does(cmd, s, t), NEW prj
  PROVE  /\ cmd.kind = "AddVariable" =>
              BothWays(RedoAddVariable(cmd, prj), UndoAddVariable(cmd, prj), prj, s, t)
         /\ cmd.kind = "DelVariable" =>
              BothWays(RedoDelVariable(cmd, prj), UndoDelVariable(cmd, prj), prj, s, t)
         /\ cmd.kind = "RenameVariable" =>
              BothWays(VariableRenamed(cmd, prj, cmd.old, cmd.new),
                       VariableRenamed(cmd, prj, cmd.new, cmd.old), prj, s, t)
<1> DEFINE d == VarsOf(s, cmd.cn)
           e == VarsOf(t, cmd.cn)
<1>1. InVariables(cmd.cn, s, t) /\ DoesVariable(cmd, d, e)
  BY DoesIs
<1>2. Dict(d)
  BY <1>1, HasVariables
<1>3. d = At(s.conns, cmd.cn).vars /\ e = At(t.conns, cmd.cn).vars
  BY DEF VarsOf
<1>4. d = VarsOf(s, cmd.cn) /\ e = VarsOf(t, cmd.cn)
  OBVIOUS
<1> HIDE DEF d, e
<1>5. ASSUME cmd.kind = "AddVariable"
      PROVE  BothWays(RedoAddVariable(cmd, prj), UndoAddVariable(cmd, prj), prj, s, t)
  <2>1. Adds(cmd.vn, cmd.vt, 0, d, e)
    BY <1>1, <1>5 DEF DoesVariable
  <2>2. Dict(e) /\ e = Put(d, cmd.vn, cmd.vt) /\ Drop(e, cmd.vn) = d
    BY <1>2, <2>1, AddsBack DEF Taking
  <2>3. Has(prj, s.conns, s.views) =>
          Makes(RedoAddVariable(cmd, prj), cmd, VarsPut(s.conns, cmd.cn, e), s.views)
    BY <1>3, <2>2, VariableMakes, ZenonT(40)
  <2>4. Has(prj, t.conns, t.views) =>
          Makes(UndoAddVariable(cmd, prj), cmd, VarsPut(t.conns, cmd.cn, d), t.views)
    BY <1>3, <2>2, VariableMakes, ZenonT(40)
  <2> QED BY <1>4, <2>2, <2>3, <2>4, VariableBoth
<1>6. ASSUME cmd.kind = "DelVariable"
      PROVE  BothWays(RedoDelVariable(cmd, prj), UndoDelVariable(cmd, prj), prj, s, t)
  <2>1. Drops(cmd.vn, cmd.vt, cmd.pos, d, e)
    BY <1>1, <1>6 DEF DoesVariable
  <2>2. cmd.vn \in Keys(d) /\ e = Drop(d, cmd.vn)
        /\ MoveTo(Put(e, cmd.vn, cmd.vt), cmd.vn, cmd.pos) = d
    BY <1>2, <2>1, DropsBack
  <2>3. Dict(e)
    BY <1>2, <2>2, DropIs
  <2>4. Has(prj, s.conns, s.views) =>
          Makes(RedoDelVariable(cmd, prj), cmd, VarsPut(s.conns, cmd.cn, e), s.views)
    BY <1>3, <2>2, VariableMakes, ZenonT(40)
  <2>5. Has(prj, t.conns, t.views) =>
          Makes(UndoDelVariable(cmd, prj), cmd, VarsPut(t.conns, cmd.cn, d), t.views)
    BY <1>3, <2>2, VariableMakes, ZenonT(40)
  <2> QED BY <1>4, <2>3, <2>4, <2>5, VariableBoth
<1>7. ASSUME cmd.kind = "RenameVariable"
      PROVE  BothWays(VariableRenamed(cmd, prj, cmd.old, cmd.new),
                      VariableRenamed(cmd, prj, cmd.new, cmd.old), prj, s, t)
  <2>1. Rekeys(cmd.old, cmd.new, d, e)
    BY <1>1, <1>7 DEF DoesVariable
  <2> DEFINE o == cmd.old
             n == cmd.new
  <2>5. Rekeys(o, n, d, e)
    BY <2>1
  <2> HIDE DEF o, n
  <2>6. /\ e = PutAt(Drop(d, o), n, At(d, o), IndexOf(d, o))
        /\ d = PutAt(Drop(e, n), o, At(e, n), IndexOf(e, n))
        /\ Dict(e)
    BY <1>2, <2>5, RekeysBack
  <2>2. /\ e = PutAt(Drop(d, cmd.old), cmd.new, At(d, cmd.old), IndexOf(d, cmd.old))
        /\ d = PutAt(Drop(e, cmd.new), cmd.old, At(e, cmd.new), IndexOf(e, cmd.new))
        /\ Dict(e)
    BY <2>6 DEF o, n
  <2>3. Has(prj, s.conns, s.views) =>
          Makes(VariableRenamed(cmd, prj, cmd.old, cmd.new), cmd,
                VarsPut(s.conns, cmd.cn, e), s.views)
    BY <1>3, <2>2, VariableMakes, ZenonT(40)
  <2>4. Has(prj, t.conns, t.views) =>
          Makes(VariableRenamed(cmd, prj, cmd.new, cmd.old), cmd,
                VarsPut(t.conns, cmd.cn, d), t.views)
    BY <1>3, <2>2, VariableMakes, ZenonT(40)
  <2> QED BY <1>4, <2>2, <2>3, <2>4, VariableBoth
<1> QED BY <1>5, <1>6, <1>7

-----------------------------------------------------------------------------
\* Views.
\* The command with the view it keeps looked up again.
ViewShown(cmd, next) ==
  \/ next = [cmd EXCEPT !.view = cmd.view]
  \/ next = [cmd EXCEPT !.view = cmd.view, !.bl = {}]

LEMMA ViewAgain ==
  ASSUME NEW cmd, cmd.kind \in {"AddView", "DelView"}, Fits(cmd),
         NEW s, NEW t, Does(cmd, s, t), NEW next, ViewShown(cmd, next)
  PROVE  Does(next, s, t)
<1>1. cmd.kind \in ViewKinds
  BY DEF ViewKinds
<1>2. t.conns = s.conns /\ DoesView(cmd, s, t)
  BY <1>1, DoesIs
<1>3. {"kind", "name", "view", "pos"} \subseteq DOMAIN cmd
  BY DEF Fits
<1>4. /\ next.kind = cmd.kind /\ next.name = cmd.name /\ next.view = cmd.view
      /\ next.pos = cmd.pos
  BY <1>3 DEF ViewShown
<1>5. DoesView(next, s, t)
  BY <1>2, <1>4 DEF DoesView
<1> QED BY <1>1, <1>2, <1>4, <1>5, DoesIs

LEMMA AddViewBoth ==
  ASSUME NEW cmd, cmd.kind = "AddView", Fits(cmd),
         NEW s, NEW t, Typed(s), Does(cmd, s, t), NEW prj
  PROVE  BothWays(RedoAddView(cmd, prj), UndoAddView(cmd, prj), prj, s, t)
<1> DEFINE d == s.views
           e == t.views
           next == [cmd EXCEPT !.view = At(e, cmd.name)]
<1>1. t.conns = s.conns /\ Adds(cmd.name, cmd.view, cmd.pos, d, e)
  BY DoesIs DEF DoesView, ViewKinds
<1>2. Dict(d)
  BY DEF Typed, ViewsTyped
<1>3. /\ At(e, cmd.name) = cmd.view /\ Drop(e, cmd.name) = d
      /\ e = IF cmd.pos = 0 THEN AddNew(d, cmd.name, cmd.view)
             ELSE MoveTo(AddNew(d, cmd.name, cmd.view), cmd.name, cmd.pos)
  BY <1>1, <1>2, AddsBack
<1>4. ViewShown(cmd, next)
  BY <1>3 DEF ViewShown
<1> HIDE DEF next
<1>5. Does(next, s, t)
  BY <1>4, ViewAgain
<1>6. ASSUME Has(prj, s.conns, s.views)
      PROVE  There(RedoAddView(cmd, prj), s, t)
  <2>1. Makes(RedoAddView(cmd, prj), cmd, s.conns, e)
    BY <1>3, <1>6, ViewMakes
  <2> QED BY <1>1, <2>1, ThereIs
<1>7. ASSUME Has(prj, t.conns, t.views)
      PROVE  Back(UndoAddView(cmd, prj), s, t)
  <2>1. Makes(UndoAddView(cmd, prj), next, t.conns, d)
    BY <1>3, <1>7, ViewMakes DEF next
  <2> QED BY <1>1, <1>5, <2>1, ThereIs
<1> QED BY <1>6, <1>7 DEF BothWays

LEMMA DelViewBoth ==
  ASSUME NEW cmd, cmd.kind = "DelView", Fits(cmd),
         NEW s, NEW t, Typed(s), Does(cmd, s, t), NEW prj
  PROVE  BothWays(RedoDelView(cmd, prj), UndoDelView(cmd, prj), prj, s, t)
<1> DEFINE d == s.views
           e == t.views
           next == [cmd EXCEPT !.view = At(d, cmd.name), !.bl = {}]
<1>1. t.conns = s.conns /\ Drops(cmd.name, cmd.view, cmd.pos, d, e)
  BY DoesIs DEF DoesView, ViewKinds
<1>2. Dict(d)
  BY DEF Typed, ViewsTyped
<1>3. /\ At(d, cmd.name) = cmd.view /\ e = Drop(d, cmd.name)
      /\ d = MoveTo(AddNew(e, cmd.name, cmd.view), cmd.name, cmd.pos)
  BY <1>1, <1>2, DropsBack
<1>4. ViewShown(cmd, next)
  BY <1>3 DEF ViewShown
<1> HIDE DEF next
<1>5. Does(next, s, t)
  BY <1>4, ViewAgain
<1>6. ASSUME Has(prj, s.conns, s.views)
      PROVE  There(RedoDelView(cmd, prj), s, t)
  <2>1. Makes(RedoDelView(cmd, prj), next, s.conns, e)
    BY <1>3, <1>6, ViewMakes DEF next
  <2> QED BY <1>1, <1>5, <2>1, ThereIs
<1>7. ASSUME Has(prj, t.conns, t.views)
      PROVE  Back(UndoDelView(cmd, prj), s, t)
  <2>1. Makes(UndoDelView(cmd, prj), cmd, t.conns, d)
    BY <1>3, <1>7, ViewMakes
  <2> QED BY <1>1, <2>1, ThereIs
<1> QED BY <1>6, <1>7 DEF BothWays

LEMMA RenameViewBoth ==
  ASSUME NEW cmd, cmd.kind = "RenameView",
         NEW s, NEW t, Typed(s), Does(cmd, s, t), NEW prj
  PROVE  BothWays(ViewRenamed(cmd, prj, cmd.old, cmd.new),
                  ViewRenamed(cmd, prj, cmd.new, cmd.old), prj, s, t)
<1> DEFINE d == s.views
           e == t.views
<1>1. t.conns = s.conns /\ cmd.pos = IndexOf(d, cmd.old) /\ Rekeys(cmd.old, cmd.new, d, e)
  BY DoesIs DEF DoesView, ViewKinds
<1>2. Dict(d)
  BY DEF Typed, ViewsTyped
<1>3. /\ e = MoveTo(AddNew(Drop(d, cmd.old), cmd.new, At(d, cmd.old)), cmd.new, cmd.pos)
      /\ d = MoveTo(AddNew(Drop(e, cmd.new), cmd.old, At(e, cmd.new)), cmd.old, cmd.pos)
  BY <1>1, <1>2, RekeysBack
<1>4. ASSUME Has(prj, s.conns, s.views)
      PROVE  There(ViewRenamed(cmd, prj, cmd.old, cmd.new), s, t)
  <2>1. Makes(ViewRenamed(cmd, prj, cmd.old, cmd.new), cmd, s.conns, e)
    BY <1>3, <1>4, ViewMakes
  <2> QED BY <1>1, <2>1, ThereIs
<1>5. ASSUME Has(prj, t.conns, t.views)
      PROVE  Back(ViewRenamed(cmd, prj, cmd.new, cmd.old), s, t)
  <2>1. Makes(ViewRenamed(cmd, prj, cmd.new, cmd.old), cmd, t.conns, d)
    BY <1>3, <1>5, ViewMakes
  <2> QED BY <1>1, <2>1, ThereIs
<1> QED BY <1>4, <1>5 DEF BothWays

LEMMA ReorderViewBoth ==
  ASSUME NEW cmd, cmd.kind = "ReorderView",
         NEW s, NEW t, Typed(s), Does(cmd, s, t), NEW prj
  PROVE  BothWays(ViewMoved(cmd, prj, cmd.from, cmd.to),
                  ViewMoved(cmd, prj, cmd.to, cmd.from), prj, s, t)
<1> DEFINE d == s.views
           e == t.views
<1>1. t.conns = s.conns /\ cmd.from \in DOMAIN d /\ cmd.to \in DOMAIN d
      /\ e = MoveTo(d, d[cmd.from].key, cmd.to)
  BY DoesIs DEF DoesView, ViewKinds
<1>2. Dict(d)
  BY DEF Typed, ViewsTyped
<1>3. MoveTo(e, e[cmd.to].key, cmd.from) = d
  BY <1>1, <1>2, MoveBack
<1>4. ASSUME Has(prj, s.conns, s.views)
      PROVE  There(ViewMoved(cmd, prj, cmd.from, cmd.to), s, t)
  <2>1. Makes(ViewMoved(cmd, prj, cmd.from, cmd.to), cmd, s.conns, e)
    BY <1>1, <1>4, ViewMakes
  <2> QED BY <1>1, <2>1, ThereIs
<1>5. ASSUME Has(prj, t.conns, t.views)
      PROVE  Back(ViewMoved(cmd, prj, cmd.to, cmd.from), s, t)
  <2>1. Makes(ViewMoved(cmd, prj, cmd.to, cmd.from), cmd, t.conns, d)
    BY <1>3, <1>5, ViewMakes
  <2> QED BY <1>1, <2>1, ThereIs
<1> QED BY <1>4, <1>5 DEF BothWays

-----------------------------------------------------------------------------
\* Panels: all that changes is the dictionary of one view.
LEMMA PanelsMove ==
  ASSUME NEW s, NEW t, Typed(s), NEW w, InPanels(w, s, t)
  PROVE  /\ t.conns = s.conns /\ Shelf(PanelsOf(s, w)) /\ w \in Keys(s.views)
         /\ With(s.views, w, PanelsOf(t, w)) = t.views
         /\ With(t.views, w, PanelsOf(s, w)) = s.views
<1> DEFINE vs == s.views
           d == PanelsOf(s, w)
           e == PanelsOf(t, w)
<1>1. t.conns = s.conns /\ w \in Keys(vs) /\ t.views = With(vs, w, e)
  BY DEF InPanels, InViews
<1>2. ViewsTyped(vs) /\ d = At(vs, w)
  BY DEF Typed, PanelsOf
<1> HIDE DEF vs, d, e
<1>3. Dict(vs) /\ Shelf(d)
  BY <1>1, <1>2 DEF ViewsTyped
<1>4. With(With(vs, w, e), w, d) = With(vs, w, d) /\ With(vs, w, d) = vs
  BY <1>1, <1>2, <1>3, WithIs
<1> QED BY <1>1, <1>3, <1>4 DEF vs, d, e

LEMMA PanelBoth ==
  ASSUME NEW w, NEW s, NEW t, Typed(s), InPanels(w, s, t),
         NEW b, NEW c, Does(b, s, t), Does(c, s, t),
         NEW prj, NEW redo, NEW undo,
         Has(prj, s.conns, s.views) =>
           Makes(redo, b, s.conns, With(s.views, w, PanelsOf(t, w))),
         Has(prj, t.conns, t.views) =>
           Makes(undo, c, t.conns, With(t.views, w, PanelsOf(s, w)))
  PROVE  BothWays(redo, undo, prj, s, t)
<1>1. /\ t.conns = s.conns
      /\ With(s.views, w, PanelsOf(t, w)) = t.views
      /\ With(t.views, w, PanelsOf(s, w)) = s.views
  BY PanelsMove
<1> QED BY <1>1, ThereIs DEF BothWays

\* The command with the panel it keeps looked up again; that of a copy has its
\* links changed by now.
LEMMA PanelAgain ==
  ASSUME NEW cmd, cmd.kind \in {"AddPanel", "DelPanel"}, Fits(cmd),
         NEW s, NEW t, Does(cmd, s, t), NEW v, NEW next, Showing(cmd, v, next),
         \/ v = cmd.panel
         \/ /\ cmd.kind = "AddPanel" /\ cmd.src # None
            /\ v = Relinked(cmd.panel, cmd.src, cmd.name)
  PROVE  Does(next, s, t)
<1>1. cmd.kind \in PanelKinds
  BY DEF PanelKinds
<1> DEFINE d == PanelsOf(s, cmd.view)
           e == PanelsOf(t, cmd.view)
<1>2. InPanels(cmd.view, s, t) /\ DoesPanel(cmd, d, e)
  BY <1>1, DoesIs
<1>3. {"kind", "view", "name", "panel", "pos"} \subseteq DOMAIN cmd /\ Dict(cmd.panel)
      /\ (cmd.kind = "AddPanel" => "src" \in DOMAIN cmd)
  BY DEF Fits
<1>4. /\ next.kind = cmd.kind /\ next.view = cmd.view /\ next.name = cmd.name
      /\ next.panel = v /\ next.pos = cmd.pos
      /\ cmd.kind = "AddPanel" => next.src = cmd.src
  BY <1>3 DEF Showing
<1> HIDE DEF d, e
<1>5. DoesPanel(next, d, e)
  <2>1. CASE v = cmd.panel
    BY <1>2, <1>4, <2>1 DEF DoesPanel
  <2>2. CASE /\ cmd.kind = "AddPanel" /\ cmd.src # None
             /\ v = Relinked(cmd.panel, cmd.src, cmd.name)
    <3>1. /\ cmd.src # cmd.name /\ cmd.pos # 0 /\ Adds(cmd.name, v, cmd.pos, d, e)
      BY <1>2, <2>2 DEF DoesPanel
    <3>2. Relinked(v, cmd.src, cmd.name) = v
      BY <1>3, <2>2, <3>1, RelinkedIs
    <3> QED BY <1>4, <2>2, <3>1, <3>2 DEF DoesPanel
  <2> QED BY <2>1, <2>2
<1>6. /\ InPanels(next.view, s, t)
      /\ DoesPanel(next, PanelsOf(s, next.view), PanelsOf(t, next.view))
  BY <1>2, <1>4, <1>5 DEF d, e
<1> QED BY <1>1, <1>4, <1>6, DoesIs

LEMMA AddPanelBoth ==
  ASSUME NEW cmd, cmd.kind = "AddPanel", Fits(cmd),
         NEW s, NEW t, Typed(s), Does(cmd, s, t), NEW prj
  PROVE  BothWays(RedoAddPanel(cmd, prj), UndoAddPanel(cmd, prj), prj, s, t)
<1> DEFINE w == cmd.view
           d == PanelsOf(s, w)
           e == PanelsOf(t, w)
           v == IF cmd.src = None THEN cmd.panel
                ELSE Relinked(cmd.panel, cmd.src, cmd.name)
           next == [cmd EXCEPT !.panel = At(e, cmd.name)]
<1>1. InPanels(w, s, t) /\ DoesPanel(cmd, d, e)
  BY DoesIs DEF PanelKinds
<1>2. Shelf(d) /\ Dict(d)
  BY <1>1, PanelsMove DEF Shelf
<1>3. d = At(s.views, w) /\ e = At(t.views, w)
  BY DEF PanelsOf
<1> HIDE DEF d, e
<1>4. /\ At(e, cmd.name) = v /\ Drop(e, cmd.name) = d
      /\ e = IF cmd.src = None THEN AddNew(d, cmd.name, cmd.panel)
             ELSE MoveTo(AddNew(d, cmd.name, Relinked(cmd.panel, cmd.src, cmd.name)),
                         cmd.name, cmd.pos)
  <2>1. CASE cmd.src = None
    <3>1. Adds(cmd.name, cmd.panel, 0, d, e)
      BY <1>1, <2>1 DEF DoesPanel
    <3> QED BY <1>2, <2>1, <3>1, AddsBack
  <2>2. CASE cmd.src # None
    <3>1. Adds(cmd.name, v, cmd.pos, d, e) /\ cmd.pos # 0
      BY <1>1, <2>2 DEF DoesPanel
    <3> HIDE DEF v
    <3>2. /\ At(e, cmd.name) = v /\ Drop(e, cmd.name) = d
          /\ e = MoveTo(AddNew(d, cmd.name, v), cmd.name, cmd.pos)
      BY <1>2, <3>1, AddsBack
    <3> QED BY <2>2, <3>2 DEF v
  <2> QED BY <2>1, <2>2
<1>5. \/ v = cmd.panel
      \/ /\ cmd.kind = "AddPanel" /\ cmd.src # None
         /\ v = Relinked(cmd.panel, cmd.src, cmd.name)
  OBVIOUS
<1> HIDE DEF v
<1>6. Showing(cmd, v, next)
  BY <1>4 DEF Showing
<1> HIDE DEF next
<1>7. Does(next, s, t)
  BY <1>5, <1>6, PanelAgain
<1>8. Has(prj, s.conns, s.views) =>
        Makes(RedoAddPanel(cmd, prj), cmd, s.conns, With(s.views, w, e))
  BY <1>3, <1>4, PanelMakes
<1>9. Has(prj, t.conns, t.views) =>
        Makes(UndoAddPanel(cmd, prj), next, t.conns, With(t.views, w, d))
  BY <1>3, <1>4, PanelMakes DEF next
<1> QED BY <1>1, <1>7, <1>8, <1>9, PanelBoth DEF d, e

LEMMA DelPanelBoth ==
  ASSUME NEW cmd, cmd.kind = "DelPanel", Fits(cmd),
         NEW s, NEW t, Typed(s), Does(cmd, s, t), NEW prj
  PROVE  BothWays(RedoDelPanel(cmd, prj), UndoDelPanel(cmd, prj), prj, s, t)
<1> DEFINE w == cmd.view
           d == PanelsOf(s, w)
           e == PanelsOf(t, w)
           next == [cmd EXCEPT !.panel = At(d, cmd.name), !.bl = {}]
<1>1. InPanels(w, s, t) /\ Drops(cmd.name, cmd.panel, cmd.pos, d, e)
  BY DoesIs DEF PanelKinds, DoesPanel
<1>2. Dict(d)
  BY <1>1, PanelsMove DEF Shelf
<1>3. d = At(s.views, w) /\ e = At(t.views, w)
  BY DEF PanelsOf
<1> HIDE DEF d, e
<1>4. /\ At(d, cmd.name) = cmd.panel /\ e = Drop(d, cmd.name)
      /\ MoveTo(AddNew(e, cmd.name, cmd.panel), cmd.name, cmd.pos) = d
  BY <1>1, <1>2, DropsBack
<1>5. Showing(cmd, cmd.panel, next)
  BY <1>4 DEF Showing
<1> HIDE DEF next
<1>6. Does(next, s, t)
  BY <1>5, PanelAgain
<1>7. Has(prj, s.conns, s.views) =>
        Makes(RedoDelPanel(cmd, prj), next, s.conns, With(s.views, w, e))
  BY <1>3, <1>4, PanelMakes DEF next
<1>8. Has(prj, t.conns, t.views) =>
        Makes(UndoDelPanel(cmd, prj), cmd, t.conns, With(t.views, w, d))
  BY <1>3, <1>4, PanelMakes
<1> QED BY <1>1, <1>6, <1>7, <1>8, PanelBoth DEF d, e

LEMMA PanelOrderBoth ==
  ASSUME NEW cmd, cmd.kind = "PanelOrder",
         NEW s, NEW t, Typed(s), Does(cmd, s, t), NEW prj
  PROVE  BothWays(PanelMoved(cmd, prj, cmd.lower), PanelMoved(cmd, prj, cmd.upper),
                  prj, s, t)
<1> DEFINE w == cmd.view
           d == PanelsOf(s, w)
           e == PanelsOf(t, w)
<1>1. InPanels(w, s, t) /\ Swaps(cmd.lower, cmd.upper, cmd.pos, d, e)
  BY DoesIs DEF PanelKinds, DoesPanel
<1>2. Dict(d)
  BY <1>1, PanelsMove DEF Shelf
<1>3. d = At(s.views, w) /\ e = At(t.views, w)
  BY DEF PanelsOf
<1> HIDE DEF d, e
<1>4. e = MoveTo(d, cmd.lower, cmd.pos) /\ MoveTo(e, cmd.upper, cmd.pos) = d
  BY <1>1, <1>2, SwapBack DEF Swaps
<1>5. Has(prj, s.conns, s.views) =>
        Makes(PanelMoved(cmd, prj, cmd.lower), cmd, s.conns, With(s.views, w, e))
  BY <1>3, <1>4, PanelMakes
<1>6. Has(prj, t.conns, t.views) =>
        Makes(PanelMoved(cmd, prj, cmd.upper), cmd, t.conns, With(t.views, w, d))
  BY <1>3, <1>4, PanelMakes
<1> QED BY <1>1, <1>5, <1>6, PanelBoth DEF d, e

-----------------------------------------------------------------------------
\* A panel renamed, and the links to it; the links that named the new one
\* could not be told from them.
LEMMA RenamedBack ==
  ASSUME NEW d, Shelf(d), NEW o \in Keys(d), NEW n, n \notin Keys(d),
         \A ts \in Values(d) : n \notin Values(ts),
         NEW pos, pos = IndexOf(d, o),
         NEW e, e = AllRelinked(Rekeyed(d, o, n), o, n)
  PROVE  /\ AllRelinked(MoveTo(AddNew(Drop(d, o), n, At(d, o)), n, pos), o, n) = e
         /\ AllRelinked(MoveTo(AddNew(Drop(e, n), o, At(e, n)), o, pos), n, o) = d
<1> DEFINE x == Rekeyed(d, o, n)
<1>1. Dict(d) /\ \A p \in Keys(d) : Dict(At(d, p))
  BY DEF Shelf
<1>2. /\ Dict(x) /\ Keys(x) = (Keys(d) \ {o}) \cup {n}
      /\ At(x, n) = At(d, o) /\ \A j \in Keys(d) \ {o} : At(x, j) = At(d, j)
      /\ IndexOf(x, n) = pos
      /\ MoveTo(AddNew(Drop(d, o), n, At(d, o)), n, pos) = x
      /\ Rekeyed(x, n, o) = d
  BY <1>1, RekeyedIs
<1> HIDE DEF x
<1>3. Shelf(x) /\ n \in Keys(x) /\ o \notin Keys(x)
  BY <1>1, <1>2 DEF Shelf
<1>4. e = AllRelinked(x, o, n)
  BY DEF x
<1>5. Shelf(e) /\ Keys(e) = Keys(x) /\ IndexOf(e, n) = pos
  BY <1>2, <1>3, <1>4, AllRelinkedIs
<1>6. MoveTo(AddNew(Drop(e, n), o, At(e, n)), o, pos) = Rekeyed(e, n, o)
  <2>1. Dict(e) /\ n \in Keys(e) /\ o \notin Keys(e)
    BY <1>3, <1>5 DEF Shelf
  <2>2. MoveTo(AddNew(Drop(e, n), o, At(e, n)), o, IndexOf(e, n)) = Rekeyed(e, n, o)
    BY <2>1, RekeyedIs
  <2> QED BY <1>5, <2>2
<1>7. Rekeyed(e, n, o) = AllRelinked(d, o, n)
  BY <1>2, <1>3, <1>4, RelinkedRekeyed
<1>8. AllRelinked(AllRelinked(d, o, n), n, o) = d
  BY AllRelinkedIs
<1> QED BY <1>2, <1>4, <1>6, <1>7, <1>8

LEMMA RenamePanelBoth ==
  ASSUME NEW cmd, cmd.kind = "RenamePanel",
         NEW s, NEW t, Typed(s), Does(cmd, s, t), NEW prj
  PROVE  BothWays(PanelRenamed(cmd, prj, cmd.old, cmd.new),
                  PanelRenamed(cmd, prj, cmd.new, cmd.old), prj, s, t)
<1> DEFINE w == cmd.view
           d == PanelsOf(s, w)
           e == PanelsOf(t, w)
           o == cmd.old
           n == cmd.new
<1>1. InPanels(w, s, t) /\ DoesPanel(cmd, d, e)
  BY DoesIs DEF PanelKinds
<1>2. Shelf(d)
  BY <1>1, PanelsMove
<1>3. d = At(s.views, w) /\ e = At(t.views, w)
  BY DEF PanelsOf
<1> HIDE DEF d, e
<1>4. /\ o \in Keys(d) /\ n \notin Keys(d) /\ cmd.pos = IndexOf(d, o)
      /\ \A ts \in Values(d) : n \notin Values(ts)
      /\ e = AllRelinked(Rekeyed(d, o, n), o, n)
  BY <1>1 DEF DoesPanel
<1> HIDE DEF o, n
<1>5. /\ AllRelinked(MoveTo(AddNew(Drop(d, o), n, At(d, o)), n, cmd.pos), o, n) = e
      /\ AllRelinked(MoveTo(AddNew(Drop(e, n), o, At(e, n)), o, cmd.pos), n, o) = d
  BY <1>2, <1>4, RenamedBack
<1>6. Has(prj, s.conns, s.views) =>
        Makes(PanelRenamed(cmd, prj, o, n), cmd, s.conns, With(s.views, w, e))
  BY <1>3, <1>5, PanelMakes
<1>7. Has(prj, t.conns, t.views) =>
        Makes(PanelRenamed(cmd, prj, n, o), cmd, t.conns, With(t.views, w, d))
  BY <1>3, <1>5, PanelMakes
<1> QED BY <1>1, <1>6, <1>7, PanelBoth DEF d, e, o, n

-----------------------------------------------------------------------------
\* Templates: all that changes is the dictionary of one panel.
LEMMA TemplatesMove ==
  ASSUME NEW s, NEW t, Typed(s), NEW w, NEW p, InTemplates(w, p, s, t)
  PROVE  /\ t.conns = s.conns /\ Dict(TemplatesOf(s, w, p))
         /\ TemplatesPut(s.views, w, p, TemplatesOf(t, w, p)) = t.views
         /\ TemplatesPut(t.views, w, p, TemplatesOf(s, w, p)) = s.views
<1> DEFINE D == PanelsOf(s, w)
           E == PanelsOf(t, w)
           d == TemplatesOf(s, w, p)
           e == TemplatesOf(t, w, p)
<1>1. InPanels(w, s, t) /\ p \in Keys(D) /\ E = With(D, p, e)
  BY DEF InTemplates
<1>2. /\ t.conns = s.conns /\ Shelf(D)
      /\ With(s.views, w, E) = t.views /\ With(t.views, w, D) = s.views
  BY <1>1, PanelsMove
<1>3. D = At(s.views, w) /\ E = At(t.views, w) /\ d = At(D, p)
  BY DEF PanelsOf, TemplatesOf
<1> HIDE DEF D, E, d, e
<1>4. Dict(D) /\ Dict(d)
  BY <1>1, <1>2, <1>3 DEF Shelf
<1>5. With(E, p, d) = D
  <2>1. With(With(D, p, e), p, d) = With(D, p, d) /\ With(D, p, d) = D
    BY <1>1, <1>3, <1>4, WithIs
  <2> QED BY <1>1, <2>1
<1>6. TemplatesPut(s.views, w, p, e) = t.views /\ TemplatesPut(t.views, w, p, d) = s.views
  BY <1>1, <1>2, <1>3, <1>5 DEF TemplatesPut
<1> QED BY <1>2, <1>4, <1>6 DEF d, e

LEMMA TemplateBoth ==
  ASSUME NEW w, NEW p, NEW s, NEW t, Typed(s), InTemplates(w, p, s, t),
         NEW b, NEW c, Does(b, s, t), Does(c, s, t),
         NEW prj, NEW redo, NEW undo,
         Has(prj, s.conns, s.views) =>
           Makes(redo, b, s.conns, TemplatesPut(s.views, w, p, TemplatesOf(t, w, p))),
         Has(prj, t.conns, t.views) =>
           Makes(undo, c, t.conns, TemplatesPut(t.views, w, p, TemplatesOf(s, w, p)))
  PROVE  BothWays(redo, undo, prj, s, t)
<1>1. /\ t.conns = s.conns
      /\ TemplatesPut(s.views, w, p, TemplatesOf(t, w, p)) = t.views
      /\ TemplatesPut(t.views, w, p, TemplatesOf(s, w, p)) = s.views
  BY TemplatesMove
<1> QED BY <1>1, ThereIs DEF BothWays

LEMMA DoesTemplates ==
  ASSUME NEW cmd, cmd.kind \in TemplateKinds, NEW s, NEW t, Typed(s),
         NEW w, w = cmd.view, NEW p, p = cmd.panel,
         NEW d, d = TemplatesOf(s, w, p), NEW e, e = TemplatesOf(t, w, p)
  PROVE  /\ Does(cmd, s, t) <=> InTemplates(w, p, s, t) /\ DoesTemplate(cmd, d, e)
         /\ InTemplates(w, p, s, t) => Dict(d)
         /\ d = At(At(s.views, w), p) /\ e = At(At(t.views, w), p)
BY DoesIs, TemplatesMove DEF TemplatesOf

\* The command with the templates it keeps looked up again, and where they were.
Chosen(cmd, ts, next) ==
  \/ cmd.kind = "AddSelection" /\ next = [cmd EXCEPT !.ts = ts]
  \/ cmd.kind = "DelSelection" /\ ts = cmd.ts /\ next = [cmd EXCEPT !.bl = {}]

LEMMA SelectionAgain ==
  ASSUME NEW cmd, cmd.kind \in {"AddSelection", "DelSelection"}, Fits(cmd),
         NEW s, NEW t, Typed(s), Does(cmd, s, t), NEW next, Chosen(cmd, cmd.ts, next)
  PROVE  Does(next, s, t)
<1> DEFINE d == TemplatesOf(s, cmd.view, cmd.panel)
           e == TemplatesOf(t, cmd.view, cmd.panel)
<1>1. cmd.kind \in TemplateKinds
  BY DEF TemplateKinds
<1>2. InTemplates(cmd.view, cmd.panel, s, t) /\ DoesTemplate(cmd, d, e)
  BY <1>1, DoesTemplates
<1>3. {"kind", "view", "panel", "ts"} \subseteq DOMAIN cmd
      /\ (cmd.kind = "DelSelection" => "pos" \in DOMAIN cmd)
  BY DEF Fits
<1>4. /\ next.kind = cmd.kind /\ next.view = cmd.view /\ next.panel = cmd.panel
      /\ next.ts = cmd.ts /\ (cmd.kind = "DelSelection" => next.pos = cmd.pos)
  BY <1>3 DEF Chosen
<1> HIDE DEF d, e
<1>5. DoesTemplate(next, d, e)
  BY <1>2, <1>4 DEF DoesTemplate
<1> QED BY <1>1, <1>2, <1>4, <1>5, DoesTemplates DEF d, e

LEMMA AddSelectionBoth ==
  ASSUME NEW cmd, cmd.kind = "AddSelection", Fits(cmd),
         NEW s, NEW t, Typed(s), Does(cmd, s, t), NEW prj
  PROVE  BothWays(RedoAddSelection(cmd, prj), UndoAddSelection(cmd, prj), prj, s, t)
<1> DEFINE w == cmd.view
           p == cmd.panel
           ts == cmd.ts
           d == TemplatesOf(s, w, p)
           e == TemplatesOf(t, w, p)
           next == [cmd EXCEPT !.ts = Taken(ts, e)]
<1>1. InTemplates(w, p, s, t) /\ DoesTemplate(cmd, d, e) /\ Dict(d)
      /\ d = At(At(s.views, w), p) /\ e = At(At(t.views, w), p)
  BY DoesTemplates DEF TemplateKinds
<1>2. Dict(ts)
  BY DEF Fits
<1> HIDE DEF d, e
<1>3. Keys(d) \cap Keys(ts) = {} /\ e = d \o ts
  BY <1>1 DEF DoesTemplate
<1>4. Grown(d, ts) = e /\ Dict(e) /\ Shrunk(e, ts) = d
  BY <1>1, <1>2, <1>3, JoinedIs, PartedIs
<1>5. Taken(ts, e) = ts
  <2> HIDE DEF ts
  <2>1. ASSUME NEW i \in DOMAIN ts
        PROVE  ts[i].val = At(e, ts[i].key)
    <3> DEFINE j == Len(d) + i
    <3>1. j \in DOMAIN e /\ e[j] = ts[i]
      BY <1>1, <1>2, <1>3 DEF Dict
    <3> HIDE DEF j
    <3>2. At(e, e[j].key) = e[j].val
      BY <1>4, <3>1, KeyAt
    <3> QED BY <3>1, <3>2
  <2> QED BY <1>2, <2>1, TakenIs
<1>6. Chosen(cmd, cmd.ts, next)
  BY <1>5 DEF Chosen
<1> HIDE DEF next
<1>7. Does(next, s, t)
  BY <1>6, SelectionAgain
<1>8. Has(prj, s.conns, s.views) =>
        Makes(RedoAddSelection(cmd, prj), cmd, s.conns, TemplatesPut(s.views, w, p, e))
  BY <1>1, <1>4, SelectionMakes
<1>9. Has(prj, t.conns, t.views) =>
        Makes(UndoAddSelection(cmd, prj), next, t.conns, TemplatesPut(t.views, w, p, d))
  BY <1>1, <1>4, SelectionMakes DEF next
<1> QED BY <1>1, <1>7, <1>8, <1>9, TemplateBoth DEF d, e

-----------------------------------------------------------------------------
\* Templates deleted, wherever the command believes they were.
LEMMA DeletedThere ==
  ASSUME NEW cmd, cmd.kind = "DelSelection", Fits(cmd),
         NEW s, NEW t, Typed(s), InTemplates(cmd.view, cmd.panel, s, t),
         NEW pos, DropsAll(cmd.ts, pos, TemplatesOf(s, cmd.view, cmd.panel),
                           TemplatesOf(t, cmd.view, cmd.panel)),
         NEW prj, Has(prj, s.conns, s.views)
  PROVE  There(RedoDelSelection(cmd, prj), s, t)
<1> DEFINE w == cmd.view
           p == cmd.panel
           ts == cmd.ts
           d == TemplatesOf(s, w, p)
           e == TemplatesOf(t, w, p)
           at == Deleted(d, ts).pos
<1>1. cmd.kind \in TemplateKinds
  BY DEF TemplateKinds
<1>2. /\ Dict(d) /\ d = At(At(s.views, w), p) /\ e = At(At(t.views, w), p)
      /\ t.conns = s.conns /\ TemplatesPut(s.views, w, p, e) = t.views
  BY TemplatesMove DEF TemplatesOf
<1>3. Dict(ts) /\ {"kind", "view", "panel", "ts", "pos"} \subseteq DOMAIN cmd
  BY DEF Fits
<1>4. DropsAll(ts, pos, d, e)
  OBVIOUS
<1> HIDE DEF d, e
<1>5. /\ \A i \in DOMAIN ts : ts[i].key \in Keys(d) /\ ts[i].val = At(d, ts[i].key)
      /\ e = Left(d, ts, Len(ts))
  BY <1>2, <1>3, <1>4, DropsAllIs
<1>6. DropsAll(ts, at, d, Deleted(d, ts).left)
  BY <1>2, <1>3, <1>5, DeletedIs
<1>7. Deleted(d, ts).left = e
  BY <1>5, <1>6 DEF DropsAll
<1>8. Taken(ts, d) = ts
  BY <1>2, <1>3, <1>5, TakenIs
<1>9. PICK bl : Makes(RedoDelSelection(cmd, prj),
                      [cmd EXCEPT !.ts = Taken(ts, d), !.pos = at, !.bl = bl],
                      s.conns, TemplatesPut(s.views, w, p, Deleted(d, ts).left))
  BY <1>2, SelectionMakes
<1> DEFINE next == [cmd EXCEPT !.ts = Taken(ts, d), !.pos = at, !.bl = bl]
<1> HIDE DEF at
<1>10. /\ next.kind = cmd.kind /\ next.view = cmd.view /\ next.panel = cmd.panel
       /\ next.ts = ts /\ next.pos = at
  BY <1>3, <1>8
<1>11. Makes(RedoDelSelection(cmd, prj), next, s.conns, t.views)
  BY <1>2, <1>7, <1>9
<1> HIDE DEF next
<1>12. DoesTemplate(next, d, e)
  BY <1>6, <1>7, <1>10 DEF DoesTemplate
<1>13. Does(next, s, t)
  BY <1>1, <1>10, <1>12, DoesTemplates DEF d, e
<1> QED BY <1>2, <1>11, <1>13, ThereIs

LEMMA DelSelectionBoth ==
  ASSUME NEW cmd, cmd.kind = "DelSelection", Fits(cmd),
         NEW s, NEW t, Typed(s), Does(cmd, s, t), NEW prj
  PROVE  BothWays(RedoDelSelection(cmd, prj), UndoDelSelection(cmd, prj), prj, s, t)
<1> DEFINE w == cmd.view
           p == cmd.panel
           ts == cmd.ts
           d == TemplatesOf(s, w, p)
           e == TemplatesOf(t, w, p)
           next == [cmd EXCEPT !.bl = {}]
<1>1. InTemplates(w, p, s, t) /\ DropsAll(ts, cmd.pos, d, e) /\ Dict(d)
      /\ e = At(At(t.views, w), p)
  BY DoesTemplates DEF TemplateKinds, DoesTemplate
<1>2. Dict(ts)
  BY DEF Fits
<1>3. Has(prj, s.conns, s.views) => There(RedoDelSelection(cmd, prj), s, t)
  BY <1>1, DeletedThere
<1> HIDE DEF d, e
<1>4. Restored(e, ts, cmd.pos) = d
  BY <1>1, <1>2, RestoredIs
<1>5. Chosen(cmd, cmd.ts, next)
  BY DEF Chosen
<1> HIDE DEF next
<1>6. Does(next, s, t)
  BY <1>5, SelectionAgain
<1>7. t.conns = s.conns /\ TemplatesPut(t.views, w, p, d) = s.views
  BY <1>1, TemplatesMove DEF d
<1>8. Has(prj, t.conns, t.views) =>
        Makes(UndoDelSelection(cmd, prj), next, t.conns, TemplatesPut(t.views, w, p, d))
  BY <1>1, <1>4, SelectionMakes DEF next
<1>9. Has(prj, t.conns, t.views) => Back(UndoDelSelection(cmd, prj), s, t)
  BY <1>6, <1>7, <1>8, ThereIs
<1> QED BY <1>3, <1>9 DEF BothWays

-----------------------------------------------------------------------------
\* One template.
LEMMA RenameTemplateBoth ==
  ASSUME NEW cmd, cmd.kind = "RenameTemplate",
         NEW s, NEW t, Typed(s), Does(cmd, s, t), NEW prj
  PROVE  BothWays(TemplateRenamed(cmd, prj, cmd.old, cmd.new),
                  TemplateRenamed(cmd, prj, cmd.new, cmd.old), prj, s, t)
<1> DEFINE w == cmd.view
           p == cmd.panel
           d == TemplatesOf(s, w, p)
           e == TemplatesOf(t, w, p)
           o == cmd.old
           n == cmd.new
           Renamed1(x, k, j) ==
             IF cmd.pos \in DOMAIN x
             THEN PutAt(Drop(x, k), j, x[cmd.pos].val,
                        IF k \in Keys(x) THEN IndexOf(x, k) ELSE 0)
             ELSE Drop(x, k)
<1>1. InTemplates(w, p, s, t) /\ DoesTemplate(cmd, d, e) /\ Dict(d)
      /\ d = At(At(s.views, w), p) /\ e = At(At(t.views, w), p)
  BY DoesTemplates DEF TemplateKinds
<1> HIDE DEF d, e
<1>2. cmd.pos = IndexOf(d, o) /\ Rekeys(o, n, d, e)
  BY <1>1 DEF DoesTemplate
<1> HIDE DEF o, n
<1>3. /\ e = PutAt(Drop(d, o), n, At(d, o), IndexOf(d, o))
      /\ d = PutAt(Drop(e, n), o, At(e, n), IndexOf(e, n))
      /\ Rekeys(n, o, e, d) /\ IndexOf(e, n) = cmd.pos /\ Dict(e)
  BY <1>1, <1>2, RekeysBack
<1>4. o \in Keys(d) /\ n \in Keys(e)
  BY <1>2, <1>3 DEF Rekeys
<1>5. /\ cmd.pos \in DOMAIN d /\ d[cmd.pos].val = At(d, o)
      /\ cmd.pos \in DOMAIN e /\ e[cmd.pos].val = At(e, n)
  <2>1. IndexOf(d, o) \in DOMAIN d /\ IndexOf(e, n) \in DOMAIN e
    BY <1>1, <1>3, <1>4, IndexAt
  <2> QED BY <1>2, <1>3, <2>1, Zenon DEF At
<1>6. Renamed1(d, o, n) = e /\ Renamed1(e, n, o) = d
  BY <1>2, <1>3, <1>4, <1>5, Zenon
<1>7. Has(prj, s.conns, s.views) =>
        Makes(TemplateRenamed(cmd, prj, o, n), cmd, s.conns, TemplatesPut(s.views, w, p, e))
  BY <1>1, <1>6, TemplateMakes
<1>8. Has(prj, t.conns, t.views) =>
        Makes(TemplateRenamed(cmd, prj, n, o), cmd, t.conns, TemplatesPut(t.views, w, p, d))
  BY <1>1, <1>6, TemplateMakes
<1> QED BY <1>1, <1>7, <1>8, TemplateBoth DEF d, e, o, n

LEMMA TabOrderBoth ==
  ASSUME NEW cmd, cmd.kind = "TabOrder",
         NEW s, NEW t, Typed(s), Does(cmd, s, t), NEW prj
  PROVE  BothWays(TemplateMoved(cmd, prj, cmd.lower), TemplateMoved(cmd, prj, cmd.upper),
                  prj, s, t)
<1> DEFINE w == cmd.view
           p == cmd.panel
           d == TemplatesOf(s, w, p)
           e == TemplatesOf(t, w, p)
<1>1. InTemplates(w, p, s, t) /\ Swaps(cmd.lower, cmd.upper, cmd.pos, d, e) /\ Dict(d)
      /\ d = At(At(s.views, w), p) /\ e = At(At(t.views, w), p)
  BY DoesTemplates DEF TemplateKinds, DoesTemplate
<1> HIDE DEF d, e
<1>2. e = MoveTo(d, cmd.lower, cmd.pos) /\ MoveTo(e, cmd.upper, cmd.pos) = d
  BY <1>1, SwapBack DEF Swaps
<1>3. Has(prj, s.conns, s.views) =>
        Makes(TemplateMoved(cmd, prj, cmd.lower), cmd, s.conns,
              TemplatesPut(s.views, w, p, e))
  BY <1>1, <1>2, TemplateMakes
<1>4. Has(prj, t.conns, t.views) =>
        Makes(TemplateMoved(cmd, prj, cmd.upper), cmd, t.conns,
              TemplatesPut(t.views, w, p, d))
  BY <1>1, <1>2, TemplateMakes
<1> QED BY <1>1, <1>3, <1>4, TemplateBoth DEF d, e

LEMMA SetLinkBoth ==
  ASSUME NEW cmd, cmd.kind = "SetLink",
         NEW s, NEW t, Typed(s), Does(cmd, s, t), NEW prj
  PROVE  BothWays(LinkSet(cmd, prj, cmd.new), LinkSet(cmd, prj, cmd.old), prj, s, t)
<1> DEFINE w == cmd.view
           p == cmd.panel
           d == TemplatesOf(s, w, p)
           e == TemplatesOf(t, w, p)
<1>1. InTemplates(w, p, s, t) /\ DoesTemplate(cmd, d, e) /\ Dict(d)
      /\ d = At(At(s.views, w), p) /\ e = At(At(t.views, w), p)
  BY DoesTemplates DEF TemplateKinds
<1> HIDE DEF d, e
<1>2. cmd.templ \in Keys(d) /\ cmd.old = At(d, cmd.templ) /\ e = With(d, cmd.templ, cmd.new)
  BY <1>1 DEF DoesTemplate
<1>3. cmd.templ \in Keys(e) /\ With(e, cmd.templ, cmd.old) = d
  <2> DEFINE k == cmd.templ
             v == cmd.new
  <2>1. k \in Keys(d) /\ e = With(d, k, v)
    BY <1>2
  <2> HIDE DEF k, v
  <2>2. /\ Keys(With(d, k, v)) = Keys(d)
        /\ \A u : With(With(d, k, v), k, u) = With(d, k, u)
        /\ With(d, k, At(d, k)) = d
    BY <1>1, <2>1, WithIs
  <2> QED BY <1>2, <2>1, <2>2 DEF k
<1>4. Has(prj, s.conns, s.views) =>
        Makes(LinkSet(cmd, prj, cmd.new), cmd, s.conns, TemplatesPut(s.views, w, p, e))
  BY <1>1, <1>2, TemplateMakes
<1>5. Has(prj, t.conns, t.views) =>
        Makes(LinkSet(cmd, prj, cmd.old), cmd, t.conns, TemplatesPut(t.views, w, p, d))
  BY <1>1, <1>3, TemplateMakes
<1> QED BY <1>1, <1>4, <1>5, TemplateBoth DEF d, e

-----------------------------------------------------------------------------
\* Every command.
Commutes(cmd, prj, s, t) == BothWays(Redone(cmd, prj), Undone(cmd, prj), prj, s, t)

LEMMA ConnectionCommutes ==
  ASSUME NEW cmd, cmd.kind \in ConnectionKinds, Fits(cmd),
         NEW s, NEW t, Typed(s), Does(cmd, s, t), NEW prj
  PROVE  Commutes(cmd, prj, s, t)
<1>1. CASE cmd.kind = "AddConnection"
  BY <1>1, AddConnectionBoth DEF Commutes, Redone, Undone
<1>2. CASE cmd.kind = "Reimport"
  BY <1>2, ReimportBoth DEF Commutes, Redone, Undone
<1>3. CASE cmd.kind = "DelConnection"
  BY <1>3, DelConnectionBoth DEF Commutes, Redone, Undone
<1>4. CASE cmd.kind = "RenameConnection"
  BY <1>4, RenameConnectionBoth DEF Commutes, Redone, Undone
<1> QED BY <1>1, <1>2, <1>3, <1>4 DEF ConnectionKinds

LEMMA VariableCommutes ==
  ASSUME NEW cmd, cmd.kind \in VariableKinds, Fits(cmd),
         NEW s, NEW t, Typed(s), Does(cmd, s, t), NEW prj
  PROVE  Commutes(cmd, prj, s, t)
<1>1. CASE cmd.kind = "AddVariable"
  BY <1>1, VariablesBoth DEF Commutes, Redone, Undone
<1>2. CASE cmd.kind = "DelVariable"
  BY <1>2, VariablesBoth DEF Commutes, Redone, Undone
<1>3. CASE cmd.kind = "RenameVariable"
  BY <1>3, VariablesBoth DEF Commutes, Redone, Undone
<1> QED BY <1>1, <1>2, <1>3 DEF VariableKinds

LEMMA ViewCommutes ==
  ASSUME NEW cmd, cmd.kind \in ViewKinds, Fits(cmd),
         NEW s, NEW t, Typed(s), Does(cmd, s, t), NEW prj
  PROVE  Commutes(cmd, prj, s, t)
<1>1. CASE cmd.kind = "AddView"
  BY <1>1, AddViewBoth DEF Commutes, Redone, Undone
<1>2. CASE cmd.kind = "DelView"
  BY <1>2, DelViewBoth DEF Commutes, Redone, Undone
<1>3. CASE cmd.kind = "RenameView"
  BY <1>3, RenameViewBoth DEF Commutes, Redone, Undone
<1>4. CASE cmd.kind = "ReorderView"
  BY <1>4, ReorderViewBoth DEF Commutes, Redone, Undone
<1> QED BY <1>1, <1>2, <1>3, <1>4 DEF ViewKinds

LEMMA PanelCommutes ==
  ASSUME NEW cmd, cmd.kind \in PanelKinds, Fits(cmd),
         NEW s, NEW t, Typed(s), Does(cmd, s, t), NEW prj
  PROVE  Commutes(cmd, prj, s, t)
<1>1. CASE cmd.kind = "AddPanel"
  BY <1>1, AddPanelBoth DEF Commutes, Redone, Undone
<1>2. CASE cmd.kind = "DelPanel"
  BY <1>2, DelPanelBoth DEF Commutes, Redone, Undone
<1>3. CASE cmd.kind = "RenamePanel"
  BY <1>3, RenamePanelBoth DEF Commutes, Redone, Undone
<1>4. CASE cmd.kind = "PanelOrder"
  BY <1>4, PanelOrderBoth DEF Commutes, Redone, Undone
<1> QED BY <1>1, <1>2, <1>3, <1>4 DEF PanelKinds

LEMMA TemplateCommutes ==
  ASSUME NEW cmd, cmd.kind \in TemplateKinds, Fits(cmd),
         NEW s, NEW t, Typed(s), Does(cmd, s, t), NEW prj
  PROVE  Commutes(cmd, prj, s, t)
<1>1. CASE cmd.kind = "AddSelection"
  BY <1>1, AddSelectionBoth DEF Commutes, Redone, Undone
<1>2. CASE cmd.kind = "DelSelection"
  BY <1>2, DelSelectionBoth DEF Commutes, Redone, Undone
<1>3. CASE cmd.kind = "RenameTemplate"
  BY <1>3, RenameTemplateBoth DEF Commutes, Redone, Undone
<1>4. CASE cmd.kind = "TabOrder"
  BY <1>4, TabOrderBoth DEF Commutes, Redone, Undone
<1>5. CASE cmd.kind = "SetLink"
  BY <1>5, SetLinkBoth DEF Commutes, Redone, Undone
<1> QED BY <1>1, <1>2, <1>3, <1>4, <1>5 DEF TemplateKinds

LEMMA BindingCommutes ==
  ASSUME NEW cmd, cmd.kind = "ChangeBinding",
         NEW s, NEW t, Does(cmd, s, t), NEW prj
  PROVE  Commutes(cmd, prj, s, t)
<1>1. t.views = s.views /\ t.conns = s.conns
  BY DoesIs
<1> DEFINE redo == BindingSwitched(cmd, prj, cmd.old, cmd.new)
           undo == BindingSwitched(cmd, prj, cmd.new, cmd.old)
<1>2. Has(prj, s.conns, s.views) =>
        /\ Makes(redo, cmd, s.conns, s.views) /\ Makes(undo, cmd, s.conns, s.views)
  BY TemplateMakes
<1> HIDE DEF redo, undo
<1>3. BothWays(redo, undo, prj, s, t)
  BY <1>1, <1>2, ThereIs DEF BothWays
<1> QED BY <1>3 DEF Commutes, Redone, Undone, redo, undo

\* Redone, a command that leads from s to t takes s to t; undone, t to s; and
\* it still does, with what it then keeps.
LEMMA CommandCommutes ==
  ASSUME NEW cmd, Fits(cmd),
         NEW s, NEW t, Typed(s), Does(cmd, s, t), NEW prj
  PROVE  Commutes(cmd, prj, s, t)
<1>1. cmd.kind \in Kinds
  BY DEF Fits
<1>2. cmd.kind \in ConnectionKinds \cup VariableKinds \cup ViewKinds \cup PanelKinds
                     \cup TemplateKinds \cup {"ChangeBinding"}
  BY <1>1 DEF Kinds, Renames, Keepers, ConnectionKinds, VariableKinds, ViewKinds,
              PanelKinds, TemplateKinds
<1> QED BY <1>2, ConnectionCommutes, VariableCommutes, ViewCommutes, PanelCommutes,
           TemplateCommutes, BindingCommutes

\* Only the structure counts.
LEMMA SameDoes ==
  ASSUME NEW cmd, NEW s, NEW t, Does(cmd, s, t),
         NEW x, x.conns = s.conns, x.views = s.views,
         NEW y, y.conns = t.conns, y.views = t.views
  PROVE  Does(cmd, x, y)
<1>1. /\ \A c : VarsOf(x, c) = VarsOf(s, c) /\ VarsOf(y, c) = VarsOf(t, c)
      /\ \A w : PanelsOf(x, w) = PanelsOf(s, w) /\ PanelsOf(y, w) = PanelsOf(t, w)
      /\ \A w, p : /\ TemplatesOf(x, w, p) = TemplatesOf(s, w, p)
                   /\ TemplatesOf(y, w, p) = TemplatesOf(t, w, p)
  BY DEF VarsOf, PanelsOf, TemplatesOf
<1>2. /\ InConnections(x, y) <=> InConnections(s, t)
      /\ \A c : InVariables(c, x, y) <=> InVariables(c, s, t)
      /\ InViews(x, y) <=> InViews(s, t)
      /\ \A w : InPanels(w, x, y) <=> InPanels(w, s, t)
      /\ \A w, p : InTemplates(w, p, x, y) <=> InTemplates(w, p, s, t)
  BY <1>1 DEF InConnections, InVariables, InViews, InPanels, InTemplates
<1>3. /\ DoesConnection(cmd, x, y) <=> DoesConnection(cmd, s, t)
      /\ DoesView(cmd, x, y) <=> DoesView(cmd, s, t)
  BY DEF DoesConnection, DoesView
<1> QED BY <1>1, <1>2, <1>3 DEF Does

-----------------------------------------------------------------------------
(***************************************************************************)
(* What each command does when it is executed first.                       *)
(***************************************************************************)
\* Unless a link was merged or a name overwritten, the command leads from s to
\* the project it makes of prj, which has the structure of s.
Starts(cmd, prj, s) ==
  LET r == Redone(cmd, prj)
  IN r.wrong \cap {"merged", "overwritten"} = {} => Does(r.cmd, s, r.prj)

LEMMA StartsIs ==
  ASSUME NEW s, Typed(s), NEW prj, Has(prj, s.conns, s.views),
         NEW cmd, Fits(cmd), NEW t, Does(cmd, s, t)
  PROVE  Starts(cmd, prj, s)
<1> DEFINE r == Redone(cmd, prj)
<1>1. Has(r.prj, t.conns, t.views) /\ Does(r.cmd, s, t)
  BY CommandCommutes DEF Commutes, BothWays, There
<1> HIDE DEF r
<1>2. Does(r.cmd, s, r.prj)
  BY <1>1, SameDoes DEF Has
<1> QED BY <1>2 DEF Starts, r

LEMMA StartsConnection ==
  ASSUME NEW s, Typed(s), NEW prj, Has(prj, s.conns, s.views), NEW cmd, Fits(cmd),
         \/ cmd.kind = "AddConnection" /\ cmd.cn \notin Keys(s.conns)
         \/ /\ cmd.kind = "Reimport" /\ cmd.cn \in Keys(s.conns)
            /\ cmd.old = At(s.conns, cmd.cn) /\ cmd.pos = IndexOf(s.conns, cmd.cn)
         \/ /\ cmd.kind = "DelConnection" /\ cmd.cn \in Keys(s.conns)
            /\ cmd.c = At(s.conns, cmd.cn) /\ cmd.pos = IndexOf(s.conns, cmd.cn)
         \/ /\ cmd.kind = "RenameConnection"
            /\ cmd.old \in Keys(s.conns) /\ cmd.new \notin Keys(s.conns)
  PROVE  Starts(cmd, prj, s)
<1> DEFINE t(e) == [conns |-> e, views |-> s.views]
           d == s.conns
<1>1. \E e : DoesConnection(cmd, s, t(e))
  <2>1. CASE cmd.kind = "AddConnection"
    <3>1. DoesConnection(cmd, s, t(Put(d, cmd.cn, cmd.c)))
      BY <2>1 DEF DoesConnection, Adds
    <3> QED BY <3>1
  <2>2. CASE cmd.kind = "Reimport"
    <3>1. DoesConnection(cmd, s, t(Put(Drop(d, cmd.cn), cmd.cn, cmd.c)))
      BY <2>2 DEF DoesConnection
    <3> QED BY <3>1
  <2>3. CASE cmd.kind = "DelConnection"
    <3>1. DoesConnection(cmd, s, t(Drop(d, cmd.cn)))
      BY <2>3 DEF DoesConnection, Drops
    <3> QED BY <3>1
  <2>4. CASE cmd.kind = "RenameConnection"
    <3>1. DoesConnection(cmd, s, t(Rekeyed(d, cmd.old, cmd.new)))
      BY <2>4 DEF DoesConnection, Rekeys
    <3> QED BY <3>1
  <2> QED BY <2>1, <2>2, <2>3, <2>4
<1>2. PICK e : DoesConnection(cmd, s, t(e))
  BY <1>1
<1>3. t(e).views = s.views
  OBVIOUS
<1> HIDE DEF t
<1>4. Does(cmd, s, t(e))
  BY <1>2, <1>3, DoesIs DEF ConnectionKinds
<1> QED BY <1>4, StartsIs

LEMMA StartsVariable ==
  ASSUME NEW s, Typed(s), NEW prj, Has(prj, s.conns, s.views), NEW cmd, Fits(cmd),
         NEW d, d = VarsOf(s, cmd.cn), cmd.cn \in Keys(s.conns),
         \/ cmd.kind = "AddVariable" /\ cmd.vn \notin Keys(d)
         \/ /\ cmd.kind = "DelVariable" /\ cmd.vn \in Keys(d)
            /\ cmd.vt = At(d, cmd.vn) /\ cmd.pos = IndexOf(d, cmd.vn)
         \/ /\ cmd.kind = "RenameVariable"
            /\ cmd.old \in Keys(d) /\ cmd.new \notin Keys(d)
  PROVE  Starts(cmd, prj, s)
<1>1. \E e : DoesVariable(cmd, d, e)
  <2>1. CASE cmd.kind = "AddVariable"
    <3>1. DoesVariable(cmd, d, Put(d, cmd.vn, cmd.vt))
      BY <2>1 DEF DoesVariable, Adds
    <3> QED BY <3>1
  <2>2. CASE cmd.kind = "DelVariable"
    <3>1. DoesVariable(cmd, d, Drop(d, cmd.vn))
      BY <2>2 DEF DoesVariable, Drops
    <3> QED BY <3>1
  <2>3. CASE cmd.kind = "RenameVariable"
    <3>1. DoesVariable(cmd, d, Rekeyed(d, cmd.old, cmd.new))
      BY <2>3 DEF DoesVariable, Rekeys
    <3> QED BY <3>1
  <2> QED BY <2>1, <2>2, <2>3
<1>2. PICK e : DoesVariable(cmd, d, e)
  BY <1>1
<1> DEFINE cn == cmd.cn
           c  == [At(s.conns, cn) EXCEPT !.vars = e]
           cs == With(s.conns, cn, c)
           t  == [conns |-> cs, views |-> s.views]
<1>3. Dict(s.conns) /\ Connection(At(s.conns, cn))
  BY DEF Typed, ConnsTyped
<1>4. c.vars = e
  BY <1>3 DEF Connection
<1> HIDE DEF c
<1>5. At(cs, cn) = c
  BY <1>3, WithIs
<1>6. t.views = s.views /\ t.conns = cs
  OBVIOUS
<1> HIDE DEF cs, t
<1>7. VarsOf(t, cn) = e
  BY <1>4, <1>5, <1>6 DEF VarsOf
<1>8. InVariables(cn, s, t)
  BY <1>6, <1>7 DEF InVariables, InConnections, cs, c
<1>9. Does(cmd, s, t)
  BY <1>2, <1>7, <1>8, DoesIs DEF VariableKinds, cn
<1> QED BY <1>9, StartsIs

LEMMA StartsView ==
  ASSUME NEW s, Typed(s), NEW prj, Has(prj, s.conns, s.views), NEW cmd, Fits(cmd),
         \/ cmd.kind = "AddView" /\ cmd.name \notin Keys(s.views)
         \/ /\ cmd.kind = "DelView" /\ cmd.name \in Keys(s.views)
            /\ cmd.view = At(s.views, cmd.name) /\ cmd.pos = IndexOf(s.views, cmd.name)
         \/ /\ cmd.kind = "RenameView" /\ cmd.pos = IndexOf(s.views, cmd.old)
            /\ cmd.old \in Keys(s.views) /\ cmd.new \notin Keys(s.views)
         \/ /\ cmd.kind = "ReorderView"
            /\ cmd.from \in DOMAIN s.views /\ cmd.to \in DOMAIN s.views
  PROVE  Starts(cmd, prj, s)
<1> DEFINE t(e) == [conns |-> s.conns, views |-> e]
           d == s.views
<1>1. \E e : DoesView(cmd, s, t(e))
  <2>1. CASE cmd.kind = "AddView"
    <3> DEFINE put == Put(d, cmd.name, cmd.view)
    <3>1. DoesView(cmd, s, t(IF cmd.pos = 0 THEN put ELSE MoveTo(put, cmd.name, cmd.pos)))
      BY <2>1 DEF DoesView, Adds
    <3> QED BY <3>1
  <2>2. CASE cmd.kind = "DelView"
    <3>1. DoesView(cmd, s, t(Drop(d, cmd.name)))
      BY <2>2 DEF DoesView, Drops
    <3> QED BY <3>1
  <2>3. CASE cmd.kind = "RenameView"
    <3>1. DoesView(cmd, s, t(Rekeyed(d, cmd.old, cmd.new)))
      BY <2>3 DEF DoesView, Rekeys
    <3> QED BY <3>1
  <2>4. CASE cmd.kind = "ReorderView"
    <3>1. DoesView(cmd, s, t(MoveTo(d, d[cmd.from].key, cmd.to)))
      BY <2>4 DEF DoesView
    <3> QED BY <3>1
  <2> QED BY <2>1, <2>2, <2>3, <2>4
<1>2. PICK e : DoesView(cmd, s, t(e))
  BY <1>1
<1>3. t(e).conns = s.conns
  OBVIOUS
<1> HIDE DEF t
<1>4. Does(cmd, s, t(e))
  BY <1>2, <1>3, DoesIs DEF ViewKinds
<1> QED BY <1>4, StartsIs

-----------------------------------------------------------------------------
\* The panels of one view changed, the templates of one panel.
PutPanels(s, w, e) == [conns |-> s.conns, views |-> With(s.views, w, e)]
PutTemplates(s, w, p, e) == PutPanels(s, w, With(PanelsOf(s, w), p, e))

LEMMA PanelsPut ==
  ASSUME NEW s, Typed(s), NEW w \in Keys(s.views), NEW e
  PROVE  InPanels(w, s, PutPanels(s, w, e)) /\ PanelsOf(PutPanels(s, w, e), w) = e
<1> DEFINE t == PutPanels(s, w, e)
<1>1. Dict(s.views)
  BY DEF Typed, ViewsTyped
<1>2. At(With(s.views, w, e), w) = e
  BY <1>1, WithIs
<1>3. t.conns = s.conns /\ t.views = With(s.views, w, e)
  BY DEF PutPanels
<1> HIDE DEF t
<1>4. PanelsOf(t, w) = e
  BY <1>2, <1>3 DEF PanelsOf
<1>5. InPanels(w, s, t)
  BY <1>3, <1>4 DEF InPanels, InViews
<1> QED BY <1>4, <1>5 DEF t

LEMMA TemplatesPutIn ==
  ASSUME NEW s, Typed(s), NEW w \in Keys(s.views), NEW p \in Keys(PanelsOf(s, w)), NEW e
  PROVE  /\ InTemplates(w, p, s, PutTemplates(s, w, p, e))
         /\ TemplatesOf(PutTemplates(s, w, p, e), w, p) = e
<1> DEFINE d  == PanelsOf(s, w)
           ps == With(d, p, e)
           t  == PutPanels(s, w, ps)
<1>1. Dict(d)
  BY DEF Typed, ViewsTyped, Shelf, PanelsOf
<1>2. At(ps, p) = e
  BY <1>1, WithIs
<1> HIDE DEF ps
<1>3. InPanels(w, s, t) /\ PanelsOf(t, w) = ps
  BY PanelsPut
<1> HIDE DEF t
<1>4. TemplatesOf(t, w, p) = e
  BY <1>2, <1>3 DEF TemplatesOf, PanelsOf
<1>5. InTemplates(w, p, s, t)
  BY <1>3, <1>4 DEF InTemplates, ps
<1>6. t = PutTemplates(s, w, p, e)
  BY DEF PutTemplates, t, ps
<1> QED BY <1>4, <1>5, <1>6

LEMMA StartsPanel ==
  ASSUME NEW s, Typed(s), NEW prj, Has(prj, s.conns, s.views), NEW cmd, Fits(cmd),
         cmd.view \in Keys(s.views), NEW d, d = PanelsOf(s, cmd.view),
         \/ /\ cmd.kind = "AddPanel" /\ cmd.name \notin Keys(d)
            /\ cmd.src = None \/ (cmd.src # cmd.name /\ cmd.pos # 0)
         \/ /\ cmd.kind = "DelPanel" /\ cmd.name \in Keys(d)
            /\ cmd.panel = At(d, cmd.name) /\ cmd.pos = IndexOf(d, cmd.name)
         \/ /\ cmd.kind = "RenamePanel" /\ cmd.pos = IndexOf(d, cmd.old)
            /\ cmd.old \in Keys(d) /\ cmd.new \notin Keys(d)
         \/ /\ cmd.kind = "PanelOrder"
            /\ cmd.pos \in DOMAIN d /\ cmd.pos + 1 \in DOMAIN d
            /\ cmd.upper = d[cmd.pos].key /\ cmd.lower = d[cmd.pos + 1].key
  PROVE  Starts(cmd, prj, s)
<1> DEFINE Merged == cmd.kind = "RenamePanel" /\ \E ts \in Values(d) : cmd.new \in Values(ts)
<1>1. CASE Merged
  <2>1. d = At(s.views, cmd.view)
    BY DEF PanelsOf
  <2>2. "merged" \in PanelRenamed(cmd, prj, cmd.old, cmd.new).wrong
    BY <1>1, <2>1, PanelMakes
  <2>3. "merged" \in Redone(cmd, prj).wrong
    BY <1>1, <2>2 DEF Redone
  <2> QED BY <2>3 DEF Starts
<1>2. CASE ~Merged
  <2>1. \E e : DoesPanel(cmd, d, e)
    <3>1. CASE cmd.kind = "AddPanel" /\ cmd.src = None
      <4>1. DoesPanel(cmd, d, Put(d, cmd.name, cmd.panel))
        BY <3>1 DEF DoesPanel, Adds
      <4> QED BY <4>1
    <3>2. CASE cmd.kind = "AddPanel" /\ cmd.src # None
      <4> DEFINE v == Relinked(cmd.panel, cmd.src, cmd.name)
      <4>1. DoesPanel(cmd, d, MoveTo(Put(d, cmd.name, v), cmd.name, cmd.pos))
        BY <3>2 DEF DoesPanel, Adds
      <4> QED BY <4>1
    <3>3. CASE cmd.kind = "DelPanel"
      <4>1. DoesPanel(cmd, d, Drop(d, cmd.name))
        BY <3>3 DEF DoesPanel, Drops
      <4> QED BY <4>1
    <3>4. CASE cmd.kind = "RenamePanel"
      <4>1. DoesPanel(cmd, d, AllRelinked(Rekeyed(d, cmd.old, cmd.new), cmd.old, cmd.new))
        BY <1>2, <3>4 DEF DoesPanel
      <4> QED BY <4>1
    <3>5. CASE cmd.kind = "PanelOrder"
      <4>1. DoesPanel(cmd, d, MoveTo(d, cmd.lower, cmd.pos))
        BY <3>5 DEF DoesPanel, Swaps
      <4> QED BY <4>1
    <3> QED BY <3>1, <3>2, <3>3, <3>4, <3>5
  <2>2. PICK e : DoesPanel(cmd, d, e)
    BY <2>1
  <2> DEFINE w == cmd.view
             t == PutPanels(s, w, e)
  <2>3. InPanels(w, s, t) /\ PanelsOf(t, w) = e
    BY PanelsPut
  <2> HIDE DEF t
  <2>4. Does(cmd, s, t)
    BY <2>2, <2>3, DoesIs DEF PanelKinds
  <2> QED BY <2>4, StartsIs
<1> QED BY <1>1, <1>2

LEMMA StartsTemplate ==
  ASSUME NEW s, Typed(s), NEW prj, Has(prj, s.conns, s.views), NEW cmd, Fits(cmd),
         NEW w \in Keys(s.views), w = cmd.view,
         NEW p \in Keys(PanelsOf(s, w)), p = cmd.panel,
         NEW d, d = TemplatesOf(s, w, p),
         \/ cmd.kind = "AddSelection" /\ Keys(cmd.ts) \cap Keys(d) = {}
         \/ /\ cmd.kind = "RenameTemplate" /\ cmd.pos = IndexOf(d, cmd.old)
            /\ cmd.old \in Keys(d)
         \/ /\ cmd.kind = "TabOrder"
            /\ cmd.pos \in DOMAIN d /\ cmd.pos + 1 \in DOMAIN d
            /\ cmd.upper = d[cmd.pos].key /\ cmd.lower = d[cmd.pos + 1].key
         \/ /\ cmd.kind = "SetLink" /\ cmd.templ \in Keys(d)
            /\ cmd.old = At(d, cmd.templ)
  PROVE  Starts(cmd, prj, s)
<1> DEFINE Overwritten == cmd.kind = "RenameTemplate" /\ cmd.new \in Keys(d)
<1>1. CASE Overwritten
  <2>1. d = At(At(s.views, cmd.view), cmd.panel)
    BY DEF TemplatesOf
  <2>2. "overwritten" \in TemplateRenamed(cmd, prj, cmd.old, cmd.new).wrong
    BY <1>1, <2>1, TemplateMakes
  <2>3. "overwritten" \in Redone(cmd, prj).wrong
    BY <1>1, <2>2 DEF Redone
  <2> QED BY <2>3 DEF Starts
<1>2. CASE ~Overwritten
  <2>1. \E e : DoesTemplate(cmd, d, e)
    <3>1. CASE cmd.kind = "AddSelection"
      <4>1. DoesTemplate(cmd, d, d \o cmd.ts)
        BY <3>1 DEF DoesTemplate
      <4> QED BY <4>1
    <3>2. CASE cmd.kind = "RenameTemplate"
      <4>1. DoesTemplate(cmd, d, Rekeyed(d, cmd.old, cmd.new))
        BY <1>2, <3>2 DEF DoesTemplate, Rekeys
      <4> QED BY <4>1
    <3>3. CASE cmd.kind = "TabOrder"
      <4>1. DoesTemplate(cmd, d, MoveTo(d, cmd.lower, cmd.pos))
        BY <3>3 DEF DoesTemplate, Swaps
      <4> QED BY <4>1
    <3>4. CASE cmd.kind = "SetLink"
      <4>1. DoesTemplate(cmd, d, With(d, cmd.templ, cmd.new))
        BY <3>4 DEF DoesTemplate
      <4> QED BY <4>1
    <3> QED BY <3>1, <3>2, <3>3, <3>4
  <2>2. PICK e : DoesTemplate(cmd, d, e)
    BY <2>1
  <2> DEFINE t == PutTemplates(s, w, p, e)
  <2>3. InTemplates(w, p, s, t) /\ TemplatesOf(t, w, p) = e
    BY TemplatesPutIn
  <2> HIDE DEF t
  <2>4. Does(cmd, s, t)
    BY <2>2, <2>3, DoesIs DEF TemplateKinds
  <2> QED BY <2>4, StartsIs
<1> QED BY <1>1, <1>2

\* Templates of d, as they are.
Selected(ts, d) ==
  \A i \in DOMAIN ts : ts[i].key \in Keys(d) /\ ts[i].val = At(d, ts[i].key)

\* The positions of the templates deleted are found only now.
LEMMA StartsDeletion ==
  ASSUME NEW s, Typed(s), NEW prj, Has(prj, s.conns, s.views), NEW cmd, Fits(cmd),
         cmd.kind = "DelSelection",
         cmd.view \in Keys(s.views), cmd.panel \in Keys(PanelsOf(s, cmd.view)),
         NEW d, d = TemplatesOf(s, cmd.view, cmd.panel),
         Selected(cmd.ts, d)
  PROVE  Starts(cmd, prj, s)
<1> DEFINE ts  == cmd.ts
           e   == Deleted(d, ts).left
           pos == Deleted(d, ts).pos
<1>1. Dict(ts)
  BY DEF Fits
<1>2. Dict(d)
  BY DEF Typed, ViewsTyped, Shelf, PanelsOf, TemplatesOf
<1>3. DropsAll(ts, pos, d, e)
  BY <1>1, <1>2, DeletedIs DEF Selected
<1> HIDE DEF e, pos
<1> DEFINE t == PutTemplates(s, cmd.view, cmd.panel, e)
<1>4. /\ InTemplates(cmd.view, cmd.panel, s, t)
      /\ TemplatesOf(t, cmd.view, cmd.panel) = e
  BY TemplatesPutIn
<1> HIDE DEF t
<1> DEFINE r == RedoDelSelection(cmd, prj)
<1>5. There(r, s, t)
  <2>1. /\ InTemplates(cmd.view, cmd.panel, s, t)
        /\ DropsAll(cmd.ts, pos, TemplatesOf(s, cmd.view, cmd.panel),
                    TemplatesOf(t, cmd.view, cmd.panel))
    BY <1>3, <1>4
  <2> QED BY <2>1, DeletedThere
<1> HIDE DEF r
<1>6. Does(r.cmd, s, r.prj)
  BY <1>5, SameDoes DEF There, Has
<1>7. r = Redone(cmd, prj)
  BY DEF Redone, r
<1> QED BY <1>6, <1>7 DEF Starts

LEMMA StartsBinding ==
  ASSUME NEW s, Typed(s), NEW prj, Has(prj, s.conns, s.views), NEW cmd, Fits(cmd),
         cmd.kind = "ChangeBinding"
  PROVE  Starts(cmd, prj, s)
<1>1. Does(cmd, s, s)
  BY DoesIs
<1> QED BY <1>1, StartsIs

-----------------------------------------------------------------------------
(***************************************************************************)
(* The stack leads along the history.                                      *)
(***************************************************************************)
Doing(st, pa) == \A i \in DOMAIN st : Does(st[i], pa[i], pa[i + 1])

LEMMA DoingPush ==
  ASSUME NEW st, NEW T, st \in Seq(T), NEW pa, Recording(st, pa), Doing(st, pa),
         NEW n \in 0..Len(st), NEW c, NEW x, Does(c, pa[n + 1], x)
  PROVE  /\ Doing(Append(SubSeq(st, 1, n), c), Append(SubSeq(pa, 1, n + 1), x))
         /\ Append(SubSeq(pa, 1, n + 1), x)[n + 2] = x
<1> DEFINE ts == Append(SubSeq(st, 1, n), c)
           m  == n + 1
           qa == Append(SubSeq(pa, 1, m), x)
<1>1. /\ DOMAIN st = 1..Len(st) /\ Len(st) \in Nat
      /\ DOMAIN pa = 1..(Len(st) + 1) /\ Len(pa) = Len(st) + 1
      /\ \A i \in 1..Len(st) : Does(st[i], pa[i], pa[i + 1])
  BY RecordingIs DEF Doing
<1>2. PICK U : pa \in Seq(U)
  BY RecordingIs
<1>3. Prolongs(ts, st, n, c)
  BY Prolonged
<1>4. n \in Int /\ m = n + 1 /\ m \in 0..Len(pa) /\ n + 2 = m + 1 /\ n <= Len(st)
  BY <1>1
<1> HIDE DEF m
<1>5. Prolongs(qa, pa, m, x)
  BY <1>2, <1>4, Prolonged
<1> HIDE DEF ts, qa
<1>6. /\ DOMAIN ts = 1..(n + 1) /\ \A i \in 1..n : ts[i] = st[i]
      /\ ts[n + 1] = c
  BY <1>3 DEF Prolongs
<1>7. (\A i \in 1..m : qa[i] = pa[i]) /\ qa[m + 1] = x
  BY <1>5 DEF Prolongs
<1>8. ASSUME NEW i \in 1..(n + 1)
      PROVE  Does(ts[i], qa[i], qa[i + 1])
  <2>1. i \in 1..n \/ i = n + 1
    BY <1>4
  <2>2. CASE i \in 1..n
    <3>1. i \in 1..Len(st) /\ i \in 1..m /\ i + 1 \in 1..m
      BY <1>1, <1>4, <2>2
    <3> QED BY <1>1, <1>6, <1>7, <2>2, <3>1
  <2>3. CASE i = n + 1
    <3>1. i = m /\ i \in 1..m /\ i + 1 = m + 1
      BY <1>4, <2>3
    <3>2. qa[i] = pa[n + 1] /\ qa[i + 1] = x /\ ts[i] = c
      BY <1>4, <1>6, <1>7, <2>3, <3>1
    <3> QED BY <3>2
  <2> QED BY <2>1, <2>2, <2>3
<1>9. Doing(ts, qa)
  BY <1>6, <1>8 DEF Doing
<1>10. qa[n + 2] = x
  BY <1>4, <1>7
<1> QED BY <1>9, <1>10 DEF ts, qa, m

LEMMA DoingReplace ==
  ASSUME NEW st, NEW T, st \in Seq(T), NEW pa, Doing(st, pa),
         NEW k \in 1..Len(st), NEW c, Does(c, pa[k], pa[k + 1])
  PROVE  Doing([st EXCEPT ![k] = c], pa)
<1> DEFINE ts == [st EXCEPT ![k] = c]
<1>1. DOMAIN ts = DOMAIN st /\ k \in DOMAIN st
      /\ \A i \in DOMAIN st : ts[i] = IF i = k THEN c ELSE st[i]
  OBVIOUS
<1> HIDE DEF ts
<1>2. Doing(ts, pa)
  BY <1>1 DEF Doing
<1> QED BY <1>2 DEF ts

\* Nothing has gone wrong with a name or a link.
Clean(wrong) == wrong \cap {"merged", "overwritten"} = {}

LEMMA CleanIs ==
  ASSUME NEW V, NEW W, Clean(V \cup W)
  PROVE  Clean(V) /\ Clean(W)
BY DEF Clean

LEMMA WalkIs ==
  Walk <=> (Clean(slips) => /\ project.conns = past[last + 1].conns
                            /\ project.views = past[last + 1].views
                            /\ Doing(stack, past))
BY DEF Walk, Clean, Doing

LEMMA WalkNext ==
  ASSUME Clean(slips') => /\ project'.conns = past'[last' + 1].conns
                          /\ project'.views = past'[last' + 1].views
                          /\ Doing(stack', past')
  PROVE  Walk'
BY DEF Walk, Clean, Doing

LEMMA PushWalk ==
  ASSUME Listing, Kept, Walk, NEW cmd, NEW prj, Starts(cmd, prj, project),
         Push(cmd, prj)
  PROVE  Walk'
<1> DEFINE r == Redone(cmd, prj)
           q == r.prj
           c == r.cmd
           x == Content(q)
<1>1. /\ project' = q /\ stack' = Append(SubSeq(stack, 1, last), c)
      /\ last' = last + 1
      /\ past' = Append(SubSeq(past, 1, last + 1), x)
      /\ slips' = slips \cup r.wrong
  BY DEF Push
<1>2. Clean(r.wrong) => Does(c, project, q)
  BY DEF Starts, Clean
<1>3. x.conns = q.conns /\ x.views = q.views
  BY DEF Content
<1> HIDE DEF x, c, q, r
<1>4. SUFFICES ASSUME Clean(slips')
               PROVE  /\ project'.conns = past'[last' + 1].conns
                      /\ project'.views = past'[last' + 1].views
                      /\ Doing(stack', past')
  BY WalkNext
<1>5. Clean(slips) /\ Clean(r.wrong)
  BY <1>1, <1>4, CleanIs
<1>6. /\ project.conns = past[last + 1].conns
      /\ project.views = past[last + 1].views
      /\ Doing(stack, past)
  BY <1>5, WalkIs
<1>7. Does(c, past[last + 1], x)
  BY <1>2, <1>3, <1>5, <1>6, SameDoes
<1>8. PICK T : stack \in Seq(T)
  BY ListingIs
<1>9. last \in 0..Len(stack) /\ last \in Nat /\ last' + 1 = last + 2
  BY <1>1, ListingIs
<1>10. Recording(stack, past)
  BY DEF Kept
<1>11. Doing(stack', past') /\ past'[last + 2] = x
  <2> DEFINE n == last
  <2>1. n \in 0..Len(stack) /\ Does(c, past[n + 1], x)
    BY <1>7, <1>9
  <2>2. /\ stack' = Append(SubSeq(stack, 1, n), c)
        /\ past' = Append(SubSeq(past, 1, n + 1), x)
    BY <1>1
  <2> HIDE DEF n
  <2>3. /\ Doing(Append(SubSeq(stack, 1, n), c), Append(SubSeq(past, 1, n + 1), x))
        /\ Append(SubSeq(past, 1, n + 1), x)[n + 2] = x
    BY <1>6, <1>8, <1>10, <2>1, DoingPush
  <2>4. Doing(stack', past') /\ past'[n + 2] = x
    BY <2>2, <2>3
  <2> QED BY <2>4 DEF n
<1> QED BY <1>1, <1>3, <1>9, <1>11

\* Undo and redo.
LEMMA ReplaceWalk ==
  ASSUME Listing, Walk, NEW k \in 1..Len(stack), NEW r, NEW i,
         project' = r.prj, stack' = [stack EXCEPT ![k] = r.cmd], last' + 1 = i,
         past' = past, slips' = slips \cup r.wrong,
         Clean(slips) => /\ Has(r.prj, past[i].conns, past[i].views)
                         /\ Does(r.cmd, past[k], past[k + 1])
  PROVE  Walk'
<1>1. SUFFICES ASSUME Clean(slips')
               PROVE  /\ project'.conns = past'[last' + 1].conns
                      /\ project'.views = past'[last' + 1].views
                      /\ Doing(stack', past')
  BY WalkNext
<1>2. Clean(slips)
  BY <1>1, CleanIs
<1>3. Doing(stack, past)
  BY <1>2, WalkIs
<1>4. PICK T : stack \in Seq(T)
  BY ListingIs
<1> DEFINE c == r.cmd
<1>5. stack' = [stack EXCEPT ![k] = c] /\ Does(c, past[k], past[k + 1])
  BY <1>2
<1> HIDE DEF c
<1>6. Doing([stack EXCEPT ![k] = c], past)
  BY <1>3, <1>4, <1>5, DoingReplace
<1>7. Doing(stack', past')
  BY <1>5, <1>6
<1>8. /\ project'.conns = past'[last' + 1].conns
      /\ project'.views = past'[last' + 1].views
  BY <1>2 DEF Has
<1> QED BY <1>7, <1>8

LEMMA StackDoes ==
  ASSUME Listing, Kept, Walk, Clean(slips), NEW k \in 1..Len(stack), NEW prj
  PROVE  Commutes(stack[k], prj, past[k], past[k + 1])
<1>1. PICK T : stack \in Seq(T)
  BY ListingIs
<1>2. Recording(stack, past)
  BY DEF Kept
<1>3. Fits(stack[k]) /\ Typed(past[k]) /\ k \in DOMAIN stack
  BY <1>1, <1>2, RecordingIs
<1>4. Does(stack[k], past[k], past[k + 1])
  BY <1>3, WalkIs DEF Doing
<1> QED BY <1>3, <1>4, CommandCommutes

LEMMA UndoWalk ==
  ASSUME Listing, Kept, Walk, Undo
  PROVE  Walk'
<1> DEFINE k == last
           r == Undone(stack[k], project)
<1>1. k \in 1..Len(stack) /\ k \in Int
  BY ListingIs DEF Undo
<1>2. /\ project' = r.prj /\ stack' = [stack EXCEPT ![k] = r.cmd]
      /\ slips' = slips \cup r.wrong /\ last' + 1 = k /\ past' = past
  BY <1>1 DEF Undo
<1>3. Clean(slips) => Has(project, past[k + 1].conns, past[k + 1].views)
  BY WalkIs DEF Kept, Known, Has
<1> HIDE DEF k
<1>4. Clean(slips) => /\ Has(r.prj, past[k].conns, past[k].views)
                      /\ Does(r.cmd, past[k], past[k + 1])
  BY <1>1, <1>3, StackDoes DEF Commutes, BothWays, Back
<1> HIDE DEF r
<1> QED BY <1>1, <1>2, <1>4, ReplaceWalk

LEMMA RedoWalk ==
  ASSUME Listing, Kept, Walk, Redo
  PROVE  Walk'
<1> DEFINE k == last + 1
           r == Redone(stack[k], project)
<1>1. k \in 1..Len(stack) /\ k \in Int
  BY ListingIs DEF Redo
<1>2. /\ project' = r.prj /\ stack' = [stack EXCEPT ![k] = r.cmd]
      /\ slips' = slips \cup r.wrong /\ last' + 1 = k + 1 /\ past' = past
  BY DEF Redo
<1>3. Clean(slips) => Has(project, past[k].conns, past[k].views)
  BY WalkIs DEF Kept, Known, Has
<1> HIDE DEF k
<1>4. Clean(slips) => /\ Has(r.prj, past[k + 1].conns, past[k + 1].views)
                      /\ Does(r.cmd, past[k], past[k + 1])
  BY <1>1, <1>3, StackDoes DEF Commutes, BothWays, There
<1> HIDE DEF r
<1> QED BY <1>1, <1>2, <1>4, ReplaceWalk

-----------------------------------------------------------------------------
(***************************************************************************)
(* Every action keeps the history true.                                    *)
(***************************************************************************)
\* The project with the bindings it has, or others.
Rebound(prj) == Has(prj, project.conns, project.views)

\* What a step keeps: what finds its connection, view and panel still does; what
\* leads there and back still does.
Onwards == Kept' /\ (Walk => Walk')

LEMMA KeptIs ==
  ASSUME Listing, Kept
  PROVE  /\ Rebound(project) /\ \A S : Rebound(Unbound(project, S))
         /\ \A bs : Rebound([project EXCEPT !.bs = bs])
         /\ Typed(project) /\ slips \subseteq Causes
<1>1. Fielded(project) /\ Typed(project)
  BY DEF Kept, Known
<1>2. Rebound(project)
  BY <1>1 DEF Has, Rebound
<1>3. \A bs : Rebound([project EXCEPT !.bs = bs])
  BY <1>1 DEF Has, Rebound, Fielded
<1>4. \A S : Rebound(Unbound(project, S))
  BY <1>1 DEF Has, Rebound, Fielded, Unbound
<1> QED BY <1>1, <1>2, <1>3, <1>4 DEF Kept

LEMMA FindsFits ==
  ASSUME NEW cmd, Finds(cmd)
  PROVE  Fits(cmd)
BY DEF Finds, Ok

LEMMA PushOnwards ==
  ASSUME Listing, Kept, NEW cmd, Finds(cmd), NEW prj, Rebound(prj),
         Starts(cmd, prj, project), Push(cmd, prj)
  PROVE  Onwards
<1>1. Known(prj, Keys(project.conns), Catalog(project.views))
  <2>1. Typed(project)
    BY KeptIs
  <2> QED BY <2>1 DEF Rebound, Has, Known, Typed
<1>2. Kept'
  BY <1>1, PushKept
<1>3. Walk => Walk'
  BY PushWalk
<1> QED BY <1>2, <1>3 DEF Onwards

LEMMA ExecuteOnwards ==
  ASSUME Listing, Kept, NEW cmd, Finds(cmd), NEW prj, Rebound(prj),
         Starts(cmd, prj, project), Execute(cmd, prj)
  PROVE  Onwards
BY PushOnwards DEF Execute

\* What the project has, by name.
LEMMA HasConnection ==
  ASSUME Listing, Kept, NEW c \in Keys(project.conns)
  PROVE  Connection(At(project.conns, c)) /\ Dict(VarsOf(project, c))
BY KeptIs DEF Typed, ConnsTyped, Connection, VarsOf

LEMMA HasView ==
  ASSUME Listing, Kept, NEW w \in Keys(project.views)
  PROVE  /\ Shelf(PanelsOf(project, w)) /\ Dict(PanelsOf(project, w))
         /\ \A p \in Keys(PanelsOf(project, w)) : Dict(TemplatesOf(project, w, p))
BY KeptIs DEF Typed, ViewsTyped, Shelf, PanelsOf, TemplatesOf

LEMMA ConnectionDialogsOnwards ==
  ASSUME Listing, Kept, ConnectionDialogs
  PROVE  Onwards
<1>1. ASSUME NEW cn, NEW c \in Imports, cn \notin Keys(project.conns),
             Execute(AddConnection(cn, c), project)
      PROVE  Onwards
  <2> DEFINE cmd == AddConnection(cn, c)
  <2>1. /\ {"kind", "cn", "c"} \subseteq DOMAIN cmd /\ cmd.kind = "AddConnection"
        /\ cmd.c = c /\ cmd.cn = cn
    BY DEF AddConnection
  <2>2. Connection(c)
    BY DataAssumption
  <2> HIDE DEF cmd
  <2>3. Finds(cmd)
    BY <1>1, <2>1, <2>2, FindsConnection
  <2>4. Starts(cmd, project, project)
    BY <1>1, <2>1, <2>3, KeptIs, FindsFits, StartsConnection DEF Rebound
  <2>5. Execute(cmd, project)
    BY <1>1 DEF cmd
  <2> QED BY <2>3, <2>4, <2>5, KeptIs, ExecuteOnwards
<1>2. ASSUME NEW cn \in Keys(project.conns), NEW c \in Imports, NEW S,
             Execute(Reimport(project, cn, c), Unbound(project, S))
      PROVE  Onwards
  <2> DEFINE cmd == Reimport(project, cn, c)
  <2>1. /\ {"kind", "cn", "c", "old", "pos"} \subseteq DOMAIN cmd
        /\ cmd.kind = "Reimport"
        /\ cmd.c = c /\ cmd.cn = cn /\ cmd.old = At(project.conns, cn)
        /\ cmd.pos = IndexOf(project.conns, cn)
    BY DEF Reimport
  <2>2. Connection(c) /\ Connection(At(project.conns, cn))
    BY DataAssumption, HasConnection
  <2> HIDE DEF cmd
  <2>3. Finds(cmd)
    BY <2>1, <2>2, FindsConnection
  <2> DEFINE prj == Unbound(project, S)
  <2>4. Rebound(prj)
    BY KeptIs
  <2>5. Execute(cmd, prj)
    BY <1>2 DEF cmd
  <2> HIDE DEF prj
  <2>6. Starts(cmd, prj, project)
    BY <2>1, <2>3, <2>4, KeptIs, FindsFits, StartsConnection DEF Rebound
  <2> QED BY <2>3, <2>4, <2>5, <2>6, ExecuteOnwards
<1>3. ASSUME NEW cn \in Keys(project.conns), NEW S,
             Execute(DelConnection(project, cn), Unbound(project, S))
      PROVE  Onwards
  <2> DEFINE cmd == DelConnection(project, cn)
  <2>1. /\ {"kind", "cn", "c"} \subseteq DOMAIN cmd /\ cmd.kind = "DelConnection"
        /\ cmd.c = At(project.conns, cn) /\ cmd.cn = cn
        /\ cmd.pos = IndexOf(project.conns, cn)
    BY DEF DelConnection
  <2>2. Connection(At(project.conns, cn))
    BY HasConnection
  <2> HIDE DEF cmd
  <2>3. Finds(cmd)
    BY <2>1, <2>2, FindsConnection
  <2> DEFINE prj == Unbound(project, S)
  <2>4. Rebound(prj)
    BY KeptIs
  <2>5. Execute(cmd, prj)
    BY <1>3 DEF cmd
  <2> HIDE DEF prj
  <2>6. Starts(cmd, prj, project)
    BY <2>1, <2>3, <2>4, KeptIs, FindsFits, StartsConnection DEF Rebound
  <2> QED BY <2>3, <2>4, <2>5, <2>6, ExecuteOnwards
<1> QED BY <1>1, <1>2, <1>3 DEF ConnectionDialogs

LEMMA VariableDialogsOnwards ==
  ASSUME Listing, Kept, VariableDialogs
  PROVE  Onwards
<1>1. ASSUME NEW cn \in Keys(project.conns), NEW vn, vn \notin Keys(VarsOf(project, cn)),
             NEW vt, Execute(AddVariable(cn, vn, vt), project)
      PROVE  Onwards
  <2> DEFINE cmd == AddVariable(cn, vn, vt)
  <2>1. /\ "kind" \in DOMAIN cmd /\ cmd.kind \in VariableKinds /\ cmd.cn = cn
        /\ cmd.kind = "AddVariable" /\ cmd.vn = vn
    BY DEF AddVariable, VariableKinds
  <2> HIDE DEF cmd
  <2>2. Finds(cmd)
    BY <2>1, FindsVariable
  <2>3. Starts(cmd, project, project)
    BY <1>1, <2>1, <2>2, KeptIs, FindsFits, StartsVariable DEF Rebound
  <2>4. Execute(cmd, project)
    BY <1>1 DEF cmd
  <2> QED BY <2>2, <2>3, <2>4, KeptIs, ExecuteOnwards
<1>2. ASSUME NEW cn \in Keys(project.conns), NEW vn \in Keys(VarsOf(project, cn)),
             NEW S, Execute(DelVariable(project, cn, vn), Unbound(project, S))
      PROVE  Onwards
  <2> DEFINE cmd == DelVariable(project, cn, vn)
  <2>1. /\ "kind" \in DOMAIN cmd /\ cmd.kind \in VariableKinds /\ cmd.cn = cn
        /\ cmd.kind = "DelVariable" /\ cmd.vn = vn
        /\ cmd.vt = At(VarsOf(project, cn), vn)
        /\ cmd.pos = IndexOf(VarsOf(project, cn), vn)
    BY DEF DelVariable, VariableKinds
  <2> HIDE DEF cmd
  <2>2. Finds(cmd)
    BY <2>1, FindsVariable
  <2> DEFINE prj == Unbound(project, S)
  <2>3. Rebound(prj)
    BY KeptIs
  <2>4. Execute(cmd, prj)
    BY <1>2 DEF cmd
  <2> HIDE DEF prj
  <2>5. Starts(cmd, prj, project)
    BY <2>1, <2>2, <2>3, KeptIs, FindsFits, StartsVariable DEF Rebound
  <2> QED BY <2>2, <2>3, <2>4, <2>5, ExecuteOnwards
<1> QED BY <1>1, <1>2 DEF VariableDialogs

LEMMA NoDict == Dict(<< >>) /\ Shelf(<< >>)
<1>1. Dict(<< >>) /\ Keys(<< >>) = {}
  BY DEF Dict, IsDict, Keys
<1> QED BY <1>1 DEF Shelf

LEMMA ViewDialogOnwards ==
  ASSUME Listing, Kept, ViewDialog
  PROVE  Onwards
<1>1. ASSUME NEW n, n \notin Keys(project.views), NEW cmd, Execute(cmd, project),
             \/ cmd = AddView(n)
             \/ \E src \in Keys(project.views) : cmd = DupView(project, src, n)
      PROVE  Onwards
  <2>1. /\ {"kind", "name", "view", "pos"} \subseteq DOMAIN cmd /\ cmd.kind = "AddView"
        /\ cmd.name = n
        /\ cmd.view = << >> \/ \E src \in Keys(project.views) :
                                 cmd.view = PanelsOf(project, src)
    BY <1>1 DEF AddView, DupView
  <2>2. Shelf(cmd.view)
    BY <2>1, NoDict, HasView
  <2>3. Finds(cmd)
    BY <1>1, <2>1, <2>2, FindsView
  <2>4. Starts(cmd, project, project)
    BY <1>1, <2>1, <2>3, KeptIs, FindsFits, StartsView DEF Rebound
  <2> QED BY <1>1, <2>3, <2>4, KeptIs, ExecuteOnwards
<1>2. ASSUME NEW n \in Keys(project.views), NEW S,
             Execute(DelView(project, n), Unbound(project, S))
      PROVE  Onwards
  <2> DEFINE cmd == DelView(project, n)
  <2>1. /\ {"kind", "name", "view", "pos"} \subseteq DOMAIN cmd /\ cmd.kind = "DelView"
        /\ cmd.name = n /\ cmd.view = PanelsOf(project, n)
        /\ cmd.pos = IndexOf(project.views, n)
    BY DEF DelView
  <2> HIDE DEF cmd
  <2>2. Shelf(cmd.view)
    BY <2>1, HasView
  <2>3. Finds(cmd)
    BY <2>1, <2>2, FindsView
  <2> DEFINE prj == Unbound(project, S)
  <2>4. Rebound(prj)
    BY KeptIs
  <2>5. Execute(cmd, prj)
    BY <1>2 DEF cmd
  <2> HIDE DEF prj
  <2>6. cmd.view = At(project.views, n)
    BY <2>1 DEF PanelsOf
  <2>7. Starts(cmd, prj, project)
    BY <2>1, <2>3, <2>4, <2>6, KeptIs, FindsFits, StartsView DEF Rebound
  <2> QED BY <2>3, <2>4, <2>5, <2>7, ExecuteOnwards
<1>3. ASSUME NEW i \in DOMAIN project.views, NEW j \in DOMAIN project.views,
             Execute(ReorderView(i, j), project)
      PROVE  Onwards
  <2> DEFINE cmd == ReorderView(i, j)
  <2>1. /\ "kind" \in DOMAIN cmd /\ cmd.kind = "ReorderView"
        /\ cmd.from = i /\ cmd.to = j
    BY DEF ReorderView
  <2> HIDE DEF cmd
  <2>2. Finds(cmd)
    BY <2>1, FindsView
  <2>3. Starts(cmd, project, project)
    BY <2>1, <2>2, KeptIs, FindsFits, StartsView DEF Rebound
  <2>4. Execute(cmd, project)
    BY <1>3 DEF cmd
  <2> QED BY <2>2, <2>3, <2>4, KeptIs, ExecuteOnwards
<1> QED BY <1>1, <1>2, <1>3 DEF ViewDialog

LEMMA PanelDialogOnwards ==
  ASSUME Listing, Kept, PanelDialog
  PROVE  Onwards
<1>1. ASSUME NEW w \in Keys(project.views), NEW n, n \notin Keys(PanelsOf(project, w)),
             NEW cmd, Execute(cmd, project),
             \/ cmd = AddPanel(w, n)
             \/ \E src \in Keys(PanelsOf(project, w)) : cmd = DupPanel(project, w, src, n)
      PROVE  Onwards
  <2>1. /\ {"kind", "view", "name", "panel", "pos", "src"} \subseteq DOMAIN cmd
        /\ cmd.kind = "AddPanel" /\ cmd.view = w /\ cmd.name = n
        /\ cmd.panel = << >> \/ \E src \in Keys(PanelsOf(project, w)) :
                                 cmd.panel = TemplatesOf(project, w, src)
    BY <1>1 DEF AddPanel, DupPanel
  <2>2. Dict(cmd.panel)
    BY <2>1, NoDict, HasView
  <2>3. Finds(cmd)
    BY <1>1, <2>1, <2>2, FindsPanel
  <2>4. cmd.src = None \/ (cmd.src # cmd.name /\ cmd.pos # 0)
    <3>1. CASE cmd = AddPanel(w, n)
      <4>1. AddPanel(w, n).src = None
        BY DEF AddPanel
      <4> QED BY <3>1, <4>1
    <3>2. CASE \E src \in Keys(PanelsOf(project, w)) : cmd = DupPanel(project, w, src, n)
      <4>1. PICK src \in Keys(PanelsOf(project, w)) : cmd = DupPanel(project, w, src, n)
        BY <3>2
      <4>2. cmd.src = src /\ cmd.name = n /\ cmd.pos = IndexOf(PanelsOf(project, w), src) + 1
        BY <4>1 DEF DupPanel
      <4> DEFINE d == PanelsOf(project, w)
      <4>3. Dict(d)
        BY HasView
      <4> HIDE DEF d
      <4>4. IndexOf(d, src) \in DOMAIN d
        BY <4>1, <4>3, IndexAt DEF d
      <4>5. IndexOf(d, src) \in Nat
        BY <4>3, <4>4, DictIs
      <4>6. cmd.pos # 0
        BY <4>2, <4>5 DEF d
      <4>7. cmd.src # cmd.name
        BY <1>1, <4>1, <4>2
      <4> QED BY <4>6, <4>7
    <3> QED BY <1>1, <3>1, <3>2
  <2>5. Starts(cmd, project, project)
    BY <1>1, <2>1, <2>3, <2>4, KeptIs, FindsFits, StartsPanel DEF Rebound
  <2> QED BY <1>1, <2>3, <2>5, KeptIs, ExecuteOnwards
<1>2. ASSUME NEW w \in Keys(project.views), NEW n \in Keys(PanelsOf(project, w)), NEW S,
             Execute(DelPanel(project, w, n), Unbound(project, S))
      PROVE  Onwards
  <2> DEFINE cmd == DelPanel(project, w, n)
  <2>1. /\ {"kind", "view", "name", "panel", "pos"} \subseteq DOMAIN cmd
        /\ cmd.kind = "DelPanel" /\ cmd.view = w
        /\ cmd.name = n /\ cmd.panel = TemplatesOf(project, w, n)
        /\ cmd.pos = IndexOf(PanelsOf(project, w), n)
    BY DEF DelPanel
  <2> HIDE DEF cmd
  <2>2. Dict(cmd.panel)
    BY <2>1, HasView
  <2>3. Finds(cmd)
    BY <2>1, <2>2, FindsPanel
  <2> DEFINE prj == Unbound(project, S)
  <2>4. Rebound(prj)
    BY KeptIs
  <2>5. Execute(cmd, prj)
    BY <1>2 DEF cmd
  <2> HIDE DEF prj
  <2>6. cmd.panel = At(PanelsOf(project, w), n)
    BY <2>1 DEF TemplatesOf, PanelsOf
  <2>7. Starts(cmd, prj, project)
    BY <2>1, <2>3, <2>4, <2>6, KeptIs, FindsFits, StartsPanel DEF Rebound
  <2> QED BY <2>3, <2>4, <2>5, <2>7, ExecuteOnwards
<1>3. ASSUME NEW w \in Keys(project.views), NEW i \in DOMAIN PanelsOf(project, w),
             i + 1 \in DOMAIN PanelsOf(project, w), Execute(PanelOrder(project, w, i), project)
      PROVE  Onwards
  <2> DEFINE cmd == PanelOrder(project, w, i)
  <2>1. /\ {"kind", "view"} \subseteq DOMAIN cmd /\ cmd.kind = "PanelOrder" /\ cmd.view = w
        /\ cmd.pos = i
        /\ cmd.upper = PanelsOf(project, w)[i].key
        /\ cmd.lower = PanelsOf(project, w)[i + 1].key
    BY DEF PanelOrder
  <2> HIDE DEF cmd
  <2>2. Finds(cmd)
    BY <2>1, FindsPanel
  <2>3. Starts(cmd, project, project)
    BY <1>3, <2>1, <2>2, KeptIs, FindsFits, StartsPanel DEF Rebound
  <2>4. Execute(cmd, project)
    BY <1>3 DEF cmd
  <2> QED BY <2>2, <2>3, <2>4, KeptIs, ExecuteOnwards
<1> QED BY <1>1, <1>2, <1>3 DEF PanelDialog

-----------------------------------------------------------------------------
\* A selection is a dictionary: its names are different.
LEMMA SelectionDict ==
  ASSUME NEW names, NEW sel \in Selections(names), NEW F
  PROVE  /\ Dict([i \in DOMAIN sel |-> Entry(sel[i], F[i])])
         /\ Keys([i \in DOMAIN sel |-> Entry(sel[i], F[i])]) \subseteq names
         /\ \A i \in DOMAIN sel : sel[i] \in names
<1> DEFINE d == [i \in DOMAIN sel |-> Entry(sel[i], F[i])]
<1>1. \E n \in Nat : DOMAIN sel = 1..n
  <2>1. CASE \E t \in names : sel = <<t>>
    <3>1. DOMAIN sel = 1..1
      BY <2>1
    <3> QED BY <3>1
  <2>2. CASE sel \in names \X names
    <3>1. DOMAIN sel = 1..2
      BY <2>2
    <3> QED BY <3>1
  <2> QED BY <2>1, <2>2 DEF Selections
<1>2. \A i, j \in DOMAIN sel : sel[i] = sel[j] => i = j
  <2>1. CASE \E t \in names : sel = <<t>>
    BY <2>1
  <2>2. CASE sel \in names \X names /\ sel[1] # sel[2]
    BY <2>2
  <2> QED BY <2>1, <2>2 DEF Selections
<1>3. DOMAIN d = DOMAIN sel /\ \A i \in DOMAIN d : d[i] = Entry(sel[i], F[i])
  OBVIOUS
<1>4. \A i \in DOMAIN d : d[i].key = sel[i] /\ d[i] = Entry(d[i].key, d[i].val)
  BY <1>3, EntryIs
<1>5. d \in Seq({d[i] : i \in DOMAIN d})
  <2>1. PICK n \in Nat : DOMAIN sel = 1..n
    BY <1>1
  <2> DEFINE R == {d[i] : i \in DOMAIN d}
  <2>2. d \in [1..n -> R]
    BY <2>1
  <2> HIDE DEF d, R
  <2>3. d \in Seq(R)
    BY <2>2
  <2> QED BY <2>3 DEF R
<1>6. \A i \in DOMAIN sel : sel[i] \in names
  BY DEF Selections
<1> HIDE DEF d
<1>7. Dict(d)
  BY <1>2, <1>3, <1>4, <1>5 DEF Dict, IsDict
<1>8. Keys(d) \subseteq names
  BY <1>3, <1>4, <1>6 DEF Keys
<1> QED BY <1>6, <1>7, <1>8 DEF d

LEMMA SelectionOnwards ==
  ASSUME Listing, Kept, NEW w \in Keys(project.views), NEW p \in Keys(PanelsOf(project, w)),
         NEW ts, Dict(ts), Keys(ts) \cap Keys(TemplatesOf(project, w, p)) = {},
         NEW prj, Rebound(prj), NEW bound,
         Execute(AddSelection(project, w, p, ts, bound), prj)
  PROVE  Onwards
<1> DEFINE cmd == AddSelection(project, w, p, ts, bound)
<1>1. /\ {"kind", "view", "panel", "ts"} \subseteq DOMAIN cmd
      /\ cmd.kind = "AddSelection" /\ cmd.view = w /\ cmd.panel = p /\ cmd.ts = ts
  BY DEF AddSelection
<1>2. Execute(cmd, prj)
  OBVIOUS
<1> HIDE DEF cmd
<1>3. Finds(cmd)
  BY <1>1, FindsTemplate
<1>4. Starts(cmd, prj, project)
  BY <1>1, <1>3, KeptIs, FindsFits, StartsTemplate DEF Rebound
<1> QED BY <1>2, <1>3, <1>4, ExecuteOnwards

LEMMA PlaceOnwards ==
  ASSUME Listing, Kept, NEW w \in Keys(project.views), NEW p \in Keys(PanelsOf(project, w)),
         Place(w, p)
  PROVE  Onwards
<1> DEFINE names == Templs \ Keys(TemplatesOf(project, w, p))
<1>1. PICK t \in names :
        Execute(AddSelection(project, w, p, <<Entry(t, None)>>, {}), project)
  BY DEF Place
<1> DEFINE ts  == <<Entry(t, None)>>
           sel == <<t>>
           F   == [i \in {1} |-> None]
           us  == [i \in DOMAIN sel |-> Entry(sel[i], F[i])]
<1>2. sel \in Selections(names)
  BY DEF Selections
<1>3. us = ts
  OBVIOUS
<1>4. Execute(AddSelection(project, w, p, ts, {}), project)
  BY <1>1
<1> HIDE DEF names, sel, F, ts
<1>5. Dict(us) /\ Keys(us) \subseteq names
  BY <1>2, SelectionDict
<1> HIDE DEF us
<1>6. Keys(ts) \cap Keys(TemplatesOf(project, w, p)) = {}
  BY <1>3, <1>5 DEF names
<1> QED BY <1>3, <1>4, <1>5, <1>6, KeptIs, SelectionOnwards

LEMMA PasteOnwards ==
  ASSUME Listing, Kept, NEW w \in Keys(project.views), NEW p \in Keys(PanelsOf(project, w)),
         Paste(w, p)
  PROVE  Onwards
<1> DEFINE Ts(sel) == [i \in DOMAIN sel |-> Entry(sel[i], buffer.links[i])]
           names   == Templs \ Keys(TemplatesOf(project, w, p))
<1>1. PICK sel \in Selections(names) :
        Execute(AddSelection(project, w, p, Ts(sel), buffer.bound),
                Prepared(project, w, p, Ts(sel), buffer.bound))
  BY DEF Paste
<1> DEFINE F   == buffer.links
           ts  == [i \in DOMAIN sel |-> Entry(sel[i], F[i])]
           prj == Prepared(project, w, p, ts, buffer.bound)
<1>2. Execute(AddSelection(project, w, p, ts, buffer.bound), prj)
  BY <1>1
<1>3. Dict(ts) /\ Keys(ts) \subseteq names
  <2> HIDE DEF F, names
  <2> QED BY SelectionDict
<1> HIDE DEF ts
<1>4. Rebound(prj)
  BY KeptIs DEF Prepared
<1> HIDE DEF prj
<1> QED BY <1>2, <1>3, <1>4, SelectionOnwards

LEMMA DeleteOnwards ==
  ASSUME Listing, Kept, NEW w \in Keys(project.views), NEW p \in Keys(PanelsOf(project, w)),
         Delete(w, p)
  PROVE  Onwards
<1> DEFINE d == TemplatesOf(project, w, p)
<1>1. PICK sel \in Selections(Keys(d)) : Execute(DelSelection(project, w, p, sel), project)
  BY DEF Delete
<1> DEFINE F   == [i \in DOMAIN sel |-> At(d, sel[i])]
           cmd == DelSelection(project, w, p, sel)
<1>2. /\ {"kind", "view", "panel", "ts", "pos"} \subseteq DOMAIN cmd
      /\ cmd.kind = "DelSelection" /\ cmd.view = w /\ cmd.panel = p
      /\ cmd.ts = [i \in DOMAIN sel |-> Entry(sel[i], F[i])]
  BY DEF DelSelection
<1>3. Execute(cmd, project)
  BY <1>1
<1>4. \A i \in DOMAIN sel : F[i] = At(d, sel[i])
  OBVIOUS
<1> HIDE DEF F, cmd
<1>5. Dict(cmd.ts) /\ \A i \in DOMAIN sel : sel[i] \in Keys(d)
  <2> HIDE DEF d
  <2> QED BY <1>2, SelectionDict
<1>6. Selected(cmd.ts, d)
  <2> HIDE DEF d
  <2> QED BY <1>2, <1>4, <1>5, EntryIs DEF Selected
<1>7. Finds(cmd)
  BY <1>2, <1>5, FindsTemplate
<1>8. Starts(cmd, project, project)
  BY <1>2, <1>6, <1>7, KeptIs, FindsFits, StartsDeletion DEF Rebound
<1> QED BY <1>3, <1>7, <1>8, KeptIs, ExecuteOnwards

LEMMA EditTemplateOnwards ==
  ASSUME Listing, Kept, NEW w \in Keys(project.views), NEW p \in Keys(PanelsOf(project, w)),
         EditTemplate(w, p)
  PROVE  Onwards
<1> DEFINE d == TemplatesOf(project, w, p)
           Edits(cmd) ==
             \/ /\ cmd.kind = "RenameTemplate" /\ cmd.pos = IndexOf(d, cmd.old)
                /\ cmd.old \in Keys(d)
             \/ /\ cmd.kind = "TabOrder"
                /\ cmd.pos \in DOMAIN d /\ cmd.pos + 1 \in DOMAIN d
                /\ cmd.upper = d[cmd.pos].key /\ cmd.lower = d[cmd.pos + 1].key
             \/ cmd.kind = "SetLink" /\ cmd.templ \in Keys(d) /\ cmd.old = At(d, cmd.templ)
           Inside(cmd) ==
             {"kind", "view", "panel"} \subseteq DOMAIN cmd /\ cmd.view = w /\ cmd.panel = p
<1>1. ASSUME NEW cmd, Execute(cmd, project), Inside(cmd), Edits(cmd)
      PROVE  Onwards
  <2>1. Finds(cmd)
    BY <1>1, FindsTemplate
  <2>2. Starts(cmd, project, project)
    BY <1>1, <2>1, KeptIs, FindsFits, StartsTemplate DEF Rebound
  <2> QED BY <1>1, <2>1, <2>2, KeptIs, ExecuteOnwards
<1>2. ASSUME NEW t \in Keys(d), NEW n
      PROVE  Inside(RenameTemplate(project, w, p, t, n))
             /\ Edits(RenameTemplate(project, w, p, t, n))
  BY <1>2 DEF RenameTemplate
<1>3. ASSUME NEW t \in Keys(d), NEW n
      PROVE  Inside(SetLink(project, w, p, t, n)) /\ Edits(SetLink(project, w, p, t, n))
  BY <1>3 DEF SetLink
<1>4. ASSUME NEW i \in DOMAIN d, i + 1 \in DOMAIN d
      PROVE  Inside(TabOrder(project, w, p, i)) /\ Edits(TabOrder(project, w, p, i))
  BY <1>4 DEF TabOrder
<1>5. \E cmd : Execute(cmd, project) /\ Inside(cmd) /\ Edits(cmd)
  <2> HIDE DEF Inside, Edits
  <2> QED BY <1>2, <1>3, <1>4 DEF EditTemplate
<1> HIDE DEF Inside, Edits
<1> QED BY <1>1, <1>5

LEMMA BindTemplateOnwards ==
  ASSUME Listing, Kept, NEW w, NEW p, BindTemplate(w, p)
  PROVE  Onwards
<1>1. PICK old, bs : Execute(ChangeBinding(project, old), [project EXCEPT !.bs = bs])
  BY DEF BindTemplate
<1> DEFINE cmd == ChangeBinding(project, old)
           prj == [project EXCEPT !.bs = bs]
<1>2. "kind" \in DOMAIN cmd /\ cmd.kind = "ChangeBinding"
  BY DEF ChangeBinding
<1>3. Execute(cmd, prj) /\ Rebound(prj)
  BY <1>1, KeptIs
<1> HIDE DEF cmd, prj
<1>4. Finds(cmd)
  BY <1>2, FindsBinding
<1>5. Starts(cmd, prj, project)
  BY <1>2, <1>3, <1>4, KeptIs, FindsFits, StartsBinding DEF Rebound
<1> QED BY <1>3, <1>4, <1>5, ExecuteOnwards

LEMMA TemplateActionsOnwards ==
  ASSUME Listing, Kept, TemplateActions
  PROVE  Onwards
BY PlaceOnwards, DeleteOnwards, PasteOnwards, EditTemplateOnwards, BindTemplateOnwards
   DEF TemplateActions

-----------------------------------------------------------------------------
LEMMA StaysOnwards ==
  ASSUME Kept, UNCHANGED <<project, stack, last, past, slips>>
  PROVE  Onwards
BY DEF Onwards, Kept, Walk

LEMMA ExecuteLateOnwards ==
  ASSUME Listing, Kept, ExecuteLate
  PROVE  Onwards
<1>1. CASE AsRequested(late) /\ Push(late, project)
  <2>1. "kind" \in DOMAIN late /\ late.kind \in Renames
    BY DEF Listing, ExecuteLate
  <2>2. ASSUME Finds(late), Starts(late, project, project)
        PROVE  Onwards
    BY <1>1, <2>2, KeptIs, PushOnwards
  <2>3. CASE late.kind = "RenameConnection"
    <3>1. late.old \in Keys(project.conns) /\ late.new \notin Keys(project.conns)
      BY <1>1, <2>3 DEF AsRequested
    <3>2. Finds(late)
      BY <2>1, <2>3, <3>1, FindsConnection
    <3>3. Starts(late, project, project)
      BY <2>3, <3>1, <3>2, KeptIs, FindsFits, StartsConnection DEF Rebound
    <3> QED BY <2>2, <3>2, <3>3
  <2>4. CASE late.kind = "RenameVariable"
    <3>1. /\ late.cn \in Keys(project.conns)
          /\ late.old \in Keys(VarsOf(project, late.cn))
          /\ late.new \notin Keys(VarsOf(project, late.cn))
      BY <1>1, <2>4 DEF AsRequested
    <3>2. late.kind \in VariableKinds
      BY <2>4 DEF VariableKinds
    <3>3. Finds(late)
      BY <2>1, <3>1, <3>2, FindsVariable
    <3>4. Starts(late, project, project)
      BY <2>4, <3>1, <3>3, KeptIs, FindsFits, StartsVariable DEF Rebound
    <3> QED BY <2>2, <3>3, <3>4
  <2>5. CASE late.kind = "RenameView"
    <3>1. /\ late.old \in Keys(project.views) /\ late.new \notin Keys(project.views)
          /\ RenameView(project, late.old, late.new) = late
      BY <1>1, <2>5 DEF AsRequested
    <3>2. RenameView(project, late.old, late.new).pos = IndexOf(project.views, late.old)
      BY DEF RenameView
    <3>3. late.pos = IndexOf(project.views, late.old)
      BY <3>1, <3>2
    <3>4. Finds(late)
      BY <2>1, <2>5, <3>1, FindsView
    <3>5. Starts(late, project, project)
      BY <2>5, <3>1, <3>3, <3>4, KeptIs, FindsFits, StartsView DEF Rebound
    <3> QED BY <2>2, <3>4, <3>5
  <2>6. CASE late.kind = "RenamePanel"
    <3> DEFINE w == late.view
               d == PanelsOf(project, w)
               r == RenamePanel(project, w, late.old, late.new)
    <3>1. /\ w \in Keys(project.views) /\ late.old \in Keys(d) /\ late.new \notin Keys(d)
          /\ r = late
      BY <1>1, <2>6 DEF AsRequested
    <3>2. {"kind", "view"} \subseteq DOMAIN r /\ r.pos = IndexOf(d, late.old)
      BY DEF RenamePanel
    <3> HIDE DEF r
    <3>3. {"kind", "view"} \subseteq DOMAIN late /\ late.pos = IndexOf(d, late.old)
      BY <3>1, <3>2
    <3>4. Finds(late)
      BY <2>6, <3>1, <3>3, FindsPanel
    <3>5. Starts(late, project, project)
      BY <2>6, <3>1, <3>3, <3>4, KeptIs, FindsFits, StartsPanel DEF Rebound
    <3> QED BY <2>2, <3>4, <3>5
  <2> QED BY <2>1, <2>3, <2>4, <2>5, <2>6 DEF Renames
<1>2. CASE UNCHANGED <<project, stack, last, history>>
  BY <1>2, StaysOnwards DEF history
<1> QED BY <1>1, <1>2 DEF ExecuteLate

\* Nothing is recorded when the stack is empty.
LEMMA EmptyOnwards ==
  ASSUME NEW prj, Fielded(prj), Typed(prj), project' = prj,
         stack' = << >>, last' = 0, past' = <<Content(prj)>>, slips' \subseteq Causes
  PROVE  Onwards
<1> DEFINE x == Content(prj)
<1>1. Typed(x) /\ x.conns = prj.conns /\ x.views = prj.views
  BY DEF Content, Typed
<1> HIDE DEF x
<1>2. stack' = << >> /\ past' = <<x>>
  BY DEF x
<1>3. Recording(<< >>, <<x>>)
  BY <1>1, RecordingNone
<1>4. Recording(stack', past')
  BY <1>2, <1>3
<1>5. past'[last' + 1] = x
  BY <1>2
<1>6. Known(project', Keys(past'[last' + 1].conns), Catalog(past'[last' + 1].views))
  BY <1>1, <1>5 DEF Known
<1>7. Kept'
  BY <1>4, <1>6 DEF Kept
<1>8. Walk'
  BY <1>1, <1>2, <1>5, WalkNext DEF Doing
<1> QED BY <1>7, <1>8 DEF Onwards

LEMMA NothingTyped == Typed(Unreadable)
BY DEF Unreadable, Typed, ConnsTyped, ViewsTyped, Dict, IsDict, Keys

LEMMA SaveOnwards ==
  ASSUME Listing, Kept, Save
  PROVE  Onwards /\ Typed(file')
<1>1. Fielded(project) /\ Typed(project) /\ slips \subseteq Causes
  BY DEF Kept, Known
<1>2. /\ project' = project /\ stack' = << >> /\ last' = 0
      /\ past' = <<Content(project)>> /\ slips' = slips
  BY DEF Save
<1>3. Typed(Unreadable)
  BY NothingTyped
<1>4. Typed(file')
  BY <1>1, <1>3 DEF Save, Written, Saved, Typed
<1> QED BY <1>1, <1>2, <1>4, EmptyOnwards

LEMMA OpenedTyped ==
  ASSUME NEW content, Typed(content)
  PROVE  Fielded(Opened(content)) /\ Typed(Opened(content))
BY DEF Opened, Fielded, Typed

LEMMA ReadTyped ==
  ASSUME NEW content, Typed(content), NEW read \in Readings(content)
  PROVE  Fielded(Opened(read)) /\ Typed(Opened(read))
<1>1. Typed(read)
  BY ReadingIs DEF Typed
<1> QED BY <1>1, OpenedTyped

LEMMA RevertOnwards ==
  ASSUME Typed(file), Revert
  PROVE  Onwards
<1>1. PICK read \in Readings(file) : project' = Opened(read)
  BY DEF Revert
<1> DEFINE prj == Opened(read)
<1>2. Fielded(prj) /\ Typed(prj)
  BY ReadTyped
<1>3. /\ project' = prj /\ stack' = << >> /\ last' = 0
      /\ past' = <<Content(prj)>> /\ slips' = {}
  BY <1>1 DEF Revert
<1> HIDE DEF prj
<1>4. slips' \subseteq Causes
  BY <1>3
<1> QED BY <1>2, <1>3, <1>4, EmptyOnwards

\* A dialog's command is executed, and nothing else happens.
LEMMA Dialogs ==
  ASSUME \/ ConnectionDialogs \/ VariableDialogs \/ ViewDialog \/ PanelDialog
         \/ TemplateActions
  PROVE  file' = file /\ intact' = intact /\ status' = status
<1>1. ASSUME \E cmd, prj : Execute(cmd, prj)
      PROVE  file' = file /\ intact' = intact /\ status' = status
  BY <1>1 DEF Execute
<1> DEFINE Done == \E cmd, prj : Execute(cmd, prj)
<1>2. \A cmd, prj : Execute(cmd, prj) => Done
  OBVIOUS
<1> HIDE DEF Done
<1>3. ConnectionDialogs => Done
  BY <1>2 DEF ConnectionDialogs
<1>4. VariableDialogs => Done
  BY <1>2 DEF VariableDialogs
<1>5. ViewDialog => Done
  BY <1>2 DEF ViewDialog
<1>6. PanelDialog => Done
  BY <1>2 DEF PanelDialog
<1>7. ASSUME NEW w, NEW p
      PROVE  /\ Place(w, p) => Done
             /\ Delete(w, p) => Done
             /\ Paste(w, p) => Done
  BY <1>2 DEF Place, Delete, Paste
<1>8. \A w, p : EditTemplate(w, p) => Done
  BY <1>2 DEF EditTemplate
<1>9. \A w, p : BindTemplate(w, p) => Done
  BY <1>2, ZenonT(60) DEF BindTemplate
<1>10. TemplateActions => Done
  BY <1>7, <1>8, <1>9 DEF TemplateActions
<1>11. Done
  BY <1>3, <1>4, <1>5, <1>6, <1>10
<1> QED BY <1>1, <1>11 DEF Done

LEMMA NextOnwards ==
  ASSUME Listing, Kept, Typed(file), [Next]_vars
  PROVE  Onwards /\ Typed(file')
<1>1. CASE ConnectionDialogs \/ VariableDialogs \/ ViewDialog \/ PanelDialog
           \/ TemplateActions
  <2>1. Onwards
    BY <1>1, ConnectionDialogsOnwards, VariableDialogsOnwards, ViewDialogOnwards,
       PanelDialogOnwards, TemplateActionsOnwards
  <2>2. file' = file
    BY <1>1, Dialogs
  <2> QED BY <2>1, <2>2
<1>2. CASE ExecuteLate
  BY <1>2, ExecuteLateOnwards DEF ExecuteLate
<1>3. CASE Undo
  BY <1>3, UndoKept, UndoWalk DEF Undo, Onwards
<1>4. CASE Redo
  BY <1>4, RedoKept, RedoWalk DEF Redo, Onwards
<1>5. CASE Save
  BY <1>5, SaveOnwards
<1>6. CASE Revert
  BY <1>6, RevertOnwards DEF Revert
<1>7. CASE RenameLater \/ (\E w, p : Copy(w, p)) \/ UNCHANGED vars
  <2>1. UNCHANGED <<project, stack, last, past, slips, file>>
    BY <1>7, RenamesLater DEF ExecuteLater, Copy, vars, history
  <2> QED BY <2>1, StaysOnwards
<1> QED BY <1>1, <1>2, <1>3, <1>4, <1>5, <1>6, <1>7 DEF Next, Commands

-----------------------------------------------------------------------------
\* Every command on the stack leads from the names of one entry of the history
\* to those of the next, and what it keeps of the project is well made: UndoStack
\* undoes and redoes commands that find their connection, view and panel.
THEOREM RecordedHolds == Spec => []Recorded
<1>1. Init => Recorded
  <2> SUFFICES ASSUME Init PROVE Recorded
    OBVIOUS
  <2> PICK read \in Readings(InitProject) : project = Opened(read)
    BY DEF Init
  <2> DEFINE prj == Opened(read)
             x   == Content(prj)
  <2>1. Typed(InitProject)
    BY DataAssumption
  <2>2. Fielded(prj) /\ Typed(prj)
    BY <2>1, ReadTyped
  <2>3. /\ project = prj /\ stack = << >> /\ last = 0 /\ past = <<x>> /\ slips = {}
        /\ file = InitProject
    BY DEF Init
  <2> HIDE DEF prj
  <2>4. Typed(x) /\ x.conns = prj.conns /\ x.views = prj.views
    BY <2>2 DEF Content, Typed
  <2> HIDE DEF x
  <2>5. Recording(stack, past)
    BY <2>3, <2>4, RecordingNone
  <2>6. past[last + 1] = x
    BY <2>3
  <2>7. Typed(project) /\ Typed(file)
    BY <2>1, <2>2, <2>3
  <2> QED BY <2>3, <2>4, <2>5, <2>6, <2>7 DEF Recorded, Recording
<1>2. Listing /\ Listing' /\ Recorded /\ [Next]_vars => Recorded'
  <2> SUFFICES ASSUME Listing, Listing', Recorded, [Next]_vars PROVE Recorded'
    OBVIOUS
  <2>1. Kept /\ Typed(file)
    BY RecordedIs
  <2>2. Kept' /\ Typed(file')
    BY <2>1, NextOnwards DEF Onwards
  <2> QED BY <2>2, RecordedNext
<1> QED BY <1>1, <1>2, ListingHolds, PTL DEF Spec

\* What the status says is one of the three things.
Flags == status \in {"running", "raced", "crashed"} /\ intact \in BOOLEAN

LEMMA FlagsHold == Spec => []Flags
<1>1. Init => Flags
  BY DEF Init, Flags
<1>2. Flags /\ [Next]_vars => Flags'
  <2> SUFFICES ASSUME Flags, [Next]_vars PROVE Flags'
    OBVIOUS
  <2>1. status' \in {status, "raced", "crashed"} /\ intact' \in {intact, TRUE, FALSE}
    <3>1. CASE Commands
      BY <3>1, Dialogs, RenamesLater DEF Commands, ExecuteLater
    <3>2. CASE ExecuteLate \/ Undo \/ Redo \/ Save \/ Revert
      BY <3>2 DEF ExecuteLate, Undo, Redo, Save, Written, Revert
    <3>3. CASE (\E w, p : Copy(w, p)) \/ UNCHANGED vars
      BY <3>3 DEF Copy, vars
    <3> QED BY <3>1, <3>2, <3>3 DEF Next
  <2> QED BY <2>1 DEF Flags
<1> QED BY <1>1, <1>2, PTL DEF Spec

\* The position on the stack exists and the history covers it; the connections,
\* their variables, the views, their panels and templates are dictionaries: no
\* command, undone or redone in whatever order, gives two of them one name.
THEOREM EditorTyped == Spec => []TypeOK
<1>1. Listing /\ Recorded /\ Flags => TypeOK
  <2> SUFFICES ASSUME Listing, Recorded, Flags
               PROVE  TypeOK
    OBVIOUS
  <2>1. last \in 0..Len(stack) /\ Len(stack) \in Nat
    BY ListingIs
  <2>2. Len(past) = Len(stack) + 1 /\ slips \subseteq Causes /\ Typed(project)
    BY DEF Recorded
  <2>3. Len(past) >= last + 1
    BY <2>1, <2>2
  <2>4. IsDict(project.conns) /\ \A c \in Keys(project.conns) : IsDict(VarsOf(project, c))
    BY <2>2 DEF Typed, ConnsTyped, Connection, Dict, VarsOf
  <2>5. /\ IsDict(project.views)
        /\ \A w \in Keys(project.views) :
             /\ IsDict(PanelsOf(project, w))
             /\ \A p \in Keys(PanelsOf(project, w)) : IsDict(TemplatesOf(project, w, p))
    BY <2>2 DEF Typed, ViewsTyped, Shelf, Dict, PanelsOf, TemplatesOf
  <2> QED BY <2>1, <2>2, <2>3, <2>4, <2>5 DEF TypeOK, Flags
<1> QED BY <1>1, ListingHolds, RecordedHolds, FlagsHold, PTL

-----------------------------------------------------------------------------
\* There and back: unless a link was merged or a name overwritten, every command
\* on the stack does what leads from one entry of the history to the next and
\* takes it back, whatever UndoStack::undo and redo did in between, and the
\* project is at the entry the stack is at.
THEOREM WalkHolds == Spec => []Walk
<1>1. Init => Walk
  <2> SUFFICES ASSUME Init PROVE Walk
    OBVIOUS
  <2> DEFINE x == Content(project)
  <2>1. stack = << >> /\ last = 0 /\ past = <<x>>
    BY DEF Init
  <2>2. x.conns = project.conns /\ x.views = project.views
    BY DEF Content
  <2> HIDE DEF x
  <2>3. past[last + 1] = x
    BY <2>1
  <2>4. Doing(stack, past)
    BY <2>1 DEF Doing
  <2> QED BY <2>2, <2>3, <2>4, WalkIs
<1>2. Listing /\ Recorded /\ Walk /\ [Next]_vars => Walk'
  BY RecordedIs, NextOnwards DEF Onwards
<1> QED BY <1>1, <1>2, ListingHolds, RecordedHolds, PTL DEF Spec

\* Undoing and redoing, in any order and any number of times, takes the
\* connections, their variables, the views, panels and templates, their order
\* and the links back to what they were with as many commands applied, unless a
\* panel took a name that links had kept or a template that of another
\* (renamePanel and TemplatePropertiesDialog do not look for either).
THEOREM StructureAlwaysFollows == Spec => []StructureFollows
<1>1. Walk => StructureFollows
  BY DEF Walk, StructureFollows
<1> QED BY <1>1, WalkHolds, PTL
=============================================================================
