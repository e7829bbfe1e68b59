--------------------------- MODULE LTDict_proofs ---------------------------
(***************************************************************************)
(* Proofs about LTDict: Sound is an inductive invariant, so the map and    *)
(* the keys always agree and the dictionary never holds a deleted item,    *)
(* and every operation is the one Dictionary promises.                     *)
(***************************************************************************)
EXTENDS LTDict, FiniteSetTheorems, TLAPS

(***************************************************************************)
(* What the operators on the slots do, slot by slot.                       *)
(***************************************************************************)
\* r is s with e inserted before the i-th element.
Inserts(r, s, i, e, S) ==
  /\ r \in Seq(S) /\ Len(r) = Len(s) + 1
  /\ \A j \in 1..(Len(s) + 1) :
       r[j] = IF j < i THEN s[j] ELSE IF j = i THEN e ELSE s[j - 1]

\* Insertion moves the later elements up by one.
LEMMA InsertPoints ==
  ASSUME NEW S, NEW s \in Seq(S), NEW e \in S, NEW i \in 1..(Len(s) + 1)
  PROVE  Inserts(InsertAt(s, i, e), s, i, e, S)
<1> DEFINE a == SubSeq(s, 1, i - 1)
           b == SubSeq(s, i, Len(s))
           ae == a \o <<e>>
<1>0. Len(s) \in Nat /\ i \in Nat /\ i >= 1 /\ i <= Len(s) + 1
  OBVIOUS
<1>1. a \in Seq(S) /\ Len(a) = i - 1 /\ \A j \in 1..(i - 1) : a[j] = s[j]
  OBVIOUS
<1>2. b \in Seq(S) /\ Len(b) = Len(s) + 1 - i
      /\ \A j \in 1..(Len(s) + 1 - i) : b[j] = s[i + j - 1]
  OBVIOUS
<1> HIDE DEF a, b
<1>3. ae \in Seq(S) /\ Len(ae) = i /\ (\A j \in 1..(i - 1) : ae[j] = s[j])
      /\ ae[i] = e
  BY <1>1
<1> HIDE DEF ae
<1>4. InsertAt(s, i, e) = ae \o b
  BY DEF InsertAt, ae, a, b
<1>5. ae \o b \in Seq(S) /\ Len(ae \o b) = Len(s) + 1
  <2>1. ae \o b \in Seq(S) /\ Len(ae \o b) = Len(ae) + Len(b)
    BY <1>2, <1>3
  <2> QED BY <2>1, <1>0, <1>2, <1>3
<1>6. ASSUME NEW j \in 1..(Len(s) + 1)
      PROVE  (ae \o b)[j] = IF j < i THEN s[j]
                            ELSE IF j = i THEN e ELSE s[j - 1]
  <2>1. CASE j <= i
    BY <1>2, <1>3, <2>1
  <2>2. CASE j > i
    <3>1. (ae \o b)[j] = b[j - i]
      BY <1>2, <1>3, <2>2
    <3>2. j - i \in 1..(Len(s) + 1 - i) /\ i + (j - i) - 1 = j - 1
      BY <2>2
    <3>3. b[j - i] = s[i + (j - i) - 1]
      BY <1>2, <3>2
    <3>4. ~(j < i) /\ j # i
      BY <2>2, <1>0
    <3>5. (ae \o b)[j] = s[j - 1]
      BY <3>1, <3>2, <3>3, Zenon
    <3> QED BY <3>4, <3>5, Zenon
  <2>3. j <= i \/ j > i
    BY <1>0
  <2> QED BY <2>1, <2>2, <2>3, Zenon
<1> QED BY <1>4, <1>5, <1>6 DEF Inserts

\* The same of anything that is such a sequence.
LEMMA Inserted ==
  ASSUME NEW S, NEW s, NEW i, NEW e, NEW r, s \in Seq(S), e \in S,
         i \in 1..(Len(s) + 1), r = InsertAt(s, i, e)
  PROVE  Inserts(r, s, i, e, S)
BY InsertPoints, Zenon

\* Closing the gap behind index in the first count slots.
LEMMA ClosedPoints ==
  ASSUME NEW S, NEW s \in Seq(S), count \in Nat, count <= Len(s),
         NEW index \in 0..(count - 1)
  PROVE  /\ Closed(s, index) \in Seq(S)
         /\ Len(Closed(s, index)) = Len(s)
         /\ \A j \in 1..Len(s) :
              Closed(s, index)[j] =
                IF j \in (index + 1)..(count - 1) THEN s[j + 1] ELSE s[j]
BY DEF Closed

\* The first n slots of s hold different things.
Apart(s, n) == \A i, j \in 0..(n - 1) : s[i + 1] = s[j + 1] => i = j

\* What the first n slots of s hold.
Held(s, n) == {s[j + 1] : j \in 0..(n - 1)}

\* The map m gives the position of everything in the first n slots of s.
Places(m, s, n) ==
  /\ m \in [Held(s, n) -> 0..(n - 1)]
  /\ \A j \in 0..(n - 1) : m[s[j + 1]] = j

\* So it does outside first..last.
PlacesOutside(m, s, n, first, last) ==
  \A j \in 0..(n - 1) : j \notin first..last =>
    s[j + 1] \in DOMAIN m /\ m[s[j + 1]] = j

\* The map and the slots are inverse to each other.
LEMMA PlacesInverts ==
  ASSUME NEW m, NEW s, NEW n, Places(m, s, n)
  PROVE  /\ Apart(s, n)
         /\ DOMAIN m = Held(s, n)
         /\ \A k \in DOMAIN m : m[k] \in 0..(n - 1) /\ s[m[k] + 1] = k
<1>1. DOMAIN m = {s[j + 1] : j \in 0..(n - 1)}
  BY DEF Places, Held
<1>2. \A j \in 0..(n - 1) : m[s[j + 1]] = j
  BY DEF Places
<1>3. \A k \in DOMAIN m : m[k] \in 0..(n - 1) /\ s[m[k] + 1] = k
  BY <1>1, <1>2
<1>4. Apart(s, n)
  BY <1>2 DEF Apart
<1> QED BY <1>1, <1>3, <1>4 DEF Held

\* Positions set from the keys of first to last make the map right when the
\* others were right before.
LEMMA RemappedPlaces ==
  ASSUME NEW m, NEW ks, NEW n \in Nat, NEW first \in Nat, NEW last \in Int,
         last < n, Apart(ks, n), DOMAIN m \subseteq Held(ks, n),
         PlacesOutside(m, ks, n, first, last)
  PROVE  Places(Remapped(m, ks, first, last), ks, n)
<1> DEFINE R == Remapped(m, ks, first, last)
<1>1. DOMAIN m \cup {ks[j + 1] : j \in first..last} = Held(ks, n)
  BY DEF Held, PlacesOutside
<1>2. R = [k \in Held(ks, n) |->
             IF \E j \in first..last : ks[j + 1] = k
             THEN CHOOSE j \in first..last : ks[j + 1] = k
             ELSE m[k]]
  BY <1>1, Zenon DEF Remapped
<1> HIDE DEF R
<1>3. ASSUME NEW j \in 0..(n - 1)
      PROVE  R[ks[j + 1]] = j
  <2>1. ks[j + 1] \in Held(ks, n)
    BY DEF Held
  <2>2. CASE j \in first..last
    <3> DEFINE c == CHOOSE i \in first..last : ks[i + 1] = ks[j + 1]
    <3>1. c \in first..last /\ ks[c + 1] = ks[j + 1]
      BY <2>2
    <3>2. R[ks[j + 1]] = c
      BY <1>2, <2>1, <2>2
    <3> HIDE DEF c
    <3> QED BY <3>1, <3>2 DEF Apart
  <2>3. CASE j \notin first..last
    <3>1. ~ \E i \in first..last : ks[i + 1] = ks[j + 1]
      BY <2>3 DEF Apart
    <3>2. R[ks[j + 1]] = m[ks[j + 1]]
      BY <1>2, <2>1, <3>1, Zenon
    <3> QED BY <3>2, <2>3 DEF PlacesOutside
  <2> QED BY <2>2, <2>3
<1>4. R \in [Held(ks, n) -> 0..(n - 1)]
  <2>1. \A k \in Held(ks, n) : R[k] \in 0..(n - 1)
    BY <1>3 DEF Held
  <2> QED BY <2>1, <1>2
<1> QED BY <1>3, <1>4 DEF R, Places

\* g is f with x put in slot p, the later ones of the first n moved up.
Opened(f, g, n, p, x) ==
  \A j \in 0..n : g[j + 1] = IF j < p THEN f[j + 1]
                             ELSE IF j = p THEN x ELSE f[j]

LEMMA OpenedApart ==
  ASSUME NEW f, NEW g, NEW x, NEW n \in Nat, NEW p \in 0..n,
         x \notin Held(f, n), Apart(f, n), Opened(f, g, n, p, x)
  PROVE  Apart(g, n + 1) /\ Held(g, n + 1) = Held(f, n) \cup {x}
<1> DEFINE From(j) == IF j < p THEN j ELSE j - 1
<1>1. \A j \in 0..n : j # p =>
        From(j) \in 0..(n - 1) /\ g[j + 1] = f[From(j) + 1]
  BY DEF Opened
<1>2. g[p + 1] = x
  BY DEF Opened
<1>3. \A i, j \in 0..n : i # p /\ j # p /\ From(i) = From(j) => i = j
  OBVIOUS
<1>4. \A j \in 0..(n - 1) : \E i \in 0..n : g[i + 1] = f[j + 1]
  <2> TAKE j \in 0..(n - 1)
  <2>1. CASE j < p
    <3>1. j \in 0..n /\ g[j + 1] = f[j + 1]
      BY <2>1 DEF Opened
    <3> QED BY <3>1
  <2>2. CASE j >= p
    <3>1. j + 1 \in 0..n /\ g[(j + 1) + 1] = f[j + 1]
      BY <2>2 DEF Opened
    <3> QED BY <3>1
  <2> QED BY <2>1, <2>2
<1> HIDE DEF From
<1>5. \A j \in 0..n : j # p => g[j + 1] \in Held(f, n)
  BY <1>1 DEF Held
<1>6. \A i, j \in 0..n : g[i + 1] = g[j + 1] => i = j
  <2> TAKE i, j \in 0..n
  <2> HAVE g[i + 1] = g[j + 1]
  <2>1. CASE i = p \/ j = p
    BY <1>2, <1>5, <2>1, Zenon
  <2>2. CASE i # p /\ j # p
    <3>1. From(i) = From(j)
      BY <1>1, <2>2 DEF Apart
    <3> QED BY <1>3, <2>2, <3>1
  <2> QED BY <2>1, <2>2, Zenon
<1>7. (n + 1) - 1 = n /\ p \in 0..n
  OBVIOUS
<1>8. Held(g, n + 1) = {g[j + 1] : j \in 0..n}
  BY <1>7, Zenon DEF Held
<1>9. Held(f, n) \subseteq {g[j + 1] : j \in 0..n}
  BY <1>4 DEF Held
<1>10. {g[j + 1] : j \in 0..n} = Held(f, n) \cup {x}
  BY <1>2, <1>5, <1>7, <1>9, Zenon
<1>11. Apart(g, n + 1)
  BY <1>6, <1>7, Zenon DEF Apart
<1> QED BY <1>8, <1>10, <1>11

\* The first m slots of g are some of the first n of f, each taken once.
Taken(f, n, g, m, from) ==
  /\ from \in [0..(m - 1) -> 0..(n - 1)]
  /\ \A i, j \in 0..(m - 1) : from[i] = from[j] => i = j
  /\ \A j \in 0..(m - 1) : g[j + 1] = f[from[j] + 1]

LEMMA TakenApart ==
  ASSUME NEW f, NEW g, NEW n, NEW m, NEW from,
         Taken(f, n, g, m, from), Apart(f, n)
  PROVE  Apart(g, m) /\ Held(g, m) \subseteq Held(f, n)
<1>1. \A j \in 0..(m - 1) : from[j] \in 0..(n - 1)
                            /\ g[j + 1] = f[from[j] + 1]
  BY DEF Taken
<1>2. Apart(g, m)
  BY <1>1 DEF Taken, Apart
<1>3. Held(g, m) \subseteq Held(f, n)
  BY <1>1 DEF Held
<1> QED BY <1>2, <1>3

-----------------------------------------------------------------------------
(***************************************************************************)
(* Sound is inductive.                                                     *)
(***************************************************************************)
\* The slots: one key and one item each, those up to n in use.
Slots(ks, vs, n) ==
  /\ ks \in Seq(KeySet) /\ vs \in Seq(Items \cup {NULL})
  /\ n \in Nat /\ n <= Len(ks) /\ Len(vs) = Len(ks)

\* Sound in these terms.
LEMMA SoundMeans ==
  ASSUME Sound
  PROVE  /\ Slots(keys, values, count)
         /\ Places(mapping, keys, count)
         /\ Apart(values, count)
         /\ Held(values, count) \subseteq given \ deleted
         /\ current \in Int /\ -1 <= current /\ current < count
         /\ given \subseteq Items /\ deleted \subseteq given
         /\ count \in Nat
<1> USE DEF Sound, Positions, KeyAt, ValueAt
<1>1. Slots(keys, values, count) /\ count \in Nat
  BY DEF Slots, TypeOK
<1>2. Places(mapping, keys, count)
  BY DEF Places, Held, TypeOK, Indexed
<1>3. Apart(values, count) /\ Held(values, count) \subseteq given \ deleted
  BY DEF Apart, Held, OwnedOnce
<1> QED BY <1>1, <1>2, <1>3 DEF TypeOK

LEMMA SoundAgain ==
  ASSUME Slots(keys', values', count'),
         Places(mapping', keys', count'),
         Apart(values', count'),
         Held(values', count') \subseteq given' \ deleted',
         current' \in Int, -1 <= current', current' < count',
         given' \subseteq Items, deleted' \subseteq given'
  PROVE  Sound'
<1> USE DEF Positions, KeyAt, ValueAt
<1>1. TypeOK'
  BY DEF Slots, TypeOK, Places, Held
<1>2. Indexed'
  BY DEF Places, Indexed
<1>3. OwnedOnce'
  BY DEF Apart, Held, OwnedOnce
<1> QED BY <1>1, <1>2, <1>3 DEF Sound

\* The slots in use can be read.
LEMMA SlotsInUse ==
  ASSUME NEW ks, NEW vs, NEW n, Slots(ks, vs, n)
  PROVE  /\ n \in Nat /\ Len(ks) \in Nat /\ n <= Len(ks)
         /\ DOMAIN ks = 1..Len(ks) /\ DOMAIN vs = 1..Len(ks)
         /\ \A j \in 0..(n - 1) : /\ j + 1 \in 1..Len(ks)
                                  /\ ks[j + 1] \in KeySet
                                  /\ vs[j + 1] \in Items \cup {NULL}
BY DEF Slots

LEMMA InitSound == Init => Sound
BY DEF Init, Sound, TypeOK, Indexed, OwnedOnce, Positions, KeyAt, ValueAt

\* An item inserted for a key that is there takes the slot of the one deleted.
LEMMA OverwriteSound ==
  ASSUME Sound, NEW k \in KeySet, NEW v \in Items \ given, Overwrite(k, v)
  PROVE  Sound'
<1>0. /\ Slots(keys, values, count) /\ Places(mapping, keys, count)
      /\ Apart(values, count) /\ Held(values, count) \subseteq given \ deleted
      /\ given \subseteq Items /\ deleted \subseteq given /\ count \in Nat
      /\ current \in Int /\ -1 <= current /\ current < count
  BY SoundMeans
<1> DEFINE p == mapping[k]
<1>1. p \in 0..(count - 1)
  BY <1>0, PlacesInverts DEF Overwrite
<1>2. /\ keys' = keys /\ mapping' = mapping /\ count' = count
      /\ current' = current /\ given' = given \cup {v}
      /\ deleted' = deleted \cup {values[p + 1]}
      /\ values' = [values EXCEPT ![p + 1] = v]
  BY DEF Overwrite, ValueAt
<1> HIDE DEF p
<1>3. values' \in Seq(Items \cup {NULL}) /\ Len(values') = Len(values)
      /\ \A j \in 0..(count - 1) :
           values'[j + 1] = IF j = p THEN v ELSE values[j + 1]
  BY <1>0, <1>1, <1>2, SlotsInUse DEF Slots
<1>4. values[p + 1] \in given
  BY <1>0, <1>1 DEF Held
<1>5. Slots(keys', values', count')
  BY <1>0, <1>2, <1>3 DEF Slots
<1>6. Apart(values', count')
  BY <1>0, <1>2, <1>3 DEF Apart, Held
<1>7. Held(values', count') \subseteq given' \ deleted'
  BY <1>0, <1>1, <1>2, <1>3 DEF Apart, Held
<1>8. given' \subseteq Items /\ deleted' \subseteq given'
  BY <1>0, <1>2, <1>4
<1>9. Places(mapping', keys', count')
  BY <1>0, <1>2
<1> QED BY <1>0, <1>2, <1>5, <1>6, <1>7, <1>8, <1>9, SoundAgain


\* An entry with a new key in slot p, those behind it one slot further.
Added(k, v, p) ==
  /\ count' = count + 1
  /\ Slots(keys', values', count + 1)
  /\ Opened(keys, keys', count, p, k)
  /\ Opened(values, values', count, p, v)

\* With the map right, what is added to a sound dictionary leaves it sound.
LEMMA AddedSound ==
  ASSUME Sound, NEW k \in KeySet, NEW v \in Items \ given, NEW p \in 0..count,
         k \notin DOMAIN mapping, Added(k, v, p),
         Places(mapping', keys', count + 1),
         SelectFirst, given' = given \cup {v}, UNCHANGED deleted
  PROVE  Sound'
<1>0. /\ Slots(keys, values, count) /\ Places(mapping, keys, count)
      /\ Apart(values, count) /\ Held(values, count) \subseteq given \ deleted
      /\ given \subseteq Items /\ deleted \subseteq given /\ count \in Nat
      /\ current \in Int /\ -1 <= current /\ current < count
  BY SoundMeans
<1>1. count' = count + 1 /\ Slots(keys', values', count')
      /\ Opened(values, values', count, p, v)
  BY DEF Added
<1>2. v \notin Held(values, count)
  BY <1>0
<1>3. Apart(values', count')
      /\ Held(values', count') = Held(values, count) \cup {v}
  BY <1>0, <1>1, <1>2, OpenedApart
<1>4. Held(values', count') \subseteq given' \ deleted'
  BY <1>0, <1>3
<1>5. current' \in Int /\ -1 <= current' /\ current' < count'
  BY <1>0, <1>1 DEF SelectFirst
<1> QED BY <1>0, <1>1, <1>3, <1>4, <1>5, SoundAgain

\* At the end: in a new slot or in one left over.
LEMMA AppendAdds ==
  ASSUME Sound, NEW k \in KeySet, NEW v \in Items, AppendEntry(k, v)
  PROVE  Added(k, v, count)
<1>0. /\ count \in Nat /\ count' = count + 1 /\ count <= Len(keys)
      /\ Len(values) = Len(keys) /\ Len(keys) \in Nat
      /\ keys \in Seq(KeySet) /\ values \in Seq(Items \cup {NULL})
      /\ v \in Items \cup {NULL}
  BY SoundMeans DEF Slots, AppendEntry
<1>1. CASE Len(keys) > count
  <2>1. keys' = [keys EXCEPT ![count + 1] = k]
        /\ values' = [values EXCEPT ![count + 1] = v]
    BY <1>1 DEF AppendEntry
  <2>2. count + 1 \in 1..Len(keys) /\ \A j \in 0..count : j + 1 \in 1..Len(keys)
    BY <1>0, <1>1
  <2>3. keys' \in Seq(KeySet) /\ Len(keys') = Len(keys)
    BY <1>0, <2>1, <2>2
  <2>4. values' \in Seq(Items \cup {NULL}) /\ Len(values') = Len(keys)
    BY <1>0, <2>1, <2>2
  <2>5. \A j \in 0..count :
          /\ keys'[j + 1] = IF j = count THEN k ELSE keys[j + 1]
          /\ values'[j + 1] = IF j = count THEN v ELSE values[j + 1]
    BY <1>0, <2>1, <2>2
  <2>6. Slots(keys', values', count + 1)
    BY <1>0, <1>1, <2>3, <2>4 DEF Slots
  <2> QED BY <1>0, <2>5, <2>6 DEF Added, Opened
<1>2. CASE ~(Len(keys) > count)
  <2>1. keys' = Append(keys, k) /\ values' = Append(values, v)
    BY <1>2 DEF AppendEntry
  <2>2. Len(keys) = count /\ Len(values) = count
    BY <1>0, <1>2
  <2>3. /\ keys' \in Seq(KeySet) /\ Len(keys') = count + 1
        /\ values' \in Seq(Items \cup {NULL}) /\ Len(values') = count + 1
    BY <1>0, <2>1, <2>2
  <2>4. \A j \in 0..count :
          /\ keys'[j + 1] = IF j = count THEN k ELSE keys[j + 1]
          /\ values'[j + 1] = IF j = count THEN v ELSE values[j + 1]
    BY <1>0, <2>1, <2>2
  <2>5. Slots(keys', values', count + 1)
    BY <1>0, <2>3 DEF Slots
  <2> QED BY <1>0, <2>4, <2>5 DEF Added, Opened
<1> QED BY <1>1, <1>2, Zenon

LEMMA AppendSound ==
  ASSUME Sound, NEW k \in KeySet, NEW v \in Items \ given,
         k \notin DOMAIN mapping, AppendEntry(k, v), SelectFirst,
         given' = given \cup {v}, UNCHANGED deleted
  PROVE  Sound'
<1>0. /\ Places(mapping, keys, count) /\ Apart(keys, count)
      /\ count \in Nat /\ count \in 0..count
      /\ DOMAIN mapping = Held(keys, count) /\ k \notin Held(keys, count)
  BY SoundMeans, PlacesInverts
<1>1. Added(k, v, count)
  BY AppendAdds
<1>2. Opened(keys, keys', count, count, k)
  BY <1>1 DEF Added
<1>3. Held(keys', count + 1) = DOMAIN mapping \cup {k}
  <2> DEFINE p == count
  <2>1. p \in 0..count /\ Opened(keys, keys', count, p, k)
    BY <1>0, <1>2
  <2> HIDE DEF p
  <2>2. Apart(keys', count + 1)
        /\ Held(keys', count + 1) = Held(keys, count) \cup {k}
    BY <1>0, <2>1, OpenedApart
  <2> QED BY <1>0, <2>2
<1>4. mapping' = [x \in DOMAIN mapping \cup {k} |->
                    IF x = k THEN count ELSE mapping[x]]
  BY DEF AppendEntry
<1>5. \A j \in 0..count : /\ keys'[j + 1] \in DOMAIN mapping \cup {k}
                          /\ mapping'[keys'[j + 1]] = j
  <2> TAKE j \in 0..count
  <2>1. CASE j = count
    <3>1. keys'[j + 1] = k
      BY <2>1, <1>2 DEF Opened
    <3> QED BY <1>4, <2>1, <3>1
  <2>2. CASE j # count
    <3>1. j \in 0..(count - 1) /\ j < count
      BY <1>0, <2>2
    <3>2. keys'[j + 1] = keys[j + 1]
      BY <3>1, <1>2 DEF Opened
    <3>3. keys[j + 1] \in DOMAIN mapping /\ mapping[keys[j + 1]] = j
      BY <1>0, <3>1 DEF Places, Held
    <3>4. keys[j + 1] # k
      BY <3>3
    <3> QED BY <1>4, <3>2, <3>3, <3>4
  <2> QED BY <2>1, <2>2, Zenon
<1>6. \A x \in DOMAIN mapping \cup {k} : mapping'[x] \in 0..count
  <2> TAKE x \in DOMAIN mapping \cup {k}
  <2>1. mapping'[x] = IF x = k THEN count ELSE mapping[x]
    BY <1>4, Zenon
  <2>2. x # k => mapping[x] \in 0..count
    BY <1>0, PlacesInverts
  <2> QED BY <1>0, <2>1, <2>2
<1>7. mapping' \in [DOMAIN mapping \cup {k} -> 0..count]
  BY <1>4, <1>6
<1>8. (count + 1) - 1 = count
  BY <1>0
<1>9. Places(mapping', keys', count + 1)
  BY <1>3, <1>5, <1>7, <1>8 DEF Places
<1> QED BY <1>0, <1>1, <1>9, AddedSound

\* In the middle: those behind it get the next positions.
LEMMA InsertAdds ==
  ASSUME Sound, NEW k \in KeySet, NEW v \in Items, NEW index \in 0..count,
         InsertEntry(k, v, index)
  PROVE  Added(k, v, index)
<1>0. /\ count \in Nat /\ count' = count + 1 /\ count <= Len(keys)
      /\ Len(values) = Len(keys) /\ Len(keys) \in Nat
      /\ keys \in Seq(KeySet) /\ values \in Seq(Items \cup {NULL})
  BY SoundMeans DEF Slots, InsertEntry
<1>1. index + 1 \in 1..(Len(keys) + 1) /\ index + 1 \in 1..(Len(values) + 1)
      /\ v \in Items \cup {NULL}
  BY <1>0
<1>2. \A j \in 0..count : /\ j + 1 \in 1..(Len(keys) + 1)
                          /\ (j + 1) - 1 = j
                          /\ j + 1 < index + 1 <=> j < index
                          /\ j + 1 = index + 1 <=> j = index
  BY <1>0
<1>3. keys' = InsertAt(keys, index + 1, k)
      /\ values' = InsertAt(values, index + 1, v)
  BY DEF InsertEntry
<1> DEFINE q == index + 1
<1>10. q \in 1..(Len(keys) + 1) /\ q \in 1..(Len(values) + 1)
       /\ keys' = InsertAt(keys, q, k) /\ values' = InsertAt(values, q, v)
  BY <1>1, <1>3
<1>11. q = index + 1
  OBVIOUS
<1> HIDE DEF q
<1>4. /\ keys' \in Seq(KeySet) /\ Len(keys') = Len(keys) + 1
      /\ \A j \in 1..(Len(keys) + 1) :
           keys'[j] = IF j < q THEN keys[j]
                      ELSE IF j = q THEN k ELSE keys[j - 1]
  <2>1. Inserts(keys', keys, q, k, KeySet)
    BY <1>0, <1>10, Inserted, Zenon
  <2> QED BY <2>1 DEF Inserts
<1> DEFINE V == Items \cup {NULL}
<1>12. values \in Seq(V) /\ v \in V
  BY <1>0
<1> HIDE DEF V
<1>5. /\ values' \in Seq(V) /\ Len(values') = Len(values) + 1
      /\ \A j \in 1..(Len(values) + 1) :
           values'[j] = IF j < q THEN values[j]
                        ELSE IF j = q THEN v ELSE values[j - 1]
  <2>1. Inserts(values', values, q, v, V)
    BY <1>10, <1>12, Inserted, Zenon
  <2> QED BY <2>1 DEF Inserts
<1>6. \A j \in 0..count :
        /\ keys'[j + 1] = IF j < index THEN keys[j + 1]
                          ELSE IF j = index THEN k ELSE keys[j]
        /\ values'[j + 1] = IF j < index THEN values[j + 1]
                            ELSE IF j = index THEN v ELSE values[j]
  BY <1>0, <1>2, <1>4, <1>5, <1>11
<1>7. Slots(keys', values', count + 1)
  BY <1>0, <1>4, <1>5 DEF Slots, V
<1> QED BY <1>0, <1>6, <1>7 DEF Added, Opened

LEMMA InsertSound ==
  ASSUME Sound, NEW k \in KeySet, NEW v \in Items \ given,
         NEW index \in 0..count,
         k \notin DOMAIN mapping, InsertEntry(k, v, index), SelectFirst,
         given' = given \cup {v}, UNCHANGED deleted
  PROVE  Sound'
<1>0. /\ Places(mapping, keys, count) /\ Apart(keys, count)
      /\ count \in Nat /\ DOMAIN mapping = Held(keys, count)
  BY SoundMeans, PlacesInverts
<1>1. Added(k, v, index)
  BY InsertAdds
<1>2. Opened(keys, keys', count, index, k)
  BY <1>1 DEF Added
<1>3. Apart(keys', count + 1)
      /\ DOMAIN mapping \subseteq Held(keys', count + 1)
  BY <1>0, <1>2, OpenedApart
<1>4. \A j \in 0..count : j \notin index..count =>
         keys'[j + 1] \in DOMAIN mapping /\ mapping[keys'[j + 1]] = j
  <2> TAKE j \in 0..count
  <2> HAVE j \notin index..count
  <2>1. j < index /\ j \in 0..(count - 1)
    BY <1>0
  <2>2. keys'[j + 1] = keys[j + 1]
    BY <1>2, <2>1 DEF Opened
  <2> QED BY <1>0, <2>1, <2>2 DEF Places, Held
<1>5. PlacesOutside(mapping, keys', count + 1, index, count)
  <2>1. (count + 1) - 1 = count
    BY <1>0
  <2> QED BY <1>4, <2>1, Zenon DEF PlacesOutside
<1>6. mapping' = Remapped(mapping, keys', index, count)
  BY DEF InsertEntry
<1>7. count + 1 \in Nat /\ count < count + 1 /\ count \in Int /\ index \in Nat
  BY <1>0
<1>8. Places(mapping', keys', count + 1)
  BY <1>3, <1>5, <1>6, <1>7, RemappedPlaces
<1> QED BY <1>1, <1>8, AddedSound


\* The slots of the entries that stay when the one in slot p goes.
Without(n, p) == [j \in 0..(n - 2) |-> IF j < p THEN j ELSE j + 1]

\* Closing the gap: every slot left in use comes from one that was.
LEMMA RemoveTakes ==
  ASSUME Sound, NEW k \in KeySet, RemoveEntry(k)
  PROVE  /\ mapping[k] \in 0..(count - 1) /\ keys[mapping[k] + 1] = k
         /\ count' = count - 1 /\ Slots(keys', values', count - 1)
         /\ Taken(keys, count, keys', count - 1, Without(count, mapping[k]))
         /\ Taken(values, count, values', count - 1, Without(count, mapping[k]))
<1> DEFINE p == mapping[k]
<1>0. /\ count \in Nat /\ count <= Len(keys)
      /\ Len(values) = Len(keys) /\ Len(keys) \in Nat
      /\ keys \in Seq(KeySet) /\ values \in Seq(Items \cup {NULL})
      /\ Places(mapping, keys, count)
  BY SoundMeans DEF Slots
<1>1. p \in 0..(count - 1) /\ keys[p + 1] = k
  BY <1>0, PlacesInverts DEF RemoveEntry
<1>2. /\ keys' = Closed(keys, p) /\ count' = count - 1
      /\ values' = Closed([values EXCEPT ![p + 1] = NULL], p)
  BY DEF RemoveEntry, WithoutEntry
<1> HIDE DEF p
<1> DEFINE vs == [values EXCEPT ![p + 1] = NULL]
<1>3. /\ vs \in Seq(Items \cup {NULL}) /\ Len(vs) = Len(keys)
      /\ \A j \in 1..Len(keys) : j # p + 1 => vs[j] = values[j]
  BY <1>0, <1>1
<1>4. values' = Closed(vs, p)
  BY <1>2
<1> HIDE DEF vs
<1>5. /\ keys' \in Seq(KeySet) /\ Len(keys') = Len(keys)
      /\ \A j \in 1..Len(keys) :
           keys'[j] = IF j \in (p + 1)..(count - 1) THEN keys[j + 1]
                                                    ELSE keys[j]
  BY <1>0, <1>1, <1>2, ClosedPoints
<1>6. /\ values' \in Seq(Items \cup {NULL}) /\ Len(values') = Len(keys)
      /\ \A j \in 1..Len(keys) :
           values'[j] = IF j \in (p + 1)..(count - 1) THEN vs[j + 1] ELSE vs[j]
  BY <1>0, <1>1, <1>3, <1>4, ClosedPoints
<1>7. Slots(keys', values', count - 1)
  BY <1>0, <1>1, <1>5, <1>6 DEF Slots
<1> DEFINE from == Without(count, p)
<1>8. from \in [0..(count - 2) -> 0..(count - 1)]
      /\ \A j \in 0..(count - 2) : from[j] = IF j < p THEN j ELSE j + 1
  BY <1>0, <1>1 DEF Without
<1> HIDE DEF from
<1>9. \A i, j \in 0..(count - 2) : from[i] = from[j] => i = j
  BY <1>0, <1>1, <1>8
<1>10. ASSUME NEW j \in 0..(count - 2)
       PROVE  keys'[j + 1] = keys[from[j] + 1]
              /\ values'[j + 1] = values[from[j] + 1]
  <2>1. j + 1 \in 1..Len(keys)
    BY <1>0
  <2>2. CASE j < p
    <3>1. j + 1 \notin (p + 1)..(count - 1) /\ from[j] = j /\ j + 1 # p + 1
      BY <1>0, <1>1, <1>8, <2>2
    <3>2. keys'[j + 1] = keys[j + 1] /\ values'[j + 1] = vs[j + 1]
      BY <1>5, <1>6, <2>1, <3>1, Zenon
    <3> QED BY <1>3, <2>1, <3>1, <3>2, Zenon
  <2>3. CASE j >= p
    <3>1. /\ j + 1 \in (p + 1)..(count - 1) /\ from[j] = j + 1
          /\ (j + 1) + 1 # p + 1 /\ (j + 1) + 1 \in 1..Len(keys)
      BY <1>0, <1>1, <1>8, <2>3
    <3>2. /\ keys'[j + 1] = keys[(j + 1) + 1]
          /\ values'[j + 1] = vs[(j + 1) + 1]
      BY <1>5, <1>6, <2>1, <3>1, Zenon
    <3> QED BY <1>3, <3>1, <3>2, Zenon
  <2>4. j < p \/ j >= p
    BY <1>1
  <2> QED BY <2>2, <2>3, <2>4, Zenon
<1>11. (count - 1) - 1 = count - 2
  BY <1>0
<1>12. /\ Taken(keys, count, keys', count - 1, from)
       /\ Taken(values, count, values', count - 1, from)
  BY <1>8, <1>9, <1>10, <1>11 DEF Taken
<1> QED BY <1>1, <1>2, <1>7, <1>12 DEF p, from

\* The item removed is deleted, the entries behind it move up.
LEMMA RemoveSound ==
  ASSUME Sound, NEW k \in KeySet, RemoveEntry(k)
  PROVE  Sound'
<1> DEFINE p == mapping[k]
           from == Without(count, p)
           m == Restrict(mapping, DOMAIN mapping \ {k})
<1>0. /\ Places(mapping, keys, count) /\ Apart(keys, count)
      /\ count \in Nat /\ DOMAIN mapping = Held(keys, count)
      /\ Apart(values, count) /\ Held(values, count) \subseteq given \ deleted
      /\ given \subseteq Items /\ deleted \subseteq given
      /\ current \in Int /\ -1 <= current /\ current < count
  BY SoundMeans, PlacesInverts
<1>1. /\ p \in 0..(count - 1) /\ keys[p + 1] = k
      /\ count' = count - 1 /\ Slots(keys', values', count')
      /\ Taken(keys, count, keys', count - 1, from)
      /\ Taken(values, count, values', count - 1, from)
  BY RemoveTakes
<1>2. /\ deleted' = deleted \cup {values[p + 1]} /\ given' = given
      /\ current' = IF current >= count' THEN current - 1 ELSE current
      /\ mapping' = Remapped(m, keys', p, count - 2)
  BY DEF RemoveEntry, WithoutEntry, ValueAt
<1>3. \A j \in 0..(count - 2) : from[j] = IF j < p THEN j ELSE j + 1
  BY DEF Without
<1>4. /\ DOMAIN m = Held(keys, count) \ {k}
      /\ \A x \in DOMAIN m : m[x] = mapping[x]
  BY <1>0 DEF Restrict
<1> HIDE DEF p, from, m
<1>5. Apart(keys', count - 1) /\ Apart(values', count - 1)
      /\ Held(values', count - 1) \subseteq Held(values, count)
  BY <1>0, <1>1, TakenApart
<1>6. (count - 1) - 1 = count - 2
  BY <1>0
<1>7. DOMAIN m \subseteq Held(keys', count - 1)
  <2> SUFFICES ASSUME NEW i \in 0..(count - 1), keys[i + 1] # k
               PROVE  \E j \in 0..(count - 2) : keys'[j + 1] = keys[i + 1]
    BY <1>4, <1>6 DEF Held
  <2>1. i # p
    BY <1>1
  <2>2. CASE i < p
    <3>1. i \in 0..(count - 2) /\ from[i] = i
      BY <1>0, <1>1, <1>3, <2>2
    <3> QED BY <1>1, <1>6, <3>1 DEF Taken
  <2>3. CASE i > p
    <3>1. i - 1 \in 0..(count - 2) /\ from[i - 1] = i
      BY <1>0, <1>1, <1>3, <2>3
    <3> QED BY <1>1, <1>6, <3>1 DEF Taken
  <2>4. i < p \/ i > p
    BY <1>1, <2>1
  <2> QED BY <2>2, <2>3, <2>4, Zenon
<1>8. PlacesOutside(m, keys', count - 1, p, count - 2)
  <2> SUFFICES ASSUME NEW j \in 0..(count - 2), j \notin p..(count - 2)
               PROVE  keys'[j + 1] \in DOMAIN m /\ m[keys'[j + 1]] = j
    BY <1>6, Zenon DEF PlacesOutside
  <2>1. j < p /\ j \in 0..(count - 1) /\ from[j] = j
    BY <1>0, <1>1, <1>3
  <2>2. keys'[j + 1] = keys[j + 1]
    BY <1>1, <1>6, <2>1 DEF Taken
  <2>3. keys[j + 1] # k
    BY <1>0, <1>1, <2>1 DEF Apart
  <2>4. keys[j + 1] \in Held(keys, count) /\ mapping[keys[j + 1]] = j
    BY <1>0, <2>1 DEF Places, Held
  <2> QED BY <1>4, <2>2, <2>3, <2>4
<1>9. /\ count - 1 \in Nat /\ p \in Nat
      /\ count - 2 \in Int /\ count - 2 < count - 1
  BY <1>0, <1>1
<1>10. Places(mapping', keys', count - 1)
  BY <1>2, <1>5, <1>7, <1>8, <1>9, RemappedPlaces
<1>11. values[p + 1] \notin Held(values', count - 1)
       /\ values[p + 1] \in given
  <2>1. values[p + 1] \in given
    BY <1>0, <1>1 DEF Held
  <2> SUFFICES ASSUME NEW j \in 0..(count - 2)
               PROVE  values'[j + 1] # values[p + 1]
    BY <1>6, <2>1 DEF Held
  <2>2. from[j] # p /\ from[j] \in 0..(count - 1)
    BY <1>0, <1>1, <1>3
  <2>3. values'[j + 1] = values[from[j] + 1]
    BY <1>1, <1>6 DEF Taken
  <2> QED BY <1>0, <1>1, <2>2, <2>3 DEF Apart
<1>12. Held(values', count') \subseteq given' \ deleted'
  BY <1>0, <1>1, <1>2, <1>5, <1>11
<1>13. current' \in Int /\ -1 <= current' /\ current' < count'
  BY <1>0, <1>1, <1>2
<1>14. given' \subseteq Items /\ deleted' \subseteq given'
  BY <1>0, <1>2, <1>11
<1>15. Places(mapping', keys', count') /\ Apart(values', count')
  BY <1>1, <1>5, <1>10
<1> QED BY <1>1, <1>12, <1>13, <1>14, <1>15, SoundAgain


\* Where the content of each of n slots comes from when that of slot p goes to
\* slot q, and where it goes.
MovedFrom(n, p, q) == [j \in 0..(n - 1) |-> IF j = q THEN p
                                            ELSE IF p <= j /\ j < q THEN j + 1
                                            ELSE IF q < j /\ j <= p THEN j - 1
                                            ELSE j]

\* Moving is a permutation of the slots in use.
LEMMA MovedOnto ==
  ASSUME NEW n \in Nat, NEW p \in 0..(n - 1), NEW q \in 0..(n - 1)
  PROVE  /\ MovedFrom(n, p, q) \in [0..(n - 1) -> 0..(n - 1)]
         /\ \A i, j \in 0..(n - 1) :
              MovedFrom(n, p, q)[i] = MovedFrom(n, p, q)[j] => i = j
         /\ \A i \in 0..(n - 1) :
              /\ MovedFrom(n, q, p)[i] \in 0..(n - 1)
              /\ MovedFrom(n, p, q)[MovedFrom(n, q, p)[i]] = i
<1> DEFINE f == MovedFrom(n, p, q)
           g == MovedFrom(n, q, p)
<1>1. /\ f \in [0..(n - 1) -> 0..(n - 1)]
      /\ \A j \in 0..(n - 1) : f[j] = IF j = q THEN p
                                      ELSE IF p <= j /\ j < q THEN j + 1
                                      ELSE IF q < j /\ j <= p THEN j - 1
                                      ELSE j
  BY DEF MovedFrom
<1>2. /\ g \in [0..(n - 1) -> 0..(n - 1)]
      /\ \A j \in 0..(n - 1) : g[j] = IF j = p THEN q
                                      ELSE IF q <= j /\ j < p THEN j + 1
                                      ELSE IF p < j /\ j <= q THEN j - 1
                                      ELSE j
  BY DEF MovedFrom
<1> HIDE DEF f, g
<1>3. \A i \in 0..(n - 1) : g[i] \in 0..(n - 1) /\ f[g[i]] = i
  <2> SUFFICES ASSUME NEW i \in 0..(n - 1)
               PROVE  f[g[i]] = i
    BY <1>2
  <2> DEFINE h == g[i]
  <2>1. /\ h \in 0..(n - 1)
        /\ h = IF i = p THEN q
               ELSE IF q <= i /\ i < p THEN i + 1
               ELSE IF p < i /\ i <= q THEN i - 1
               ELSE i
    BY <1>2
  <2> HIDE DEF h
  <2>2. f[h] = IF h = q THEN p
               ELSE IF p <= h /\ h < q THEN h + 1
               ELSE IF q < h /\ h <= p THEN h - 1
               ELSE h
    BY <1>1, <2>1
  <2>3. f[h] = i
    BY <2>1, <2>2
  <2> QED BY <2>3 DEF h
<1>4. \A j \in 0..(n - 1) : f[j] \in 0..(n - 1) /\ g[f[j]] = j
  <2> SUFFICES ASSUME NEW j \in 0..(n - 1)
               PROVE  g[f[j]] = j
    BY <1>1
  <2> DEFINE h == f[j]
  <2>1. /\ h \in 0..(n - 1)
        /\ h = IF j = q THEN p
               ELSE IF p <= j /\ j < q THEN j + 1
               ELSE IF q < j /\ j <= p THEN j - 1
               ELSE j
    BY <1>1
  <2> HIDE DEF h
  <2>2. g[h] = IF h = p THEN q
               ELSE IF q <= h /\ h < p THEN h + 1
               ELSE IF p < h /\ h <= q THEN h - 1
               ELSE h
    BY <1>2, <2>1
  <2>3. g[h] = j
    BY <2>1, <2>2
  <2> QED BY <2>3 DEF h
<1>5. \A i, j \in 0..(n - 1) : f[i] = f[j] => i = j
  BY <1>4
<1> QED BY <1>1, <1>3, <1>5 DEF f, g

\* Moving takes every slot in use from one in use.
LEMMA MoveTakes ==
  ASSUME Sound, NEW p \in 0..(count - 1), NEW newidx \in -1..(count - 1),
         Move(p, newidx)
  PROVE  LET q == IF newidx < 0 THEN count - 1 ELSE newidx
         IN  /\ q \in 0..(count - 1)
             /\ Slots(keys', values', count)
             /\ Taken(keys, count, keys', count, MovedFrom(count, p, q))
             /\ Taken(values, count, values', count, MovedFrom(count, p, q))
             /\ mapping' = Remapped(mapping, keys', IF q > p THEN p ELSE q,
                                                    IF q > p THEN q ELSE p)
<1> DEFINE q == IF newidx < 0 THEN count - 1 ELSE newidx
           f == MovedFrom(count, p, q)
           To(s) == [j \in DOMAIN s |->
                       IF j = q + 1 THEN s[p + 1]
                       ELSE IF j \in (p + 1)..q THEN s[j + 1]
                       ELSE IF j \in (q + 2)..(p + 1) THEN s[j - 1]
                       ELSE s[j]]
<1>0. /\ count \in Nat /\ count <= Len(keys)
      /\ Len(values) = Len(keys) /\ Len(keys) \in Nat
      /\ keys \in Seq(KeySet) /\ values \in Seq(Items \cup {NULL})
  BY SoundMeans DEF Slots
<1>1. q \in 0..(count - 1)
      /\ (IF newidx < 0 \/ newidx > count THEN count - 1 ELSE newidx) = q
  BY <1>0
<1>2. /\ keys' = To(keys) /\ values' = To(values)
      /\ mapping' = Remapped(mapping, keys', IF q > p THEN p ELSE q,
                                             IF q > p THEN q ELSE p)
  BY <1>1 DEF Move
<1> HIDE DEF q
<1>3. ASSUME NEW S, NEW s \in Seq(S), Len(s) = Len(keys)
      PROVE  /\ To(s) \in Seq(S) /\ Len(To(s)) = Len(s)
             /\ \A j \in 1..Len(s) : To(s)[j] =
                  IF j = q + 1 THEN s[p + 1]
                  ELSE IF j \in (p + 1)..q THEN s[j + 1]
                  ELSE IF j \in (q + 2)..(p + 1) THEN s[j - 1]
                  ELSE s[j]
  <2>1. DOMAIN s = 1..Len(s) /\ Len(s) \in Nat
        /\ \A j \in 1..Len(s) : s[j] \in S
    BY <1>3
  <2>2. \A j \in 1..Len(s) : To(s)[j] =
          IF j = q + 1 THEN s[p + 1]
          ELSE IF j \in (p + 1)..q THEN s[j + 1]
          ELSE IF j \in (q + 2)..(p + 1) THEN s[j - 1]
          ELSE s[j]
    BY <2>1, Zenon
  <2>3. DOMAIN To(s) = 1..Len(s) /\ To(s) = [j \in 1..Len(s) |-> To(s)[j]]
    BY <2>1
  <2> HIDE DEF To
  <2>4. ASSUME NEW j \in 1..Len(s)
        PROVE  To(s)[j] \in S
    <3>1. p + 1 \in 1..Len(s)
      BY <1>0, <1>3, <2>1
    <3>2. j \in (p + 1)..q => j + 1 \in 1..Len(s)
      BY <1>0, <1>1, <1>3, <2>1
    <3>3. j \in (q + 2)..(p + 1) => j - 1 \in 1..Len(s)
      BY <1>0, <1>1, <1>3, <2>1
    <3> QED BY <2>1, <2>2, <3>1, <3>2, <3>3, Zenon
  <2>5. To(s) \in [1..Len(s) -> S]
    BY <2>3, <2>4
  <2>6. To(s) \in Seq(S) /\ Len(To(s)) = Len(s)
    BY <2>1, <2>3, <2>5
  <2> QED BY <2>2, <2>6
<1>4. /\ f \in [0..(count - 1) -> 0..(count - 1)]
      /\ \A i, j \in 0..(count - 1) : f[i] = f[j] => i = j
  <2>1. count \in Nat /\ q \in 0..(count - 1)
    BY <1>0, <1>1
  <2> QED BY ONLY <2>1, p \in 0..(count - 1), MovedOnto
<1>5. \A j \in 0..(count - 1) : f[j] = IF j = q THEN p
                                       ELSE IF p <= j /\ j < q THEN j + 1
                                       ELSE IF q < j /\ j <= p THEN j - 1
                                       ELSE j
  BY DEF MovedFrom
<1> HIDE DEF f
<1>6. ASSUME NEW S, NEW s \in Seq(S), Len(s) = Len(keys)
      PROVE  Taken(s, count, To(s), count, f)
  <2> SUFFICES ASSUME NEW j \in 0..(count - 1)
               PROVE  To(s)[j + 1] = s[f[j] + 1]
    BY <1>4, Zenon DEF Taken
  <2>1. j + 1 \in 1..Len(s) /\ j \in Int /\ p \in Int /\ q \in Int
    BY <1>0, <1>1, <1>6
  <2>2. To(s)[j + 1] = IF j + 1 = q + 1 THEN s[p + 1]
                       ELSE IF j + 1 \in (p + 1)..q THEN s[(j + 1) + 1]
                       ELSE IF j + 1 \in (q + 2)..(p + 1) THEN s[(j + 1) - 1]
                       ELSE s[j + 1]
    BY <1>3, <1>6, <2>1
  <2> HIDE DEF To
  <2>3. CASE j = q
    BY <1>5, <2>2, <2>3
  <2>4. CASE j # q /\ p <= j /\ j < q
    BY <1>5, <2>1, <2>2, <2>4
  <2>5. CASE j # q /\ q < j /\ j <= p
    BY <1>5, <2>1, <2>2, <2>5
  <2>6. CASE j # q /\ ~(p <= j /\ j < q) /\ ~(q < j /\ j <= p)
    BY <1>5, <2>1, <2>2, <2>6
  <2> QED BY <2>3, <2>4, <2>5, <2>6
<1> DEFINE V == Items \cup {NULL}
<1>7. values \in Seq(V)
  BY <1>0
<1>8. /\ To(keys) \in Seq(KeySet) /\ Len(To(keys)) = Len(keys)
      /\ Taken(keys, count, To(keys), count, f)
  <2> HIDE DEF To
  <2> QED BY <1>0, <1>3, <1>6
<1>9. /\ To(values) \in Seq(V) /\ Len(To(values)) = Len(keys)
      /\ Taken(values, count, To(values), count, f)
  <2> HIDE DEF To, V
  <2> QED BY <1>0, <1>3, <1>6, <1>7
<1> HIDE DEF To
<1>10. Slots(keys', values', count)
  BY <1>0, <1>2, <1>8, <1>9 DEF Slots
<1> QED BY <1>1, <1>2, <1>8, <1>9, <1>10 DEF f, q

\* Moving an entry changes its place and those between, nothing else.
LEMMA MoveSound ==
  ASSUME Sound, NEW k \in KeySet, NEW newidx \in -1..(count - 1),
         MoveKey(k, newidx)
  PROVE  Sound'
<1> DEFINE p == mapping[k]
           q == IF newidx < 0 THEN count - 1 ELSE newidx
           f == MovedFrom(count, p, q)
           low == IF q > p THEN p ELSE q
           high == IF q > p THEN q ELSE p
<1>0. /\ Places(mapping, keys, count) /\ Apart(keys, count)
      /\ count \in Nat /\ DOMAIN mapping = Held(keys, count)
      /\ Apart(values, count) /\ Held(values, count) \subseteq given \ deleted
      /\ given \subseteq Items /\ deleted \subseteq given
      /\ current \in Int /\ -1 <= current /\ current < count
  BY SoundMeans, PlacesInverts
<1>1. p \in 0..(count - 1) /\ Move(p, newidx)
  BY <1>0, PlacesInverts DEF MoveKey
<1>2. UNCHANGED <<count, current, given, deleted>>
  BY <1>1 DEF Move
<1>3. /\ q \in 0..(count - 1)
      /\ Slots(keys', values', count)
      /\ Taken(keys, count, keys', count, f)
      /\ Taken(values, count, values', count, f)
      /\ mapping' = Remapped(mapping, keys', low, high)
  <2> HIDE DEF p
  <2> QED BY <1>1, MoveTakes
<1>4. low \in Nat /\ high \in Int /\ high < count
  BY <1>0, <1>1, <1>3
<1>5. \A j \in 0..(count - 1) : j \notin low..high => f[j] = j
  BY <1>0, <1>1, <1>3 DEF MovedFrom
<1>6. \A i \in 0..(count - 1) : \E j \in 0..(count - 1) : f[j] = i
  <2>1. count \in Nat /\ p \in 0..(count - 1) /\ q \in 0..(count - 1)
    BY <1>0, <1>1, <1>3
  <2> HIDE DEF p, q
  <2> DEFINE g == MovedFrom(count, q, p)
  <2>2. \A i \in 0..(count - 1) : g[i] \in 0..(count - 1) /\ f[g[i]] = i
    BY <2>1, MovedOnto
  <2> HIDE DEF f, g
  <2> QED BY <2>2
<1> HIDE DEF p, q, f, low, high
<1>7. Apart(keys', count) /\ Apart(values', count)
      /\ Held(values', count) \subseteq Held(values, count)
  BY <1>0, <1>3, TakenApart
<1>8. DOMAIN mapping \subseteq Held(keys', count)
  <2> SUFFICES ASSUME NEW i \in 0..(count - 1)
               PROVE  \E j \in 0..(count - 1) : keys'[j + 1] = keys[i + 1]
    BY <1>0 DEF Held
  <2>1. PICK j \in 0..(count - 1) : f[j] = i
    BY <1>6
  <2> QED BY <1>3, <2>1 DEF Taken
<1>9. PlacesOutside(mapping, keys', count, low, high)
  <2> SUFFICES ASSUME NEW j \in 0..(count - 1), j \notin low..high
               PROVE  keys'[j + 1] \in DOMAIN mapping
                      /\ mapping[keys'[j + 1]] = j
    BY DEF PlacesOutside
  <2>1. keys'[j + 1] = keys[j + 1]
    BY <1>3, <1>5 DEF Taken
  <2> QED BY <1>0, <2>1 DEF Places, Held
<1>10. Places(mapping', keys', count)
  BY <1>0, <1>3, <1>4, <1>7, <1>8, <1>9, RemappedPlaces
<1> QED BY <1>0, <1>2, <1>3, <1>7, <1>10, SoundAgain


LEMMA SelectSound ==
  ASSUME Sound, NEW k \in KeySet, SetCurrentKey(k)
  PROVE  Sound'
<1>1. mapping[k] \in 0..(count - 1) /\ count \in Nat
  BY SoundMeans, PlacesInverts DEF SetCurrentKey
<1>2. /\ current' = mapping[k]
      /\ UNCHANGED <<keys, values, mapping, count, given, deleted>>
  BY DEF SetCurrentKey, storage
<1> QED BY <1>1, <1>2, SoundMeans, SoundAgain

\* Nothing is in use afterwards, whatever the slots hold.
LEMMA ClearSound ==
  ASSUME Sound, Clear
  PROVE  Sound'
<1>0. /\ Slots(keys, values, count)
      /\ given \subseteq Items /\ deleted \subseteq given
  BY SoundMeans
<1>1. /\ mapping' = << >> /\ count' = 0 /\ current' = -1
      /\ keys' = keys /\ given' = given
  BY DEF Clear
<1>2. deleted' = deleted /\ values' = [j \in DOMAIN values |->
                                         IF j <= 0 THEN NULL ELSE values[j]]
  BY <1>1 DEF Clear, DeleteItems
<1>3. values' = values
  BY <1>0, <1>2 DEF Slots
<1>4. Slots(keys', values', count')
  BY <1>0, <1>1, <1>3 DEF Slots
<1>5. Places(mapping', keys', count')
  BY <1>1 DEF Places, Held
<1>6. Apart(values', count') /\ Held(values', count') = {}
  BY <1>1 DEF Apart, Held
<1> QED BY <1>0, <1>1, <1>2, <1>4, <1>5, <1>6, SoundAgain

LEMMA NextSound == Sound /\ [Next]_vars => Sound'
<1> SUFFICES ASSUME Sound, [Next]_vars
             PROVE  Sound'
  OBVIOUS
<1>1. ASSUME NEW k \in KeySet, NEW v \in Items \ given, Overwrite(k, v)
      PROVE  Sound'
  BY <1>1, OverwriteSound
<1>2. ASSUME NEW k \in KeySet, NEW v \in Items \ given,
             NEW index \in -1..count, AddEntry(k, v, index)
      PROVE  Sound'
  <2>1. /\ k \notin DOMAIN mapping /\ SelectFirst
        /\ given' = given \cup {v} /\ UNCHANGED deleted
    BY <1>2 DEF AddEntry
  <2>2. CASE index < 0 \/ index > count
    BY <1>2, <2>1, <2>2, AppendSound DEF AddEntry
  <2>3. CASE ~(index < 0 \/ index > count)
    <3>1. index \in 0..count
      BY <2>3
    <3> QED BY <1>2, <2>1, <2>3, <3>1, InsertSound DEF AddEntry
  <2> QED BY <2>2, <2>3
<1>3. ASSUME NEW k \in KeySet, RemoveEntry(k)
      PROVE  Sound'
  BY <1>3, RemoveSound
<1>4. ASSUME NEW k \in KeySet, SetCurrentKey(k)
      PROVE  Sound'
  BY <1>4, SelectSound
<1>5. ASSUME NEW k \in KeySet, NEW newidx \in -1..(count - 1),
             MoveKey(k, newidx)
      PROVE  Sound'
  BY <1>5, MoveSound
<1>6. CASE Clear
  BY <1>6, ClearSound
<1>7. CASE UNCHANGED vars
  <2>1. UNCHANGED <<keys, values, mapping, count, current, given, deleted>>
    BY <1>7 DEF vars, storage
  <2> QED BY <2>1, SoundMeans, SoundAgain
<1> QED BY <1>1, <1>2, <1>3, <1>4, <1>5, <1>6, <1>7 DEF Next

\* The map and the keys in use agree, one position each; what is left over in
\* the slots behind never matters (LTDict.hh: m_mapping, m_keys, m_count).
THEOREM SoundHolds == Spec => []Sound
<1> QED BY InitSound, NextSound, PTL DEF Spec

\* contains, operator[], indexOf, keyAt and count answer alike: the map is the
\* inverse of the keys in use.
THEOREM MapAndKeysAgree == Spec => []MappingInvertsKeys
<1>1. Sound => MappingInvertsKeys
  <2> SUFFICES ASSUME Sound
               PROVE  MappingInvertsKeys
    OBVIOUS
  <2>1. /\ Slots(keys, values, count) /\ count \in Nat
        /\ Places(mapping, keys, count) /\ Apart(keys, count)
        /\ DOMAIN mapping = Held(keys, count)
        /\ \A k \in DOMAIN mapping :
             mapping[k] \in 0..(count - 1) /\ keys[mapping[k] + 1] = k
    BY SoundMeans, PlacesInverts
  <2> DEFINE name == [j \in 1..count |-> keys[j]]
  <2>2. name \in Bijection(1..count, Held(keys, count))
    <3>1. \A j \in 1..count : name[j] \in Held(keys, count)
      <4> TAKE j \in 1..count
      <4>1. j - 1 \in 0..(count - 1) /\ (j - 1) + 1 = j
        BY <2>1
      <4> QED BY <4>1 DEF Held
    <3>2. \A i, j \in 1..count : name[i] = name[j] => i = j
      <4> TAKE i, j \in 1..count
      <4>1. /\ j - 1 \in 0..(count - 1) /\ (j - 1) + 1 = j
            /\ i - 1 \in 0..(count - 1) /\ (i - 1) + 1 = i
        BY <2>1
      <4>2. keys[i] = keys[j] => i - 1 = j - 1
        BY <2>1, <4>1 DEF Apart
      <4> QED BY <4>1, <4>2
    <3>3. \A x \in Held(keys, count) : \E j \in 1..count : name[j] = x
      <4> SUFFICES ASSUME NEW j \in 0..(count - 1)
                   PROVE  \E i \in 1..count : name[i] = keys[j + 1]
        BY DEF Held
      <4>1. j + 1 \in 1..count
        BY <2>1
      <4> QED BY <4>1
    <3> QED BY <3>1, <3>2, <3>3 DEF Bijection, Injection, Surjection,
                                    IsInjective
  <2>3. IsFiniteSet(1..count) /\ Cardinality(1..count) = count
    BY <2>1, FS_Interval
  <2>4. Cardinality(Held(keys, count)) = count
    BY <2>2, <2>3, FS_Bijection DEF ExistsBijection
  <2> QED BY <2>1, <2>4 DEF MappingInvertsKeys, Slots, KeyAt
<1> QED BY <1>1, SoundHolds, PTL

\* An item is in the dictionary once and only until it is deleted, so none is
\* deleted twice or handed out after that (autoDelete).
THEOREM ItemsOwnedOnce == Spec => []OwnedOnce
<1>1. Sound => OwnedOnce
  BY DEF Sound
<1> QED BY <1>1, SoundHolds, PTL


-----------------------------------------------------------------------------
(***************************************************************************)
(* The operations are those of Dictionary.                                 *)
(***************************************************************************)
\* An entry as it is shown.
Entries == [key : KeySet, val : Items \cup {NULL}]

\* What is shown, and where the abstract dictionary finds a key.
LEMMA ShownIs ==
  ASSUME Sound
  PROVE  /\ Shown \in Seq(Entries) /\ Len(Shown) = count
         /\ DOMAIN Shown = 1..count
         /\ \A j \in 1..count : Shown[j] = D!Entry(keys[j], values[j])
         /\ D!Keys(Shown) = DOMAIN mapping
         /\ \A k \in DOMAIN mapping : D!IndexOf(Shown, k) = mapping[k] + 1
<1>0. /\ Slots(keys, values, count) /\ count \in Nat
      /\ Places(mapping, keys, count) /\ Apart(keys, count)
      /\ DOMAIN mapping = Held(keys, count)
      /\ \A k \in DOMAIN mapping :
           mapping[k] \in 0..(count - 1) /\ keys[mapping[k] + 1] = k
  BY SoundMeans, PlacesInverts
<1>1. DOMAIN Shown = 1..count
      /\ \A j \in 1..count : Shown[j] = [key |-> keys[j], val |-> values[j]]
  BY DEF Shown
<1>2. Shown \in [1..count -> Entries]
  BY <1>0 DEF Shown, Slots, Entries
<1>3. Shown \in Seq(Entries) /\ Len(Shown) = count
  BY <1>0, <1>2
<1>4. \A j \in 1..count : /\ j - 1 \in 0..(count - 1) /\ (j - 1) + 1 = j
                          /\ Shown[j].key = keys[j]
  BY <1>0, <1>1
<1>5. \A k \in DOMAIN mapping : /\ mapping[k] + 1 \in 1..count
                                /\ Shown[mapping[k] + 1].key = k
  BY <1>0, <1>1
<1>6. D!Keys(Shown) = DOMAIN mapping
  <2>1. \A j \in 1..count : Shown[j].key \in Held(keys, count)
    BY <1>4 DEF Held
  <2> QED BY <1>0, <1>1, <1>5, <2>1 DEF D!Keys
<1>7. ASSUME NEW k \in DOMAIN mapping
      PROVE  D!IndexOf(Shown, k) = mapping[k] + 1
  <2>1. \A j \in 1..count : Shown[j].key = k => j = mapping[k] + 1
    <3> TAKE j \in 1..count
    <3> HAVE Shown[j].key = k
    <3>1. keys[(j - 1) + 1] = keys[mapping[k] + 1]
      BY <1>0, <1>4
    <3>2. j - 1 = mapping[k]
      BY <1>0, <1>4, <3>1 DEF Apart
    <3> QED BY <1>4, <3>2
  <2> DEFINE c == CHOOSE i \in DOMAIN Shown : Shown[i].key = k
  <2>2. c \in 1..count /\ Shown[c].key = k
    BY <1>1, <1>5
  <2>3. c = mapping[k] + 1
    <3> HIDE DEF c
    <3> QED BY <2>1, <2>2
  <2> QED BY <2>3 DEF D!IndexOf
<1> QED BY <1>1, <1>3, <1>6, <1>7 DEF D!Entry

\* Two sequences with the same entries are the same.
LEMMA ShownAfter ==
  ASSUME NEW S, NEW t \in Seq(S), Len(t) = count',
         \A j \in 1..Len(t) : t[j] = D!Entry(keys'[j], values'[j])
  PROVE  Shown' = t
<1>1. t = [j \in 1..Len(t) |-> t[j]]
  OBVIOUS
<1>2. Shown' = [j \in 1..Len(t) |-> D!Entry(keys'[j], values'[j])]
  BY DEF Shown, D!Entry
<1> QED BY <1>1, <1>2

\* A key that is there: its value replaced in place.
LEMMA OverwriteInserts ==
  ASSUME Sound, NEW k \in KeySet, NEW v \in Items \ given, Overwrite(k, v)
  PROVE  D!Inserting(k, v, 0)
<1> DEFINE p == mapping[k]
           e == [Shown EXCEPT ![p + 1].val = v]
<1>0. /\ Slots(keys, values, count) /\ count \in Nat
      /\ Places(mapping, keys, count) /\ k \in DOMAIN mapping
      /\ p \in 0..(count - 1)
  BY SoundMeans, PlacesInverts DEF Overwrite
<1>1. /\ Shown \in Seq(Entries) /\ Len(Shown) = count
      /\ \A j \in 1..count : Shown[j] = [key |-> keys[j], val |-> values[j]]
      /\ k \in D!Keys(Shown) /\ D!IndexOf(Shown, k) = p + 1
  BY <1>0, ShownIs DEF D!Entry
<1>2. /\ keys' = keys /\ count' = count /\ current' = current
      /\ values' = [values EXCEPT ![p + 1] = v]
  BY DEF Overwrite
<1>3. D!PutAt(Shown, k, v, 0) = e
  BY <1>1 DEF D!PutAt, D!With
<1> HIDE DEF p
<1>4. e \in Seq(Entries) /\ Len(e) = count
  BY <1>0, <1>1 DEF Entries
<1>5. \A j \in 1..count : e[j] = [key |-> keys'[j], val |-> values'[j]]
  <2> TAKE j \in 1..count
  <2>1. j \in DOMAIN Shown /\ j \in DOMAIN values
    BY <1>0, <1>1 DEF Slots
  <2>2. e[j] = IF j = p + 1 THEN [Shown[j] EXCEPT !.val = v] ELSE Shown[j]
    BY <2>1
  <2>3. values'[j] = IF j = p + 1 THEN v ELSE values[j]
    BY <1>2, <2>1
  <2>4. [Shown[j] EXCEPT !.val = v] = [key |-> keys[j], val |-> v]
    BY <1>1
  <2> HIDE DEF e
  <2> QED BY <1>1, <1>2, <2>2, <2>3, <2>4
<1> HIDE DEF e
<1>6. Shown' = e
  BY <1>2, <1>4, <1>5, ShownAfter DEF D!Entry
<1>7. Shown # <<>>
  BY <1>0, <1>1
<1>8. p + 1 \in 1..count /\ D!At(Shown, k) = ValueAt(p)
  BY <1>0, <1>1 DEF D!At, ValueAt
<1>9. deleted' = deleted \cup {ValueAt(p)}
  BY DEF Overwrite, p
<1>10. {D!At(Shown, x) : x \in D!Keys(Shown) \cap {k}} = {ValueAt(p)}
  BY <1>1, <1>8
<1> QED BY <1>2, <1>3, <1>6, <1>7, <1>9, <1>10 DEF D!Inserting


\* Removal moves the later elements down by one.
LEMMA RemovePoints ==
  ASSUME NEW S, NEW s \in Seq(S), NEW i \in 1..Len(s)
  PROVE  /\ RemoveAt(s, i) \in Seq(S)
         /\ Len(RemoveAt(s, i)) = Len(s) - 1
         /\ \A j \in 1..(Len(s) - 1) :
              RemoveAt(s, i)[j] = IF j < i THEN s[j] ELSE s[j + 1]
<1> DEFINE a == SubSeq(s, 1, i - 1)
           b == SubSeq(s, i + 1, Len(s))
<1>0. Len(s) \in Nat /\ i \in Nat /\ i >= 1 /\ i <= Len(s)
  OBVIOUS
<1>1. a \in Seq(S) /\ Len(a) = i - 1 /\ \A j \in 1..(i - 1) : a[j] = s[j]
  OBVIOUS
<1>2. b \in Seq(S) /\ Len(b) = Len(s) - i
      /\ \A j \in 1..(Len(s) - i) : b[j] = s[i + j]
  OBVIOUS
<1> HIDE DEF a, b
<1>3. RemoveAt(s, i) = a \o b
  BY DEF RemoveAt, a, b
<1>4. a \o b \in Seq(S) /\ Len(a \o b) = Len(s) - 1
  <2>0. a \in Seq(S) /\ b \in Seq(S)
    BY <1>1, <1>2
  <2>1. a \o b \in Seq(S) /\ Len(a \o b) = Len(a) + Len(b)
    BY <2>0
  <2>2. Len(a) + Len(b) = Len(s) - 1
    BY <1>0, <1>1, <1>2
  <2> QED BY <2>1, <2>2
<1>5. ASSUME NEW j \in 1..(Len(s) - 1)
      PROVE  (a \o b)[j] = IF j < i THEN s[j] ELSE s[j + 1]
  <2>1. CASE j < i
    BY <1>1, <1>2, <2>1
  <2>2. CASE j >= i
    <3>1. (a \o b)[j] = b[j - (i - 1)]
      BY <1>1, <1>2, <2>2
    <3>2. j - (i - 1) \in 1..(Len(s) - i) /\ i + (j - (i - 1)) = j + 1
      BY <1>0, <2>2
    <3>3. b[j - (i - 1)] = s[i + (j - (i - 1))]
      BY <1>2, <3>2
    <3> QED BY <3>1, <3>2, <3>3, <2>2, <1>0
  <2>3. j < i \/ j >= i
    BY <1>0
  <2> QED BY <2>1, <2>2, <2>3, Zenon
<1> QED BY <1>3, <1>4, <1>5

\* Put first into an empty dictionary, an entry is the selected one.
LEMMA FirstIsSelected ==
  ASSUME Sound, SelectFirst, count' = count + 1
  PROVE  current' + 1 = IF Shown = <<>> THEN 1 ELSE current + 1
<1>1. count \in Nat /\ (Shown = <<>> <=> count = 0)
      /\ current \in Int /\ -1 <= current /\ current < count
  BY SoundMeans, ShownIs
<1> QED BY <1>1 DEF SelectFirst

\* A new key, at the end or in front of the entry at a position.
LEMMA AddInserts ==
  ASSUME Sound, NEW k \in KeySet, NEW v \in Items \ given,
         NEW index \in -1..count, AddEntry(k, v, index)
  PROVE  D!Inserting(k, v, index + 1)
<1> DEFINE e == D!Entry(k, v)
<1>0. /\ count \in Nat /\ k \notin D!Keys(Shown) /\ SelectFirst
      /\ Shown \in Seq(Entries) /\ Len(Shown) = count
      /\ \A j \in 1..count : Shown[j] = D!Entry(keys[j], values[j])
      /\ e \in Entries
  BY SoundMeans, ShownIs DEF AddEntry, Entries, D!Entry
<1> HIDE DEF e
<1>3. deleted' = deleted /\ {D!At(Shown, x) : x \in D!Keys(Shown) \cap {k}} = {}
  BY <1>0 DEF AddEntry
<1>1. CASE index = -1
  <2>1. AppendEntry(k, v)
    BY <1>1 DEF AddEntry
  <2>2. Added(k, v, count)
    BY <2>1, AppendAdds
  <2>3. D!PutAt(Shown, k, v, index + 1) = Append(Shown, e)
    BY <1>0, <1>1 DEF D!PutAt, e
  <2> DEFINE t == Append(Shown, e)
  <2>4. t \in Seq(Entries) /\ Len(t) = count + 1 /\ count' = count + 1
    BY <1>0, <2>2 DEF Added
  <2>5. \A j \in 1..(count + 1) : t[j] = D!Entry(keys'[j], values'[j])
    <3> TAKE j \in 1..(count + 1)
    <3>1. j - 1 \in 0..count /\ (j - 1) + 1 = j
      BY <1>0
    <3>2. CASE j = count + 1
      <4>1. t[j] = e
        BY <1>0, <3>2
      <4>2. keys'[j] = k /\ values'[j] = v
        BY <1>0, <2>2, <3>1, <3>2 DEF Added, Opened
      <4> HIDE DEF t
      <4> QED BY <4>1, <4>2 DEF e
    <3>3. CASE j # count + 1
      <4>1. t[j] = Shown[j] /\ j \in 1..count /\ j - 1 < count
        BY <1>0, <3>3
      <4>2. keys'[(j - 1) + 1] = keys[(j - 1) + 1]
            /\ values'[(j - 1) + 1] = values[(j - 1) + 1]
        BY <2>2, <3>1, <4>1 DEF Added, Opened
      <4> HIDE DEF t
      <4> QED BY <1>0, <3>1, <4>1, <4>2
    <3> QED BY <3>2, <3>3, Zenon
  <2> HIDE DEF t
  <2>6. Shown' = t
    BY <2>4, <2>5, ShownAfter
  <2>7. current' + 1 = IF Shown = <<>> THEN 1 ELSE current + 1
    BY <1>0, <2>4, FirstIsSelected
  <2> QED BY <1>3, <2>3, <2>6, <2>7 DEF D!Inserting, t
<1>2. CASE index \in 0..count
  <2>1. InsertEntry(k, v, index)
    BY <1>0, <1>2 DEF AddEntry
  <2>2. Added(k, v, index)
    BY <1>2, <2>1, InsertAdds
  <2> DEFINE t == InsertAt(Shown, index + 1, e)
  <2>3. D!PutAt(Shown, k, v, index + 1) = t
    <3>1. index + 1 \in 1..(Len(Shown) + 1)
      BY <1>0, <1>2
    <3> QED BY <1>0, <3>1 DEF D!PutAt, D!InsertAt, InsertAt, e
  <2> DEFINE q == index + 1
  <2>4. q \in 1..(Len(Shown) + 1) /\ t = InsertAt(Shown, q, e)
    BY <1>0, <1>2
  <2> HIDE DEF q, t
  <2>5. /\ t \in Seq(Entries) /\ Len(t) = Len(Shown) + 1
        /\ \A j \in 1..(Len(Shown) + 1) :
             t[j] = IF j < q THEN Shown[j]
                    ELSE IF j = q THEN e ELSE Shown[j - 1]
    <3>1. Shown \in Seq(Entries) /\ e \in Entries
      BY <1>0
    <3> HIDE DEF Shown
    <3>2. Inserts(t, Shown, q, e, Entries)
      BY <2>4, <3>1, Inserted, Zenon
    <3> QED BY <3>2 DEF Inserts
  <2>6. \A j \in 1..(count + 1) : t[j] = D!Entry(keys'[j], values'[j])
    <3> TAKE j \in 1..(count + 1)
    <3>1. j - 1 \in 0..count /\ (j - 1) + 1 = j /\ j \in 1..(Len(Shown) + 1)
          /\ q = index + 1 /\ j \in Int /\ q \in Int
      BY <1>0, <1>2 DEF q
    <3>2. /\ keys'[j] = IF j - 1 < index THEN keys[j]
                        ELSE IF j - 1 = index THEN k ELSE keys[j - 1]
          /\ values'[j] = IF j - 1 < index THEN values[j]
                          ELSE IF j - 1 = index THEN v ELSE values[j - 1]
      BY <2>2, <3>1 DEF Added, Opened
    <3>3. CASE j < q
      <4>1. j \in 1..count /\ j - 1 < index
        BY <1>0, <1>2, <3>1, <3>3
      <4> QED BY <1>0, <2>5, <3>1, <3>2, <3>3, <4>1
    <3>4. CASE j = q
      <4>1. ~(j - 1 < index) /\ j - 1 = index /\ ~(j < q)
        BY <1>0, <1>2, <3>1, <3>4
      <4> QED BY <2>5, <3>1, <3>2, <3>4, <4>1 DEF e
    <3>5. CASE j > q
      <4>1. j - 1 \in 1..count /\ ~(j - 1 < index) /\ j - 1 # index
        BY <1>0, <1>2, <3>1, <3>5
      <4> QED BY <1>0, <2>5, <3>1, <3>2, <3>5, <4>1
    <3> QED BY <3>1, <3>3, <3>4, <3>5
  <2>7. Len(t) = count' /\ count' = count + 1
    BY <1>0, <2>2, <2>5 DEF Added
  <2>8. Shown' = t
    BY <2>5, <2>6, <2>7, ShownAfter
  <2>9. current' + 1 = IF Shown = <<>> THEN 1 ELSE current + 1
    BY <1>0, <2>7, FirstIsSelected
  <2> QED BY <1>3, <2>3, <2>8, <2>9 DEF D!Inserting
<1> QED BY <1>0, <1>1, <1>2


\* The entry goes; the selected position stays as long as there is one.
LEMMA RemoveRemoves ==
  ASSUME Sound, NEW k \in KeySet, RemoveEntry(k)
  PROVE  D!Removing(k)
<1> DEFINE p == mapping[k]
           i == p + 1
           t == RemoveAt(Shown, i)
           from == Without(count, p)
<1>0. /\ count \in Nat /\ k \in DOMAIN mapping
      /\ Shown \in Seq(Entries) /\ Len(Shown) = count
      /\ \A j \in 1..count : Shown[j] = D!Entry(keys[j], values[j])
      /\ k \in D!Keys(Shown) /\ D!IndexOf(Shown, k) = i
      /\ current \in Int /\ -1 <= current /\ current < count
  BY SoundMeans, ShownIs DEF RemoveEntry
<1>1. /\ p \in 0..(count - 1) /\ count' = count - 1
      /\ Taken(keys, count, keys', count - 1, from)
      /\ Taken(values, count, values', count - 1, from)
  BY RemoveTakes
<1>2. current' = IF current >= count' THEN current - 1 ELSE current
  BY DEF RemoveEntry
<1>3. \A j \in 0..(count - 2) : from[j] = IF j < p THEN j ELSE j + 1
  BY DEF Without
<1>4. D!Drop(Shown, k) = t
  BY <1>0 DEF D!Drop, D!RemoveAt, RemoveAt
<1>5. i = p + 1
  OBVIOUS
<1>13. deleted' = deleted \cup {ValueAt(p)}
  BY DEF RemoveEntry, WithoutEntry
<1> HIDE DEF p, i, from, t
<1>6. i \in 1..Len(Shown)
  BY <1>0, <1>1, <1>5
<1>7. /\ t \in Seq(Entries) /\ Len(t) = Len(Shown) - 1
      /\ \A j \in 1..(Len(Shown) - 1) :
           t[j] = IF j < i THEN Shown[j] ELSE Shown[j + 1]
  <2> HIDE DEF Shown
  <2> QED BY <1>0, <1>6, RemovePoints DEF t
<1>8. (count - 1) - 1 = count - 2
  BY <1>0
<1>9. \A j \in 1..(count - 1) : t[j] = D!Entry(keys'[j], values'[j])
  <2> TAKE j \in 1..(count - 1)
  <2>1. /\ j - 1 \in 0..(count - 2) /\ (j - 1) + 1 = j
        /\ j \in 1..(Len(Shown) - 1) /\ j \in 1..count /\ j + 1 \in 1..count
    BY <1>0
  <2>2. keys'[j] = keys[from[j - 1] + 1] /\ values'[j] = values[from[j - 1] + 1]
    BY <1>1, <1>8, <2>1 DEF Taken
  <2>3. from[j - 1] + 1 = IF j < i THEN j ELSE j + 1
    BY <1>1, <1>3, <1>5, <2>1
  <2> QED BY <1>0, <1>7, <2>1, <2>2, <2>3
<1>10. Len(t) = count' /\ count' = count - 1
  BY <1>0, <1>1, <1>7
<1>11. Shown' = t
  BY <1>7, <1>9, <1>10, ShownAfter
<1>12. current' + 1 = IF current + 1 > Len(t) THEN Len(t) ELSE current + 1
  BY <1>0, <1>2, <1>10
<1>14. D!At(Shown, k) = ValueAt(p)
  BY <1>0, <1>5, <1>6 DEF D!At, D!Entry, ValueAt
<1> QED BY <1>0, <1>4, <1>11, <1>12, <1>13, <1>14 DEF D!Removing

\* The entry goes to its new place, the others keep their order.
LEMMA MoveMoves ==
  ASSUME Sound, NEW k \in KeySet, NEW newidx \in -1..(count - 1),
         MoveKey(k, newidx)
  PROVE  D!Moving(k, newidx + 1)
<1> DEFINE p == mapping[k]
           q == IF newidx < 0 THEN count - 1 ELSE newidx
           f == MovedFrom(count, p, q)
           i == p + 1
           to == q + 1
           rest == RemoveAt(Shown, i)
           x == Shown[i]
           t == InsertAt(rest, to, x)
<1>0. /\ count \in Nat /\ k \in DOMAIN mapping
      /\ Shown \in Seq(Entries) /\ Len(Shown) = count
      /\ DOMAIN Shown = 1..count
      /\ \A j \in 1..count : Shown[j] = D!Entry(keys[j], values[j])
      /\ k \in D!Keys(Shown) /\ D!IndexOf(Shown, k) = i
      /\ p \in 0..(count - 1)
  BY SoundMeans, PlacesInverts, ShownIs DEF MoveKey
<1>1. /\ Move(p, newidx) /\ count' = count /\ current' = current
      /\ deleted' = deleted
  BY DEF MoveKey, Move
<1>2. /\ q \in 0..(count - 1)
      /\ Taken(keys, count, keys', count, f)
      /\ Taken(values, count, values', count, f)
  <2> HIDE DEF p
  <2> QED BY <1>0, <1>1, MoveTakes
<1>3. to = (IF newidx + 1 \in DOMAIN Shown THEN newidx + 1 ELSE Len(Shown))
  BY <1>0
<1>4. D!MoveTo(Shown, k, newidx + 1) = t
  <2>1. D!Drop(Shown, k) = rest
    BY <1>0 DEF D!Drop, D!RemoveAt, RemoveAt
  <2> HIDE DEF rest, i, to, q
  <2>2. D!MoveTo(Shown, k, newidx + 1) = D!InsertAt(rest, to, x)
    BY <1>0, <1>3, <2>1 DEF D!MoveTo
  <2> QED BY <2>2 DEF D!InsertAt, InsertAt
<1>5. \A j \in 0..(count - 1) : f[j] = IF j = q THEN p
                                       ELSE IF p <= j /\ j < q THEN j + 1
                                       ELSE IF q < j /\ j <= p THEN j - 1
                                       ELSE j
  BY DEF MovedFrom
<1>6. i = p + 1 /\ to = q + 1
  OBVIOUS
<1> HIDE DEF p, q, f, i, to
<1>7. i \in 1..Len(Shown) /\ i \in 1..count
  BY <1>0, <1>6
<1>8. /\ rest \in Seq(Entries) /\ Len(rest) = Len(Shown) - 1
      /\ \A j \in 1..(Len(Shown) - 1) :
           rest[j] = IF j < i THEN Shown[j] ELSE Shown[j + 1]
  <2> HIDE DEF Shown
  <2> QED BY <1>0, <1>7, RemovePoints
<1>9. x \in Entries /\ to \in 1..(Len(rest) + 1)
  BY <1>0, <1>2, <1>6, <1>7, <1>8
<1> HIDE DEF rest
<1>15. rest \in Seq(Entries)
  BY <1>8
<1> HIDE DEF x
<1>10. /\ t \in Seq(Entries) /\ Len(t) = Len(rest) + 1
       /\ \A j \in 1..(Len(rest) + 1) :
            t[j] = IF j < to THEN rest[j]
                   ELSE IF j = to THEN x ELSE rest[j - 1]
  <2>1. t = InsertAt(rest, to, x)
    OBVIOUS
  <2> HIDE DEF t
  <2>2. Inserts(t, rest, to, x, Entries)
    BY <1>9, <1>15, <2>1, Inserted, Zenon
  <2> QED BY <2>2 DEF Inserts
<1> HIDE DEF t
<1>11. Len(t) = count' /\ Len(t) = count /\ Len(rest) = count - 1
  BY <1>0, <1>1, <1>8, <1>10
<1>12. \A j \in 1..count : t[j] = Shown[f[j - 1] + 1]
  <2> TAKE j \in 1..count
  <2>1. /\ j \in Int /\ j - 1 \in 0..(count - 1) /\ (j - 1) + 1 = j
        /\ p \in Int /\ q \in Int
        /\ j \in 1..(Len(rest) + 1)
    BY <1>0, <1>2, <1>11
  <2>2. f[j - 1] = IF j - 1 = q THEN p
                   ELSE IF p <= j - 1 /\ j - 1 < q THEN (j - 1) + 1
                   ELSE IF q < j - 1 /\ j - 1 <= p THEN (j - 1) - 1
                   ELSE j - 1
    BY <1>5, <2>1
  <2>3. t[j] = IF j < to THEN rest[j]
               ELSE IF j = to THEN x ELSE rest[j - 1]
    BY <1>10, <2>1
  <2>4. CASE j < to
    <3>1. j \in 1..(Len(Shown) - 1)
      BY <1>0, <1>2, <1>6, <2>1, <2>4
    <3>2. rest[j] = IF j < i THEN Shown[j] ELSE Shown[j + 1]
      BY <1>8, <3>1
    <3>3. f[j - 1] + 1 = IF j < i THEN j ELSE j + 1
      BY <1>6, <2>1, <2>2, <2>4
    <3> QED BY <2>3, <2>4, <3>2, <3>3
  <2>5. CASE j = to
    <3>1. t[j] = x /\ f[j - 1] + 1 = i
      BY <1>6, <2>1, <2>2, <2>3, <2>5
    <3> QED BY <3>1 DEF x
  <2>6. CASE j > to
    <3>1. j - 1 \in 1..(Len(Shown) - 1) /\ ~(j < to) /\ j # to
      BY <1>0, <1>2, <1>6, <2>1, <2>6
    <3>2. rest[j - 1] = IF j - 1 < i THEN Shown[j - 1] ELSE Shown[(j - 1) + 1]
      BY <1>8, <3>1
    <3>3. f[j - 1] + 1 = IF j - 1 < i THEN j - 1 ELSE j
      BY <1>6, <2>1, <2>2, <2>6
    <3> QED BY <2>1, <2>3, <3>1, <3>2, <3>3
  <2>7. j < to \/ j = to \/ j > to
    BY <1>2, <1>6, <2>1
  <2> QED BY <2>4, <2>5, <2>6, <2>7, Zenon
<1>13. \A j \in 1..count : t[j] = D!Entry(keys'[j], values'[j])
  <2> TAKE j \in 1..count
  <2>1. j - 1 \in 0..(count - 1) /\ (j - 1) + 1 = j
    BY <1>0
  <2>2. /\ keys'[j] = keys[f[j - 1] + 1] /\ values'[j] = values[f[j - 1] + 1]
        /\ f[j - 1] \in 0..(count - 1)
    BY <1>2, <2>1 DEF Taken
  <2>3. f[j - 1] + 1 \in 1..count
    BY <1>0, <2>2
  <2> QED BY <1>0, <1>12, <2>2, <2>3
<1>14. Shown' = t
  BY <1>10, <1>11, <1>13, ShownAfter
<1> QED BY <1>0, <1>1, <1>4, <1>14 DEF D!Moving

\* Every step of the dictionary is one that Dictionary allows.
LEMMA StepActs ==
  Sound /\ [Next]_vars =>
    [D!Changing \/ D!Forgetting]_<<Shown, current + 1, deleted>>
<1> SUFFICES ASSUME Sound, [Next]_vars
             PROVE  \/ D!Changing \/ D!Forgetting
                    \/ UNCHANGED <<Shown, current + 1, deleted>>
  BY Zenon
<1>0. Len(Shown) = count /\ count \in Nat
  BY SoundMeans, ShownIs
<1>1. ASSUME NEW k \in KeySet, NEW v \in Items \ given, Overwrite(k, v)
      PROVE  D!Changing
  <2>1. D!Inserting(k, v, 0) /\ v \in Items /\ 0 \in 0..(Len(Shown) + 1)
    BY <1>0, <1>1, OverwriteInserts
  <2> QED BY <2>1 DEF D!Changing
<1>2. ASSUME NEW k \in KeySet, NEW v \in Items \ given,
             NEW index \in -1..count, AddEntry(k, v, index)
      PROVE  D!Changing
  <2>1. D!Inserting(k, v, index + 1) /\ v \in Items
        /\ index + 1 \in 0..(Len(Shown) + 1)
    BY <1>0, <1>2, AddInserts
  <2> QED BY <2>1 DEF D!Changing
<1>3. ASSUME NEW k \in KeySet, RemoveEntry(k)
      PROVE  D!Changing
  BY <1>3, RemoveRemoves DEF D!Changing
<1>4. ASSUME NEW k \in KeySet, SetCurrentKey(k)
      PROVE  D!Changing
  <2>1. /\ current' = mapping[k] /\ k \in DOMAIN mapping
        /\ UNCHANGED <<keys, values, count, deleted>>
    BY <1>4 DEF SetCurrentKey, storage
  <2>2. Shown' = Shown
    BY <2>1 DEF Shown
  <2>3. k \in D!Keys(Shown) /\ D!IndexOf(Shown, k) = mapping[k] + 1
    BY <2>1, ShownIs
  <2>4. D!Selecting(k)
    BY <2>1, <2>2, <2>3 DEF D!Selecting
  <2> QED BY <2>4 DEF D!Changing
<1>5. ASSUME NEW k \in KeySet, NEW newidx \in -1..(count - 1),
             MoveKey(k, newidx)
      PROVE  D!Changing
  <2>1. D!Moving(k, newidx + 1) /\ newidx + 1 \in 0..Len(Shown)
    BY <1>0, <1>5, MoveMoves
  <2> QED BY <2>1 DEF D!Changing
<1>6. CASE Clear
  <2>1. count' = 0 /\ current' = -1
    BY <1>6 DEF Clear
  <2>2. Shown' = <<>> /\ current' + 1 = 0
    BY <2>1 DEF Shown
  <2>3. deleted' = deleted
    <3>1. 0..(count' - 1) = {}
      BY <2>1
    <3> QED BY <1>6, <3>1 DEF Clear, DeleteItems
  <2> QED BY <2>2, <2>3 DEF D!Forgetting
<1>7. CASE UNCHANGED vars
  BY <1>7 DEF vars, storage, Shown
<1> QED BY <1>1, <1>2, <1>3, <1>4, <1>5, <1>6, <1>7 DEF Next

\* LTDict keeps the promise of its documentation but for clear(): with its
\* vectors, its map, its count and its current position, it behaves as one
\* ordered dictionary with a selected position, which deletes an item when it
\* is overwritten or removed; clear() deletes none (LTDict.hh:417-424), although
\* it is documented to delete all.
THEOREM ImplementsDictionary == Spec => ActsAsDictionary
<1>1. Init => D!Init
  BY DEF Init, D!Init, Shown
<1> QED BY <1>1, StepActs, SoundHolds, PTL DEF Spec, ActsAsDictionary, D!ForgetfulSpec
=============================================================================
