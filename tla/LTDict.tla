------------------------------- MODULE LTDict -------------------------------
(***************************************************************************)
(* LTDict.hh: the ordered dictionary every project is made of.  Keys and   *)
(* values are in two vectors that never shrink, a map gives the position   *)
(* of each key.  Positions count from 0; slots from m_count on are left    *)
(* over from removed entries.  The dictionary here owns its items          *)
(* (autoDelete).                                                           *)
(***************************************************************************)
EXTENDS Integers, Sequences, FiniteSets, SequencesExt, Functions

CONSTANTS
  KeySet,   \* the names entries may have
  Items,    \* the objects that may be put into the dictionary
  NULL      \* what m_values holds of a deleted object

ASSUME NullAssumption == NULL \notin Items

VARIABLES
  keys,      \* m_keys
  values,    \* m_values
  mapping,   \* m_mapping
  count,     \* m_count
  current,   \* m_current
  given,     \* history: the items ever inserted
  deleted    \* history: the items deleted by the dictionary

storage == <<keys, values, mapping, count>>
vars    == <<storage, current, given, deleted>>

KeyAt(j)   == keys[j + 1]
ValueAt(j) == values[j + 1]

Init ==
  /\ keys = <<>> /\ values = <<>> /\ mapping = << >> /\ count = 0
  /\ current = -1
  /\ given = {} /\ deleted = {}

\* m_mapping with the positions first to last set from the keys there.
Remapped(m, ks, first, last) ==
  [k \in DOMAIN m \cup {ks[j + 1] : j \in first..last} |->
     IF \E j \in first..last : ks[j + 1] = k
     THEN CHOOSE j \in first..last : ks[j + 1] = k
     ELSE m[k]]

\* insert for a key that is there: the old item is deleted.
Overwrite(k, v) ==
  /\ k \in DOMAIN mapping
  /\ deleted' = deleted \cup {ValueAt(mapping[k])}
  /\ values' = [values EXCEPT ![mapping[k] + 1] = v]
  /\ given' = given \cup {v}
  /\ UNCHANGED <<keys, mapping, count, current>>

SelectFirst == current' = IF count' = 1 THEN 0 ELSE current

\* Mutant of AppendEntry: the new entry goes behind the vectors, not behind the
\* entries.
AppendAlways(k, v) ==
  /\ keys' = Append(keys, k)
  /\ values' = Append(values, v)
  /\ mapping' = [x \in DOMAIN mapping \cup {k} |-> IF x = k THEN count ELSE mapping[x]]
  /\ count' = count + 1

\* A slot left over is used again.
AppendEntry(k, v) ==
  /\ IF Len(keys) > count
     THEN /\ keys' = [keys EXCEPT ![count + 1] = k]
          /\ values' = [values EXCEPT ![count + 1] = v]
     ELSE /\ keys' = Append(keys, k)
          /\ values' = Append(values, v)
  /\ mapping' = [x \in DOMAIN mapping \cup {k} |-> IF x = k THEN count ELSE mapping[x]]
  /\ count' = count + 1

InsertEntry(k, v, index) ==
  /\ keys' = InsertAt(keys, index + 1, k)
  /\ values' = InsertAt(values, index + 1, v)
  /\ count' = count + 1
  /\ mapping' = Remapped(mapping, keys', index, count)

AddEntry(k, v, index) ==
  /\ k \notin DOMAIN mapping
  /\ IF index < 0 \/ index > count THEN AppendEntry(k, v)
                                   ELSE InsertEntry(k, v, index)
  /\ SelectFirst
  /\ given' = given \cup {v}
  /\ UNCHANGED deleted

\* The later entries move up one slot; the last slot keeps its content.
Closed(s, index) ==
  [j \in DOMAIN s |-> IF j \in (index + 1)..(count - 1) THEN s[j + 1] ELSE s[j]]

WithoutEntry(index) ==
  /\ deleted' = deleted \cup {ValueAt(index)}
  /\ keys' = Closed(keys, index)
  /\ values' = Closed([values EXCEPT ![index + 1] = NULL], index)
  /\ count' = count - 1

\* Mutant of RemoveEntry: the entries after it keep their positions in the map.
RemoveWithoutRemap(k) ==
  /\ k \in DOMAIN mapping
  /\ WithoutEntry(mapping[k])
  /\ mapping' = Restrict(mapping, DOMAIN mapping \ {k})
  /\ current' = IF current >= count' THEN current - 1 ELSE current
  /\ UNCHANGED given

\* Mutant of RemoveEntry: the selection is left alone.
RemoveKeepsSelection(k) ==
  /\ k \in DOMAIN mapping
  /\ WithoutEntry(mapping[k])
  /\ mapping' = Remapped(Restrict(mapping, DOMAIN mapping \ {k}), keys',
                         mapping[k], count - 2)
  /\ UNCHANGED <<given, current>>

RemoveEntry(k) ==
  /\ k \in DOMAIN mapping
  /\ WithoutEntry(mapping[k])
  /\ mapping' = Remapped(Restrict(mapping, DOMAIN mapping \ {k}), keys',
                         mapping[k], count - 2)
  /\ current' = IF current >= count' THEN current - 1 ELSE current
  /\ UNCHANGED given

Move(index, newidx) ==
  LET where   == IF newidx < 0 \/ newidx > count THEN count - 1 ELSE newidx
      To(s)   == [j \in DOMAIN s |->
                    IF j = where + 1 THEN s[index + 1]
                    ELSE IF j \in (index + 1)..where THEN s[j + 1]
                    ELSE IF j \in (where + 2)..(index + 1) THEN s[j - 1]
                    ELSE s[j]]
      low  == IF where > index THEN index ELSE where
      high == IF where > index THEN where ELSE index
  IN /\ keys' = To(keys)
     /\ values' = To(values)
     /\ mapping' = Remapped(mapping, keys', low, high)
     /\ UNCHANGED <<count, current, given, deleted>>

\* Every caller names a position that exists, or a negative one.
MoveKey(k, newidx) ==
  /\ k \in DOMAIN mapping
  /\ newidx < count
  /\ Move(mapping[k], newidx)

SetCurrentKey(k) ==
  /\ k \in DOMAIN mapping
  /\ current' = mapping[k]
  /\ UNCHANGED <<storage, given, deleted>>

DeleteItems(n) ==
  /\ deleted' = deleted \cup ({ValueAt(j) : j \in 0..(n - 1)} \ {NULL})
  /\ values' = [j \in DOMAIN values |-> IF j <= n THEN NULL ELSE values[j]]

\* m_count is reset before the items are deleted: none is.
Clear ==
  /\ mapping' = << >>
  /\ count' = 0
  /\ current' = -1
  /\ DeleteItems(count')
  /\ UNCHANGED <<keys, given>>

\* An object is put into a dictionary once.
Next ==
  \/ \E k \in KeySet, v \in Items \ given :
       \/ Overwrite(k, v)
       \/ \E index \in -1..count : AddEntry(k, v, index)
  \/ \E k \in KeySet :
       \/ RemoveEntry(k)
       \/ SetCurrentKey(k)
       \/ \E newidx \in -1..(count - 1) : MoveKey(k, newidx)
  \/ Clear

Spec == Init /\ [][Next]_vars

-----------------------------------------------------------------------------
(***************************************************************************)
(* Properties                                                              *)
(***************************************************************************)
\* The dictionary as its users see it.
Shown == [j \in 1..count |-> [key |-> keys[j], val |-> values[j]]]

D == INSTANCE Dictionary WITH dict <- Shown, sel <- current + 1, freed <- deleted

\* The two vectors, the map and the count behave as one ordered dictionary
\* with a selected position, which deletes the items it owns when they are
\* overwritten or removed: what the documentation of LTDict promises of each
\* operation, with one exception.  clear() is documented to delete the items
\* (LTDict.hh:410-415) and forgets them.  Seen is what count(), contains(),
\* keyAt(), operator[] and indexOf() answer; keys() and values() hand out the
\* vectors as they are, with what removed entries have left behind.
ActsAsDictionary == D!ForgetfulSpec

\* The map and the keys agree: every key is found where the map says, and
\* nowhere else among the entries (contains, operator[], indexOf and keyAt
\* answer from one or from the other; count() from a third place).
MappingInvertsKeys ==
  /\ count = Cardinality(DOMAIN mapping)
  /\ count <= Len(keys) /\ Len(keys) = Len(values)
  /\ \A k \in DOMAIN mapping : mapping[k] \in 0..(count - 1) /\ KeyAt(mapping[k]) = k

\* A dictionary that owns its items hands out no deleted one, and holds no
\* item twice (it would be deleted twice).
OwnedOnce ==
  /\ \A j \in 0..(count - 1) : ValueAt(j) \in given \ deleted
  /\ \A i, j \in 0..(count - 1) : ValueAt(i) = ValueAt(j) => i = j

-----------------------------------------------------------------------------
(* Why map, vectors and count agree: an inductive invariant.               *)

\* The positions in use.
Positions == 0..(count - 1)

\* The slots in use hold different keys, the map names these and no other.
TypeOK ==
  /\ keys \in Seq(KeySet) /\ values \in Seq(Items \cup {NULL})
  /\ count \in Nat /\ count <= Len(keys) /\ Len(values) = Len(keys)
  /\ mapping \in [{KeyAt(j) : j \in Positions} -> Positions]
  /\ current \in Int /\ -1 <= current /\ current < count
  /\ given \subseteq Items /\ deleted \subseteq given

\* The map gives every key its position.
Indexed == \A j \in Positions : mapping[KeyAt(j)] = j

Sound == TypeOK /\ Indexed /\ OwnedOnce
=============================================================================
