---------------------------- MODULE OrderedDict ----------------------------
(***************************************************************************)
(* What LTDict and LTMap (liblttemplates) mean to their users: a sequence  *)
(* of entries with different keys.  Positions count from 1.                *)
(***************************************************************************)
EXTENDS Naturals, Sequences, SequencesExt

Entry(k, v) == [key |-> k, val |-> v]

Keys(d) == {d[i].key : i \in DOMAIN d}

Values(d) == {d[i].val : i \in DOMAIN d}

IsDict(d) == \A i, j \in DOMAIN d : d[i].key = d[j].key => i = j

IndexOf(d, k) == CHOOSE i \in DOMAIN d : d[i].key = k

At(d, k) == d[IndexOf(d, k)].val

\* The value of a key that is there replaced in place.
With(d, k, v) == [d EXCEPT ![IndexOf(d, k)].val = v]

\* Mutant of PutAt: the key is not looked for.
PutTwice(d, k, v, pos) ==
  IF pos \in 1..(Len(d) + 1) THEN InsertAt(d, pos, Entry(k, v))
                             ELSE Append(d, Entry(k, v))

\* A key that is there keeps its position, whatever position is asked for; a
\* position that does not exist stands for the end.
PutAt(d, k, v, pos) ==
  IF k \in Keys(d) THEN With(d, k, v)
  ELSE IF pos \in 1..(Len(d) + 1) THEN InsertAt(d, pos, Entry(k, v))
  ELSE Append(d, Entry(k, v))

Put(d, k, v) == PutAt(d, k, v, 0)

\* What the project's own methods do: a name that is taken is refused.
AddNew(d, k, v) == IF k \in Keys(d) THEN d ELSE Put(d, k, v)

Drop(d, k) ==
  IF k \in Keys(d) THEN RemoveAt(d, IndexOf(d, k)) ELSE d

\* To a position of the dictionary, or to its end.
MoveTo(d, k, pos) ==
  IF k \notin Keys(d) THEN d
  ELSE InsertAt(Drop(d, k), IF pos \in DOMAIN d THEN pos ELSE Len(d),
                d[IndexOf(d, k)])
=============================================================================
