----------------------------- MODULE Dictionary -----------------------------
(***************************************************************************)
(* The promise of LTDict: an ordered dictionary with one selected          *)
(* position, as its documentation states it operation by operation.  It    *)
(* owns its items (autoDelete) and deletes each one that leaves.           *)
(***************************************************************************)
EXTENDS Integers, Sequences, OrderedDict

CONSTANTS KeySet, Items

VARIABLES
  dict,   \* the entries, in order
  sel,    \* the selected position; 0 when there is none
  freed   \* the items the dictionary has deleted

Init == dict = <<>> /\ sel = 0 /\ freed = {}

\* A first entry becomes the selected one; otherwise the position stays.  An
\* item overwritten is deleted.
Inserting(k, v, pos) ==
  /\ dict' = PutAt(dict, k, v, pos)
  /\ sel' = IF dict = <<>> THEN 1 ELSE sel
  /\ freed' = freed \cup {At(dict, x) : x \in Keys(dict) \cap {k}}

\* The item is deleted.  The position stays selected as long as it exists.
Removing(k) ==
  /\ k \in Keys(dict)
  /\ dict' = Drop(dict, k)
  /\ sel' = IF sel > Len(dict') THEN Len(dict') ELSE sel
  /\ freed' = freed \cup {At(dict, k)}

Moving(k, pos) ==
  /\ k \in Keys(dict)
  /\ dict' = MoveTo(dict, k, pos)
  /\ UNCHANGED <<sel, freed>>

Selecting(k) ==
  /\ k \in Keys(dict)
  /\ sel' = IndexOf(dict, k)
  /\ UNCHANGED <<dict, freed>>

\* "The items are deleted when autoDelete is set" (LTDict.hh:413).
Clearing == dict' = <<>> /\ sel' = 0 /\ freed' = freed \cup Values(dict)

\* The exception to that: the entries leave, and no item is deleted.
Forgetting == dict' = <<>> /\ sel' = 0 /\ UNCHANGED freed

Changing ==
  \/ \E k \in KeySet, v \in Items, pos \in 0..(Len(dict) + 1) : Inserting(k, v, pos)
  \/ \E k \in KeySet : Removing(k) \/ Selecting(k)
  \/ \E k \in KeySet, pos \in 0..Len(dict) : Moving(k, pos)

\* As documented, and with the exception.
Spec          == Init /\ [][Changing \/ Clearing]_<<dict, sel, freed>>
ForgetfulSpec == Init /\ [][Changing \/ Forgetting]_<<dict, sel, freed>>
=============================================================================
