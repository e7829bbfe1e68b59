------------------------------ MODULE Channel ------------------------------
(***************************************************************************)
(* What either end of a connection may expect of libltcp, the loops around *)
(* it and TCP: the other end gets the messages, whole and in the order in  *)
(* which they were sent.  A connection that is given up may lose the last. *)
(***************************************************************************)
EXTENDS Naturals, Sequences

VARIABLES
  accepted,   \* how many messages were accepted for sending
  got         \* the numbers of the messages the other end has got

Init == accepted = 0 /\ got = <<>>

Accept == accepted' = accepted + 1 /\ UNCHANGED got

\* The next message arrives.
Deliver ==
  /\ Len(got) < accepted
  /\ got' = Append(got, Len(got) + 1)
  /\ UNCHANGED accepted

Next == Accept \/ Deliver

Spec == Init /\ [][Next]_<<accepted, got>>
=============================================================================
