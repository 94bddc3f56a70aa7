--------------------------- MODULE BoundedHistory ---------------------------
(***************************************************************************)
(* What the session store promises, with no slot and no ring: for each of  *)
(* at most MaxUsers users the last MaxMsgs messages, in order.  A user who *)
(* is known keeps a place until cleared; a user for whom there is no place *)
(* is turned away.  AtomSession implements this specification.             *)
(***************************************************************************)
EXTENDS Naturals, Sequences, FiniteSets

CONSTANTS Users, Messages, MaxUsers, MaxMsgs

VARIABLES known,   \* the users who have a place
          history  \* their messages, oldest first

hvars == <<known, history>>

LastOf(s, n) == IF Len(s) <= n THEN s ELSE SubSeq(s, Len(s) - n + 1, Len(s))

HInit == known = {} /\ history = [u \in Users |-> <<>>]

Record(u, m) ==
    /\ u \in known \/ Cardinality(known) < MaxUsers
    /\ known' = known \cup {u}
    /\ history' = [history EXCEPT ![u] = LastOf(Append(@, m), MaxMsgs)]

Forget(u) ==
    /\ known' = known \ {u}
    /\ history' = [history EXCEPT ![u] = <<>>]

HNext == \E u \in Users : Forget(u) \/ \E m \in Messages : Record(u, m)

Spec == HInit /\ [][HNext]_hvars
=============================================================================
