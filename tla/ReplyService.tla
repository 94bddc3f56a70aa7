---------------------------- MODULE ReplyService ----------------------------
(***************************************************************************)
(* What the AtomClaw firmware promises a chat platform, with no queue, no  *)
(* task and no heap: a post it accepts waits its turn, posts are answered  *)
(* in the order they were accepted and each at most once; a waiting post   *)
(* may be lost at any time (a full queue, no memory), and an answer may    *)
(* fail on its way out.  AtomServer implements this specification.         *)
(***************************************************************************)
EXTENDS Naturals, Sequences, SequencesExt

CONSTANT Requests

VARIABLES waiting,  \* the accepted posts not settled yet, oldest first
          outcome   \* how each post ended, or "pending"

svars == <<waiting, outcome>>

Settle(r, how) == outcome' = [outcome EXCEPT ![r] = how]

SInit == waiting = <<>> /\ outcome = [r \in Requests |-> "none"]

Idle(r) == r \notin Range(waiting)

Accept(r) == /\ Idle(r)
             /\ waiting' = Append(waiting, r)
             /\ Settle(r, "pending")

TurnAway(r) == /\ Idle(r)
               /\ \E how \in {"none", "lost"} : Settle(r, how)
               /\ UNCHANGED waiting

AnswerOldest == /\ waiting # <<>>
                /\ waiting' = Tail(waiting)
                /\ \E how \in {"answered", "failed"} : Settle(Head(waiting), how)

Lose(i) == /\ waiting' = RemoveAt(waiting, i)
           /\ Settle(waiting[i], "lost")

SNext == \/ \E r \in Requests : Accept(r) \/ TurnAway(r)
         \/ AnswerOldest
         \/ \E i \in DOMAIN waiting : Lose(i)

Spec == SInit /\ [][SNext]_svars
=============================================================================
