--------------------------- MODULE EventDelivery ---------------------------
(***************************************************************************)
(* What the transactional outbox promises about one canonical event: it is *)
(* handed to the queue at most once, it is never reported as published     *)
(* before it was handed over, and a verdict, once given, is final.         *)
(*                                                                         *)
(* An event may be handed over after it was dead-lettered: the dispatcher  *)
(* that does so had lost its lock meanwhile.                               *)
(***************************************************************************)
EXTENDS Naturals

CONSTANT Events

VARIABLES
    born,      \* events committed together with their outbox row
    copies,    \* copies[e]: queue jobs created for e
    verdict    \* verdict[e]: "none", "published" or "dead"

vars == <<born, copies, verdict>>

Init ==
    /\ born = {}
    /\ copies = [e \in Events |-> 0]
    /\ verdict = [e \in Events |-> "none"]

Commit(e) ==
    /\ e \notin born
    /\ born' = born \cup {e}
    /\ UNCHANGED <<copies, verdict>>

HandOver(e) ==
    /\ e \in born /\ copies[e] = 0
    /\ copies' = [copies EXCEPT ![e] = 1]
    /\ UNCHANGED <<born, verdict>>

ConfirmPublished(e) ==
    /\ e \in born /\ copies[e] = 1 /\ verdict[e] = "none"
    /\ verdict' = [verdict EXCEPT ![e] = "published"]
    /\ UNCHANGED <<born, copies>>

GiveUp(e) ==
    /\ e \in born /\ verdict[e] = "none"
    /\ verdict' = [verdict EXCEPT ![e] = "dead"]
    /\ UNCHANGED <<born, copies>>

Next == \E e \in Events :
    Commit(e) \/ HandOver(e) \/ ConfirmPublished(e) \/ GiveUp(e)

Spec == Init /\ [][Next]_vars
=============================================================================
