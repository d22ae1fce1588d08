------------------------------ MODULE Delivery ------------------------------
(***************************************************************************)
(* What the offline outbox promises a session that queues a mutation:      *)
(* delivery at least once, with an account of every message.  A message    *)
(* that was accepted stays pending until it is acknowledged, set aside or  *)
(* lost.  Only an executed message is acknowledged, and one that is        *)
(* acknowledged is neither executed again nor set aside.  Outbox implements *)
(* it with files that are renamed, copied and rewritten in place, and loses *)
(* a message only through its two windows.                                 *)
(***************************************************************************)
CONSTANT Messages

VARIABLES accepted, pending, executed, acknowledged, setAside, lost

delivery == <<accepted, pending, executed, acknowledged, setAside, lost>>

Init == accepted = {} /\ pending = {} /\ executed = {}
        /\ acknowledged = {} /\ setAside = {} /\ lost = {}

\* A message is queued; the place it goes to may be gone by now.
Accept(k) == /\ k \notin accepted /\ accepted' = accepted \cup {k}
             /\ pending' \in {pending, pending \cup {k}}
             /\ lost' \in {lost, lost \cup {k}}
             /\ k \in pending' \cup lost'
             /\ UNCHANGED <<executed, acknowledged, setAside>>

Open == pending \ acknowledged

Execute(k) == /\ k \in Open /\ executed' = executed \cup {k}
              /\ UNCHANGED <<accepted, pending, acknowledged, setAside, lost>>

Acknowledge(k) == /\ k \in Open \cap executed /\ acknowledged' = acknowledged \cup {k}
                  /\ UNCHANGED <<accepted, pending, executed, setAside, lost>>

SetAside(k) == /\ k \in Open /\ setAside' = setAside \cup {k}
               /\ UNCHANGED <<accepted, pending, executed, acknowledged, lost>>

\* The queue is tidied up: what leaves it has been accounted for.
Tidy == /\ pending' \subseteq pending
        /\ lost \subseteq lost' /\ lost' \subseteq lost \cup pending
        /\ pending \subseteq pending' \cup acknowledged \cup setAside \cup lost'
        /\ UNCHANGED <<accepted, executed, acknowledged, setAside>>

Next == \/ \E k \in Messages : Accept(k) \/ Execute(k) \/ Acknowledge(k) \/ SetAside(k)
        \/ Tidy

Spec == Init /\ [][Next]_delivery

(* What the promise is worth: everything accepted is accounted for, and only *)
(* what was accepted is executed, and executed before it is acknowledged.     *)
Accounted == /\ accepted \subseteq pending \cup acknowledged \cup setAside \cup lost
             /\ acknowledged \subseteq executed
             /\ executed \subseteq accepted
=============================================================================
