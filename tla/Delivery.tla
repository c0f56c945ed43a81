------------------------------ MODULE Delivery ------------------------------
(***************************************************************************)
(* What a device is promised about the memories it writes: the system takes *)
(* custody of a write, decides about it once and for ever, and tells the    *)
(* device once, that decision and no other; unless it has denied the device *)
(* a delivery of the write, when it may dismiss the write whatever becomes  *)
(* of it.  Nothing is said about messages, retries, databases or crashes.   *)
(***************************************************************************)
EXTENDS MemoryEvents

VARIABLES
    custody,    \* writes that were accepted from an agent
    denied,     \* writes the device was denied a delivery of
    decision,   \* [Event -> Outcome or "none"]
    told        \* [Event -> Outcome or "none"], what the device knows

Outcome == ResultCode \cup {"rejected"}

Init ==
    /\ custody = {}
    /\ denied = {}
    /\ decision = [e \in Event |-> "none"]
    /\ told = [e \in Event |-> "none"]

Accept(e) ==
    /\ custody' = custody \cup {e}
    /\ UNCHANGED <<denied, decision, told>>

\* The decision is taken on an accepted write, once.
Decide(e) ==
    /\ e \in custody
    /\ decision[e] = "none"
    /\ \E o \in Outcome : decision' = [decision EXCEPT ![e] = o]
    /\ UNCHANGED <<custody, denied, told>>

\* The device learns the decision.
Tell(e) ==
    /\ decision[e] # "none"
    /\ told[e] = "none"
    /\ told' = [told EXCEPT ![e] = decision[e]]
    /\ UNCHANGED <<custody, denied, decision>>

\* A write that fails validation is refused in the answer itself.
Refuse(e) ==
    /\ e \in custody
    /\ decision[e] = "none"
    /\ told[e] = "none"
    /\ decision' = [decision EXCEPT ![e] = "rejected"]
    /\ told' = [told EXCEPT ![e] = "rejected"]
    /\ UNCHANGED <<custody, denied>>

\* The sender of writes has no right to deliver them, or their delivery fails for good.
Deny(S) ==
    /\ denied' = denied \cup S
    /\ UNCHANGED <<custody, decision, told>>

\* The device takes that for a rejection.
Dismiss(e) ==
    /\ e \in denied
    /\ told[e] = "none"
    /\ told' = [told EXCEPT ![e] = "rejected"]
    /\ UNCHANGED <<custody, denied, decision>>

Next ==
    \/ \E e \in Event : Accept(e) \/ Decide(e) \/ Tell(e) \/ Refuse(e) \/ Dismiss(e)
    \/ \E S \in SUBSET custody : Deny(S)

Spec == Init /\ [][Next]_<<custody, denied, decision, told>>
=============================================================================
