------------------------------ MODULE Tickets ------------------------------
(***************************************************************************)
(* What the gateway sells: an on-chain payment is a ticket, good for one   *)
(* call whose price it covers. A ticket is torn before its call is let     *)
(* through, and no call gets through on another call's ticket.             *)
(***************************************************************************)
EXTENDS Integers

CONSTANTS Signatures, Requests, Payments, Prices

VARIABLES
    worth,  \* worth[s]: what s paid, 0 before it has paid anything
    torn,   \* the tickets taken
    let     \* the calls let through, each as a pair <<request, ticket>>

Init ==
    /\ worth = [s \in Signatures |-> 0]
    /\ torn = {}
    /\ let = {}

Pay(s, amount) ==
    /\ worth[s] = 0
    /\ worth' = [worth EXCEPT ![s] = amount]
    /\ UNCHANGED <<torn, let>>

Tear(s, price) ==
    /\ s \notin torn
    /\ price <= worth[s]
    /\ torn' = torn \cup {s}
    /\ UNCHANGED <<worth, let>>

LetThrough(r, s) ==
    /\ s \in torn
    /\ \A entry \in let : entry[2] # s
    /\ let' = let \cup {<<r, s>>}
    /\ UNCHANGED <<worth, torn>>

Next ==
    \E s \in Signatures :
        \/ \E amount \in Payments : Pay(s, amount)
        \/ \E price \in Prices : Tear(s, price)
        \/ \E r \in Requests : LetThrough(r, s)

Spec == Init /\ [][Next]_<<worth, torn, let>>

=============================================================================
