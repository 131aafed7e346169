------------------------------ MODULE Custody ------------------------------
(***************************************************************************)
(* What a depositor may rely on: an account that gives back, on the        *)
(* depositor's own request and one for one, what the depositor put in, and *)
(* that nobody else's request ever changes.                                *)
(***************************************************************************)
EXTENDS Integers

CONSTANTS Clients, Funds

VARIABLES wallet, account

Init ==
    /\ wallet = Funds
    /\ account = [c \in Clients |-> 0]

Pay(c, amount) ==
    /\ amount \in 1..wallet[c]
    /\ wallet' = [wallet EXCEPT ![c] = @ - amount]
    /\ account' = [account EXCEPT ![c] = @ + amount]

TakeBack(c, amount) ==
    /\ amount \in 1..account[c]
    /\ wallet' = [wallet EXCEPT ![c] = @ + amount]
    /\ account' = [account EXCEPT ![c] = @ - amount]

Next ==
    \E c \in Clients :
        \/ \E amount \in 1..wallet[c] : Pay(c, amount)
        \/ \E amount \in 1..account[c] : TakeBack(c, amount)

Spec == Init /\ [][Next]_<<wallet, account>>

=============================================================================
