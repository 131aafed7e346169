---------------------------- MODULE MCPayPerCall ----------------------------
(***************************************************************************)
(* A wallet with two token accounts, of which a payment may need both, and *)
(* a recipient that has been paid before.                                  *)
(***************************************************************************)
EXTENDS PayPerCall

Req(kind, amount, to) == [kind |-> kind, amount |-> amount, to |-> to, maxPrice |-> 5]

MCRequests ==
    {Req("pay", 5, Ata), Req("pay", 2, Ata), Req("pay", 1, Ata), Req("pay", 6, Ata),
     Req("send", 4, OtherAta), Req("send", 3, Ata), Req("send", 1, Ata), Req("sendSol", 4, Ata)}

MCBalances == <<1, 2>>

=============================================================================
