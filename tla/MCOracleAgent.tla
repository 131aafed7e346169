--------------------------- MODULE MCOracleAgent ---------------------------
(***************************************************************************)
(* Two ticks that can overlap, beside a run of the demo script; two        *)
(* bootstrap runs with different oracle keys; one depositor of one token.  *)
(* The model answers an allocation of one raw unit and a half with a       *)
(* confidence of 70.5, one of two units, which may come out as one, one    *)
(* outside the schema, an unknown strategy and an action the agent does    *)
(* not know; the demo run sends any of its three decisions.                *)
(***************************************************************************)
EXTENDS OracleAgent

CONSTANTS oracle, admin, first, second

MCFunds == <<2>>
MCOracleOf == [s \in Scripts |-> IF s = first THEN oracle ELSE admin]
MCAnswers ==
    {[action |-> "allocate", target |-> 3, amount |-> 6, confidence |-> 282],
     [action |-> "allocate", target |-> 3, amount |-> 8, confidence |-> 280],
     [action |-> "allocate", target |-> 0, amount |-> -5, confidence |-> 1304],
     [action |-> "risk_off", target |-> None, amount |-> 0, confidence |-> 396],
     [action |-> "wait", target |-> 1, amount |-> 0, confidence |-> 300]}

=============================================================================
