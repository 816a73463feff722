------------------------ MODULE MCCounterpartyMerge ------------------------
(***************************************************************************)
(* Three people, of whom the third is created while a name is free, with a *)
(* transaction that straddles the first two, and edits that hand a row to  *)
(* the third, take its obligation away and raise its amount.                *)
(***************************************************************************)
EXTENDS CounterpartyMerge, TLC

CONSTANTS anna, ania, marek, nobody

MCPeople == {anna, ania, marek}
MCFirstPeople == anna :> [name |-> "ANNA", archived |-> FALSE]
              @@ ania :> [name |-> "ANIA", archived |-> FALSE]

MCCaptures ==
    {[counterparty |-> anna, obligation |-> ania, type |-> "expense", amount |-> 1]}

MCEdits ==
    {[counterparty |-> anna, obligation |-> marek, amount |-> 1],
     [counterparty |-> ania, obligation |-> nobody, amount |-> 2]}

MCNewcomers == {[who |-> marek, name |-> "ANIA"]}
MCPatches ==
    {[who |-> ania, name |-> "ANIA", archived |-> FALSE],
     [who |-> marek, name |-> "ANNA", archived |-> TRUE]}
MCDoubts == {{anna, marek}}
MCDuplicates ==
    {[winner |-> anna, loser |-> ania], [winner |-> marek, loser |-> anna],
     [winner |-> ania, loser |-> marek]}
MCDebts ==
    {[who |-> anna, amount |-> -1], [who |-> anna, amount |-> 2],
     [who |-> ania, amount |-> 1], [who |-> marek, amount |-> 1]}
MCPayments == {[who |-> anna, amount |-> 2], [who |-> ania, amount |-> 2]}
=============================================================================
