------------------------------ MODULE MCLedger ------------------------------
(***************************************************************************)
(* Small histories for Ledger: a mint and up to two more transfers between *)
(* two accounts and the zero address, over three Epochs of two seconds.    *)
(***************************************************************************)
EXTENDS Ledger

CONSTANTS alice, bob, zero

MCAccounts == {alice, bob}
Times      == 0..(WindowEnd(MaxEpoch) - 1)

Moves(values) ==
    {m \in [time : Times, from : MCAccounts \cup {zero}, to : MCAccounts \cup {zero}, value : values] :
        m.from # zero \/ m.to # zero}
Mints == [time : Times, from : {zero}, to : MCAccounts, value : {2}]
First == [time |-> 1, from |-> zero, to |-> alice, value |-> 2]

(* A value that is no uint256. *)
Wrong == [time |-> 1, from |-> alice, to |-> bob, value |-> -1]

MCHistories ==
    {<<x, y>> : x \in Mints, y \in Moves({0, 1, 3})}
      \cup {<<First, y, z>> : y \in Moves({1, 2}), z \in Moves({0, 1})}
      \cup {<<Wrong, x>> : x \in Mints}

MCExclusions == {{}, {[time |-> 2, account |-> bob]}}
=============================================================================
