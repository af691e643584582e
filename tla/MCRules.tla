------------------------------ MODULE MCRules ------------------------------
(***************************************************************************)
(* Up to three Holders of all kinds (above and below both thresholds, by a *)
(* purchase or by a sale, one of them the dev wallet), or up to seven for  *)
(* the larger trees; two tokens. A hash is written out as a sequence that  *)
(* names what was hashed, scrambled so that leaves come in many orders.    *)
(***************************************************************************)
EXTENDS Rules

MCAccounts == 1..7
MCTokens   == {1, 2}
MCDev      == 2
MCEnd      == 31 * secondsPerDay

DaysAgo(d) == MCEnd - d * secondsPerDay

(* Bought and last sold; 0 is never. *)
Streaks == {<<DaysAgo(30), 0>>, <<DaysAgo(30) + 1, 0>>, <<DaysAgo(7) + 1, 0>>,
            <<DaysAgo(30), DaysAgo(7)>>}

Held(account, twab, streak) ==
    [account |-> account, twab |-> twab, firstBuyAt |-> streak[1], lastSellAt |-> streak[2]]

Kinds == {1, 3} \X Streaks

Few ==
    {<<>>}
    \cup {<<Held(1, x[1], x[2])>> : x \in Kinds}
    \cup {<<Held(1, x[1], x[2]), Held(2, y[1], y[2]), Held(3, 3, z)>> :
             x \in Kinds, y \in Kinds, z \in Streaks}

Many ==
    {[k \in 1..m |-> Held(k, IF k \in big THEN 3 ELSE 1, <<DaysAgo(1), 0>>)] :
        m \in 4..7, big \in {{}, {1}, {2, 5}, {3, 4, 6}}}

MCHoldings == Few \cup Many
MCFundings == {[t \in MCTokens |-> IF t = 1 THEN x ELSE y] : x \in {0, 2}, y \in {0, 13}}

MCLeafHash(c) ==
    <<(c.account * 5 + c.amounts[1] * 3 + c.amounts[2]) % 7, c.account, c.amounts[1], c.amounts[2]>>

MCKeccak(x, y) == <<-1>> \o x \o y

MCLess(x, y) ==
    \E k \in 1..Len(x) : /\ k <= Len(y) /\ x[k] < y[k]
                          /\ \A l \in 1..(k - 1) : x[l] = y[l]
=============================================================================
