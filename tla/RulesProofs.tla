---------------------------- MODULE RulesProofs -----------------------------
(***************************************************************************)
(* Allocate loses no unit and is monotone, and the Merkle tree proves the  *)
(* claims it was built from and no others, for every number of Holders,    *)
(* every funding and, given a hash without collisions, every tree.         *)
(***************************************************************************)
EXTENDS Rules, FiniteSetTheorems, WellFoundedInduction, TLAPS

(* A floor is less than a divisor away from what was divided. *)
LEMMA FloorBounds ==
    ASSUME NEW x \in Nat, NEW d \in Nat, d > 0
    PROVE  /\ x \div d \in Nat
           /\ (x \div d) * d <= x
           /\ x <= (x \div d) * d + (d - 1)
OBVIOUS

(* Products are monotone. *)
LEMMA ProductMonotone ==
    ASSUME NEW a \in Nat, NEW b \in Nat, NEW c \in Nat, NEW d \in Nat, a <= b, c <= d
    PROVE  a * c <= b * d
<1>1. a * c \in Nat /\ b * c \in Nat /\ b * d \in Nat
  OBVIOUS
<1>2. PICK x \in Nat : b = a + x
  <2>1. b - a \in Nat /\ b = a + (b - a)
    OBVIOUS
  <2> QED
    BY <2>1
<1>3. b * c = a * c + x * c /\ x * c \in Nat
  BY <1>2
<1>4. PICK y \in Nat : d = c + y
  <2>1. d - c \in Nat /\ d = c + (d - c)
    OBVIOUS
  <2> QED
    BY <2>1
<1>5. b * d = b * c + b * y /\ b * y \in Nat
  BY <1>4
<1> QED
  BY <1>1, <1>3, <1>5

(* Floors are monotone. *)
LEMMA FloorMonotone ==
    ASSUME NEW x \in Nat, NEW y \in Nat, NEW d \in Nat, d > 0, x <= y
    PROVE  x \div d <= y \div d
<1> DEFINE p == x \div d
           q == y \div d
<1>1. p \in Nat /\ q \in Nat /\ p * d <= x /\ y <= q * d + (d - 1)
  BY FloorBounds
<1> HIDE DEF p, q
<1>2. SUFFICES ASSUME p >= q + 1 PROVE FALSE
  BY <1>1 DEF p, q
<1>3. (q + 1) * d <= p * d
  BY <1>1, <1>2, ProductMonotone
<1>4. (q + 1) * d = q * d + d
  BY <1>1
<1> QED
  BY <1>1, <1>3, <1>4

(* A common factor cancels. *)
LEMMA Cancel ==
    ASSUME NEW a \in Nat, NEW b \in Nat, NEW d \in Nat, d > 0, a * d <= b * d
    PROVE  a <= b
<1> SUFFICES ASSUME a >= b + 1 PROVE FALSE
  OBVIOUS
<1>1. (b + 1) * d <= a * d
  BY ProductMonotone
<1>2. (b + 1) * d = b * d + d
  OBVIOUS
<1> QED
  BY <1>1, <1>2

(* One more share, floored, keeps what was given out less than a unit per share *)
(* below what is due so far.                                                    *)
LEMMA ShareStep ==
    ASSUME NEW B \in Nat, NEW T \in Nat, NEW C \in Nat, NEW w \in Nat, NEW d \in Nat, NEW k \in Nat,
           d > 0, T * d <= B * C, B * C <= T * d + k * (d - 1)
    PROVE  LET s == (B * w) \div d
           IN  (T + s) * d <= B * (C + w) /\ B * (C + w) <= (T + s) * d + (k + 1) * (d - 1)
<1> DEFINE s == (B * w) \div d
<1>1. B * w \in Nat
  OBVIOUS
<1>2. s \in Nat /\ s * d <= B * w /\ B * w <= s * d + (d - 1)
  BY <1>1, FloorBounds
<1> HIDE DEF s
<1>3. (T + s) * d = T * d + s * d
  BY <1>2
<1>4. B * (C + w) = B * C + B * w
  OBVIOUS
<1>5. (k + 1) * (d - 1) = k * (d - 1) + (d - 1)
  OBVIOUS
<1>6. T * d \in Nat /\ s * d \in Nat /\ B * C \in Nat /\ k * (d - 1) \in Nat
  BY <1>2
<1>7. (T + s) * d <= B * (C + w) /\ B * (C + w) <= (T + s) * d + (k + 1) * (d - 1)
  BY <1>1, <1>2, <1>3, <1>4, <1>5, <1>6
<1> QED
  BY <1>7 DEF s

(* What is left at the end is less than a unit per share. *)
LEMMA LeftOver ==
    ASSUME NEW B \in Nat, NEW T \in Nat, NEW d \in Nat, NEW n \in Nat,
           d > 0, n > 0, T * d <= B * d, B * d <= T * d + n * (d - 1)
    PROVE  T <= B /\ B - T < n
<1>1. T <= B
  BY Cancel
<1>2. SUFFICES ASSUME B >= T + n PROVE FALSE
  BY <1>1
<1>3. (T + n) * d <= B * d
  BY <1>2, ProductMonotone
<1>4. (T + n) * d = T * d + n * d /\ n * (d - 1) = n * d - n
  OBVIOUS
<1>5. T * d \in Nat /\ n * d \in Nat /\ B * d \in Nat
  OBVIOUS
<1> QED
  BY <1>3, <1>4, <1>5

-----------------------------------------------------------------------------
(* The invariant of Allocate.                                                *)

(* cum sums up the first n members of s. *)
Running(cum, s, n) ==
    /\ cum \in [0..n -> Nat]
    /\ cum[0] = 0
    /\ \A k \in 1..n : cum[k] = cum[k - 1] + s[k]

Nothing == [t \in Tokens |-> 0]

(* What Allocate was given. *)
InputInv ==
    /\ funded \in [Tokens -> Nat] /\ carryIn \in [Tokens -> Nat]
    /\ holders \in Holdings

(* How far each loop has come. *)
LoopInv ==
    /\ pc \in {"weigh", "divide", "omit"} \/ Settled
    /\ pc \in {"weigh", "divide", "omit"} => i \in 1..(Len(holders) + 1)
    /\ pc = "weigh" => Len(weight) = i - 1 /\ Len(amounts) = 0
    /\ pc = "divide" => Len(weight) = Len(holders) /\ Len(amounts) = i - 1
    /\ pc = "omit" \/ Settled => Len(weight) = Len(holders) /\ Len(amounts) = Len(holders)
    /\ pc \in {"weigh", "divide"} => claims = <<>> /\ totals = Nothing
    /\ pc = "omit" => \A c \in 1..Size : claims[c] < i

(* Every row is what the loops that are over made of it. *)
RowInv ==
    /\ weight \in Seq(Nat) /\ W \in Nat /\ amounts \in Seq([Tokens -> Nat])
    /\ \A k \in 1..Len(weight) : weight[k] = holders[k].twab * MultBps(holders[k])
    /\ \A k \in 1..Len(amounts) : amounts[k] = [t \in Tokens |-> Share(t, weight[k])]

(* The total weight is the sum of the weights, and the floors of the rows that the *)
(* last loop has passed are less than a unit per row below their due.              *)
WeightInv ==
    \E cum : /\ Running(cum, weight, Len(weight))
             /\ W = cum[Len(weight)]
             /\ pc = "omit" => \A t \in Tokens :
                   /\ totals[t] * W <= base(t) * cum[i - 1]
                   /\ base(t) * cum[i - 1] <= totals[t] * W + (i - 1) * (W - 1)

(* The claims are some of the rows, in order, and the totals are their sums. *)
ClaimInv ==
    /\ claims \in Seq(Rows)
    /\ \A c, d \in 1..Size : c < d => claims[c] < claims[d]
    /\ totals \in [Tokens -> Nat]
    /\ \A t \in Tokens : \E paid :
          /\ paid \in [0..Size -> Nat] /\ paid[0] = 0
          /\ \A c \in 1..Size : paid[c] = paid[c - 1] + amounts[claims[c]][t]
          /\ totals[t] = paid[Size]
    /\ holders = <<>> => totals = Nothing

(* The Carry is what is left. *)
CarryInv ==
    /\ carryOut \in [Tokens -> Nat]
    /\ Settled => \A t \in Tokens :
          /\ totals[t] + carryOut[t] = base(t)
          /\ holders # <<>> => carryOut[t] < Len(holders)

AllocInv == InputInv /\ LoopInv /\ RowInv /\ WeightInv /\ ClaimInv /\ CarryInv

(* A Holder as the Ledger emits it. *)
LEMMA InputType ==
    ASSUME InputInv
    PROVE  /\ holders \in Seq(Holder) /\ Len(holders) \in Nat
           /\ \A k \in 1..Len(holders) : holders[k] \in Holder
           /\ \A t \in Tokens : base(t) \in Nat
<1>1. holders \in Seq(Holder)
  BY RulesAssumption DEF InputInv
<1>2. Len(holders) \in Nat /\ \A k \in 1..Len(holders) : holders[k] \in Holder
  BY <1>1
<1>3. \A t \in Tokens : base(t) \in Nat
  BY DEF InputInv, base
<1> QED
  BY <1>1, <1>2, <1>3

(* A Holder's weight is positive. *)
LEMMA WeightPositive ==
    ASSUME NEW h \in Holder
    PROVE  h.twab * MultBps(h) \in Nat /\ h.twab * MultBps(h) > 0
<1>1. h.twab \in Nat /\ h.twab > 0
  BY DEF Holder
<1>2. MultBps(h) \in {10000, 12500, 15000}
  BY DEF MultBps
<1> QED
  BY <1>1, <1>2

(* The next weight continues the running sum. *)
LEMMA RunningStep ==
    ASSUME NEW n \in Nat, NEW s \in Seq(Nat), Len(s) = n, NEW cum, Running(cum, s, n), NEW w \in Nat
    PROVE  LET more == [k \in 0..(n + 1) |-> IF k <= n THEN cum[k] ELSE cum[n] + w]
           IN  Running(more, Append(s, w), n + 1) /\ more[n + 1] = cum[n] + w
<1> DEFINE more == [k \in 0..(n + 1) |-> IF k <= n THEN cum[k] ELSE cum[n] + w]
<1>1. \A k \in 0..n : cum[k] \in Nat
  BY DEF Running
<1>2. more \in [0..(n + 1) -> Nat]
  BY <1>1
<1>3. more[0] = 0 /\ more[n + 1] = cum[n] + w
  BY DEF Running
<1>4. ASSUME NEW k \in 1..(n + 1)
      PROVE  more[k] = more[k - 1] + Append(s, w)[k]
  <2>1. CASE k <= n
    BY <2>1 DEF Running
  <2>2. CASE k = n + 1
    BY <2>2 DEF Running
  <2> QED
    BY <2>1, <2>2
<1> QED
  BY <1>2, <1>3, <1>4 DEF Running

(* The initial states. *)
LEMMA AllocInit == Init => AllocInv
<1> SUFFICES ASSUME Init PROVE AllocInv
  OBVIOUS
<1>1. InputInv
  BY RulesAssumption DEF Init, InputInv
<1>2. Len(holders) \in Nat
  BY <1>1, InputType
<1>3. LoopInv
  BY <1>2 DEF Init, LoopInv, Size, Nothing, Settled
<1>4. RowInv
  BY DEF Init, RowInv
<1>5. WeightInv
  <2>1. Running([k \in 0..0 |-> 0], weight, Len(weight)) /\ W = [k \in 0..0 |-> 0][Len(weight)]
    BY DEF Running, Init
  <2> QED
    BY <2>1 DEF WeightInv, Init
<1>6. ClaimInv
  <2>1. claims \in Seq(Rows) /\ Size = 0 /\ totals = Nothing /\ totals \in [Tokens -> Nat]
    BY DEF Init, Size, Nothing
  <2>2. ASSUME NEW t \in Tokens
        PROVE  \E paid : /\ paid \in [0..Size -> Nat] /\ paid[0] = 0
                         /\ \A c \in 1..Size : paid[c] = paid[c - 1] + amounts[claims[c]][t]
                         /\ totals[t] = paid[Size]
    <3> DEFINE z == [k \in 0..0 |-> 0]
    <3>1. z \in [0..Size -> Nat] /\ z[0] = 0 /\ totals[t] = z[Size]
      BY <2>1 DEF Nothing
    <3>2. \A c \in 1..Size : z[c] = z[c - 1] + amounts[claims[c]][t]
      BY <2>1
    <3> HIDE DEF z
    <3> QED
      BY <3>1, <3>2
  <2> QED
    BY <2>1, <2>2 DEF ClaimInv
<1>7. CarryInv
  BY DEF Init, CarryInv, Settled
<1> QED
  BY <1>1, <1>3, <1>4, <1>5, <1>6, <1>7 DEF AllocInv

(* The claims and the Carry are the same. *)
LEMMA ClaimsKept ==
    ASSUME ClaimInv, UNCHANGED <<holders, amounts, claims, totals>>
    PROVE  ClaimInv'
BY DEF ClaimInv, Size, Rows, Nothing

(* One more weight. *)
LEMMA WeighStep ==
    ASSUME AllocInv, Weigh
    PROVE  AllocInv'
<1> DEFINE w == holders[i].twab * MultBps(holders[i])
<1>1. /\ pc = "weigh" /\ pc' = "weigh" /\ i' = i + 1 /\ i <= Len(holders)
      /\ weight' = Append(weight, w) /\ W' = W + w
      /\ UNCHANGED <<funded, carryIn, holders, amounts, claims, totals, carryOut>>
  BY DEF Weigh, inVars, allocVars
<1>2. /\ holders \in Seq(Holder) /\ Len(holders) \in Nat /\ i \in 1..Len(holders)
      /\ weight \in Seq(Nat) /\ Len(weight) = i - 1 /\ Len(amounts) = 0 /\ W \in Nat
  BY <1>1, InputType DEF AllocInv, LoopInv, RowInv
<1>3. w \in Nat
  BY <1>2, WeightPositive
<1>4. InputInv'
  BY <1>1 DEF AllocInv, InputInv
<1>5. weight' \in Seq(Nat) /\ Len(weight') = i /\ weight'[i] = w /\ \A k \in 1..(i - 1) : weight'[k] = weight[k]
  <2> HIDE DEF w
  <2> QED
    BY <1>1, <1>2, <1>3
<1>6. LoopInv'
  <2>1. pc' \in {"weigh", "divide", "omit"} /\ i' \in 1..(Len(holders') + 1) /\ Len(weight') = i' - 1 /\ Len(amounts') = 0
    BY <1>1, <1>2, <1>5
  <2>2. claims' = <<>> /\ totals' = Nothing'
    BY <1>1 DEF AllocInv, LoopInv, Nothing
  <2> QED
    BY <1>1, <2>1, <2>2 DEF LoopInv, Settled
<1>7. RowInv'
  <2>1. ASSUME NEW k \in 1..Len(weight')
        PROVE  weight'[k] = holders'[k].twab * MultBps(holders'[k])
    <3>1. CASE k = i
      BY <1>1, <1>5, <3>1
    <3>2. CASE k # i
      <4>1. k \in 1..(i - 1)
        BY <1>2, <1>5, <3>2
      <4>2. weight[k] = holders[k].twab * MultBps(holders[k])
        BY <1>2, <4>1 DEF AllocInv, RowInv
      <4> QED
        BY <1>1, <1>5, <4>1, <4>2
    <3> QED
      BY <3>1, <3>2
  <2>2. W' \in Nat /\ amounts' \in Seq([Tokens -> Nat]) /\ Len(amounts') = 0
    <3> HIDE DEF w
    <3> QED
      BY <1>1, <1>2, <1>3 DEF AllocInv, RowInv
  <2> QED
    BY <1>5, <2>1, <2>2 DEF RowInv
<1>8. WeightInv'
  <2>1. PICK cum : Running(cum, weight, i - 1) /\ W = cum[i - 1]
    BY <1>2 DEF AllocInv, WeightInv
  <2> DEFINE more == [k \in 0..i |-> IF k <= i - 1 THEN cum[k] ELSE cum[i - 1] + w]
  <2>2. i - 1 \in Nat /\ i = (i - 1) + 1
    BY <1>2
  <2>3. Running(more, Append(weight, w), i) /\ more[i] = cum[i - 1] + w
    <3> DEFINE n == i - 1
    <3>1. n \in Nat /\ Len(weight) = n /\ i = n + 1 /\ Running(cum, weight, n)
      BY <1>2, <2>1, <2>2
    <3> HIDE DEF w, n
    <3> QED
      BY <1>2, <1>3, <3>1, RunningStep DEF n
  <2> HIDE DEF more, w
  <2>4. Running(more, weight', Len(weight')) /\ W' = more[Len(weight')]
    BY <1>1, <1>5, <2>1, <2>3
  <2> QED
    BY <1>1, <2>4 DEF WeightInv
<1>9. ClaimInv' /\ CarryInv'
  BY <1>1, ClaimsKept DEF AllocInv, CarryInv, Settled
<1> QED
  BY <1>4, <1>6, <1>7, <1>8, <1>9 DEF AllocInv

(* With Holders there is weight, and a share is a natural number. *)
LEMMA WeightsAdd ==
    ASSUME InputInv, RowInv, WeightInv, Len(weight) = Len(holders), Len(holders) > 0
    PROVE  /\ W > 0
           /\ \A t \in Tokens, k \in 1..Len(holders) :
                 base(t) * weight[k] \in Nat /\ Share(t, weight[k]) \in Nat
<1>1. Len(holders) \in Nat /\ \A k \in 1..Len(holders) : holders[k] \in Holder
  BY InputType
<1>2. PICK cum : Running(cum, weight, Len(weight)) /\ W = cum[Len(weight)]
  BY DEF WeightInv
<1> DEFINE n == Len(holders)
<1>3. cum[n - 1] \in Nat /\ W = cum[n - 1] + weight[n]
  BY <1>1, <1>2 DEF Running
<1>4. weight[n] \in Nat /\ weight[n] > 0
  <2>1. weight[n] = holders[n].twab * MultBps(holders[n])
    BY <1>1 DEF RowInv
  <2> QED
    BY <1>1, <2>1, WeightPositive
<1>5. W > 0 /\ W \in Nat
  BY <1>3, <1>4 DEF RowInv
<1>6. ASSUME NEW t \in Tokens, NEW k \in 1..n
      PROVE  base(t) * weight[k] \in Nat /\ Share(t, weight[k]) \in Nat
  <2>1. base(t) \in Nat /\ weight[k] \in Nat
    BY InputType DEF RowInv
  <2>2. base(t) * weight[k] \in Nat
    <3> HIDE DEF base
    <3> QED
      BY <2>1
  <2> QED
    BY <1>5, <2>2, FloorBounds DEF Share
<1> QED
  BY <1>5, <1>6

(* One more row of amounts. *)
LEMMA DivideStep ==
    ASSUME AllocInv, Divide
    PROVE  AllocInv'
<1> DEFINE row == [t \in Tokens |-> Share(t, weight[i])]
<1>1. /\ pc = "divide" /\ pc' = "divide" /\ i' = i + 1 /\ i <= Len(holders)
      /\ amounts' = Append(amounts, row)
      /\ UNCHANGED <<funded, carryIn, holders, weight, W, claims, totals, carryOut>>
  BY DEF Divide, inVars, allocVars
<1>2. /\ Len(holders) \in Nat /\ i \in 1..Len(holders)
      /\ amounts \in Seq([Tokens -> Nat]) /\ Len(amounts) = i - 1 /\ Len(weight) = Len(holders)
  BY <1>1, InputType DEF AllocInv, LoopInv, RowInv
<1>3. row \in [Tokens -> Nat]
  BY <1>2, WeightsAdd DEF AllocInv
<1>4. InputInv'
  BY <1>1 DEF AllocInv, InputInv
<1>5. /\ amounts' \in Seq([Tokens -> Nat]) /\ Len(amounts') = i /\ amounts'[i] = row
      /\ \A k \in 1..(i - 1) : amounts'[k] = amounts[k]
  <2> HIDE DEF row
  <2> QED
    BY <1>1, <1>2, <1>3
<1>6. claims = <<>> /\ totals = Nothing
  BY <1>1 DEF AllocInv, LoopInv
<1>7. LoopInv'
  <2>1. pc' \in {"weigh", "divide", "omit"} /\ i' \in 1..(Len(holders') + 1)
        /\ Len(weight') = Len(holders') /\ Len(amounts') = i' - 1
    BY <1>1, <1>2, <1>5
  <2>2. claims' = <<>> /\ totals' = Nothing'
    BY <1>1, <1>6 DEF Nothing
  <2> QED
    BY <1>1, <2>1, <2>2 DEF LoopInv, Settled
<1>8. RowInv'
  <2>1. ASSUME NEW k \in 1..Len(amounts')
        PROVE  amounts'[k] = [t \in Tokens |-> Share(t, weight[k])]
    <3>1. CASE k = i
      BY <1>5, <3>1
    <3>2. CASE k # i
      <4>1. k \in 1..(i - 1)
        BY <1>2, <1>5, <3>2
      <4> QED
        BY <1>2, <1>5, <4>1 DEF AllocInv, RowInv
    <3> QED
      BY <3>1, <3>2
  <2>2. ASSUME NEW k \in 1..Len(amounts')
        PROVE  amounts'[k] = [t \in Tokens |-> Share(t, weight[k])']
    BY <1>1, <2>1 DEF Share, base
  <2>3. /\ weight' \in Seq(Nat) /\ W' \in Nat
        /\ \A k \in 1..Len(weight') : weight'[k] = holders'[k].twab * MultBps(holders'[k])
    BY <1>1 DEF AllocInv, RowInv
  <2> QED
    BY <1>5, <2>2, <2>3 DEF RowInv
<1>9. WeightInv'
  BY <1>1 DEF AllocInv, WeightInv, Running
<1>10. ClaimInv'
  <2>1. Size = 0 /\ Size' = 0
    BY <1>1, <1>6 DEF Size
  <2> QED
    BY <1>1, <2>1 DEF AllocInv, ClaimInv, Rows, Nothing
<1>11. CarryInv'
  BY <1>1 DEF AllocInv, CarryInv, Settled
<1> QED
  BY <1>4, <1>7, <1>8, <1>9, <1>10, <1>11 DEF AllocInv

(* The rows stay as they are. *)
LEMMA RowsKept ==
    ASSUME InputInv, RowInv, UNCHANGED <<funded, carryIn, holders, weight, W, amounts>>
    PROVE  InputInv' /\ RowInv'
<1>1. InputInv'
  BY DEF InputInv
<1>2. \A k \in 1..Len(amounts) : [t \in Tokens |-> Share(t, weight[k])] = [t \in Tokens |-> Share(t, weight[k])']
  BY DEF Share, base
<1> QED
  BY <1>1, <1>2 DEF RowInv

(* A row is passed over only if it is worth nothing, so it makes no difference to *)
(* the totals that it is.                                                         *)
LEMMA OmitAdds ==
    ASSUME AllocInv, Omit, NEW t \in Tokens
    PROVE  amounts[i][t] = Share(t, weight[i]) /\ totals'[t] = totals[t] + Share(t, weight[i])
<1>1. /\ pc = "omit" /\ i <= Len(holders)
      /\ IF isEmpty(amounts[i])
            THEN UNCHANGED <<claims, totals>>
            ELSE totals' = [u \in Tokens |-> totals[u] + amounts[i][u]]
  BY DEF Omit
<1>2. /\ Len(holders) \in Nat /\ i \in 1..Len(holders) /\ Len(weight) = Len(holders)
      /\ Len(amounts) = Len(holders) /\ totals[t] \in Nat
  BY <1>1, InputType DEF AllocInv, LoopInv, ClaimInv
<1>3. amounts[i] = [u \in Tokens |-> Share(u, weight[i])]
  BY <1>2 DEF AllocInv, RowInv
<1>4. amounts[i][t] = Share(t, weight[i])
  BY <1>3
<1>5. CASE isEmpty(amounts[i])
  <2>1. amounts[i][t] = 0 /\ totals'[t] = totals[t]
    BY <1>1, <1>5 DEF isEmpty
  <2> QED
    BY <1>2, <1>4, <2>1
<1>6. CASE ~isEmpty(amounts[i])
  BY <1>1, <1>4, <1>6
<1> QED
  BY <1>4, <1>5, <1>6

(* One more row is a claim or is left out. *)
LEMMA OmitStep ==
    ASSUME AllocInv, Omit
    PROVE  AllocInv'
<1>1. /\ pc = "omit" /\ pc' = "omit" /\ i' = i + 1 /\ i <= Len(holders)
      /\ UNCHANGED <<funded, carryIn, holders, weight, W, amounts, carryOut>>
      /\ IF isEmpty(amounts[i])
            THEN UNCHANGED <<claims, totals>>
            ELSE claims' = Append(claims, i) /\ totals' = [t \in Tokens |-> totals[t] + amounts[i][t]]
  BY DEF Omit, inVars, rowVars
<1>2. /\ Len(holders) \in Nat /\ i \in 1..Len(holders) /\ holders # <<>>
      /\ Len(weight) = Len(holders) /\ Len(amounts) = Len(holders)
      /\ claims \in Seq(Rows) /\ Size = Len(claims) /\ Size \in Nat
      /\ \A c \in 1..Size : claims[c] < i /\ claims[c] \in Nat
      /\ totals \in [Tokens -> Nat]
  BY <1>1, InputType DEF AllocInv, LoopInv, ClaimInv, Size, Rows
<1>3. /\ W \in Nat /\ W > 0
      /\ \A t \in Tokens : base(t) * weight[i] \in Nat /\ Share(t, weight[i]) \in Nat /\ weight[i] \in Nat
  BY <1>2, WeightsAdd DEF AllocInv, RowInv
<1>4. InputInv' /\ RowInv'
  BY <1>1, RowsKept DEF AllocInv
<1>5. totals' \in [Tokens -> Nat]
  <2>1. amounts[i] \in [Tokens -> Nat]
    BY <1>2 DEF AllocInv, RowInv
  <2> QED
    BY <1>1, <1>2, <2>1
<1>6. /\ claims' \in Seq(Rows) /\ \A c \in 1..Size' : claims'[c] <= i
      /\ \A c, d \in 1..Size' : c < d => claims'[c] < claims'[d]
  <2>1. CASE isEmpty(amounts[i])
    BY <1>1, <1>2, <2>1 DEF AllocInv, ClaimInv, Size
  <2>2. CASE ~isEmpty(amounts[i])
    <3>1. claims' = Append(claims, i) /\ i \in Rows
      BY <1>1, <1>2, <2>2 DEF Rows
    <3>2. /\ claims' \in Seq(Rows) /\ Size' = Size + 1 /\ claims'[Size + 1] = i
          /\ \A c \in 1..Size : claims'[c] = claims[c]
      BY <1>2, <3>1 DEF Size
    <3>3. \A c \in 1..(Size + 1) : claims'[c] <= i
      BY <1>2, <3>2
    <3>4. ASSUME NEW c \in 1..(Size + 1), NEW d \in 1..(Size + 1), c < d
          PROVE  claims'[c] < claims'[d]
      <4>1. c \in 1..Size
        BY <1>2, <3>4
      <4>2. CASE d = Size + 1
        BY <1>2, <3>2, <4>1, <4>2
      <4>3. CASE d # Size + 1
        <5>1. d \in 1..Size
          BY <1>2, <4>3
        <5> QED
          BY <3>2, <3>4, <4>1, <5>1 DEF AllocInv, ClaimInv
      <4> QED
        BY <4>2, <4>3
    <3> QED
      BY <3>2, <3>3, <3>4
  <2> QED
    BY <2>1, <2>2
<1>7. LoopInv'
  <2>1. \A c \in 1..Size' : claims'[c] < i'
    <3>1. claims' \in Seq(Nat) /\ Size' = Len(claims')
      BY <1>2, <1>6 DEF Rows, Size
    <3>2. \A c \in 1..Size' : claims'[c] \in Nat
      BY <3>1
    <3> QED
      BY <1>1, <1>2, <1>6, <3>2
  <2> QED
    BY <1>1, <1>2, <2>1 DEF LoopInv, Settled
<1>8. WeightInv'
  <2>1. PICK cum : /\ Running(cum, weight, Len(weight)) /\ W = cum[Len(weight)]
                   /\ \A t \in Tokens :
                        /\ totals[t] * W <= base(t) * cum[i - 1]
                        /\ base(t) * cum[i - 1] <= totals[t] * W + (i - 1) * (W - 1)
    BY <1>1 DEF AllocInv, WeightInv
  <2>2. cum[i - 1] \in Nat /\ cum[i] = cum[i - 1] + weight[i]
    <3>1. i - 1 \in 0..Len(weight) /\ i \in 1..Len(weight)
      BY <1>2
    <3>2. cum \in [0..Len(weight) -> Nat] /\ \A k \in 1..Len(weight) : cum[k] = cum[k - 1] + weight[k]
      BY <2>1 DEF Running
    <3> QED
      BY <3>1, <3>2
  <2>3. ASSUME NEW t \in Tokens
        PROVE  /\ totals'[t] * W' <= base(t)' * cum[i' - 1]
               /\ base(t)' * cum[i' - 1] <= totals'[t] * W' + (i' - 1) * (W' - 1)
    <3> DEFINE s == (base(t) * weight[i]) \div W
               B == base(t)
               T == totals[t]
               C == cum[i - 1]
               w == weight[i]
               k == i - 1
    <3>1. totals'[t] = T + s
      BY OmitAdds DEF Share
    <3>2. B \in Nat /\ T \in Nat /\ k \in Nat /\ w \in Nat
      BY <1>2, <1>3, InputType DEF AllocInv
    <3>3. T * W <= B * C /\ B * C <= T * W + k * (W - 1) /\ C \in Nat
      BY <2>1, <2>2
    <3>4. base(t)' = B /\ W' = W /\ i' - 1 = k + 1 /\ cum[i' - 1] = C + w
      <4>1. i' - 1 = i
        BY <1>1, <1>2
      <4> QED
        BY <1>1, <1>2, <2>2, <4>1 DEF base
    <3>5. s = (B * w) \div W
      OBVIOUS
    <3> HIDE DEF s, B, T, C, w, k
    <3>6. (T + s) * W <= B * (C + w) /\ B * (C + w) <= (T + s) * W + (k + 1) * (W - 1)
      BY <1>3, <3>2, <3>3, <3>5, ShareStep
    <3> QED
      BY <3>1, <3>4, <3>6
  <2>4. Running(cum, weight', Len(weight')) /\ W' = cum[Len(weight')]
    BY <1>1, <2>1
  <2> QED
    BY <2>3, <2>4 DEF WeightInv
<1>9. ASSUME NEW t \in Tokens
      PROVE  \E paid : /\ paid \in [0..Size' -> Nat] /\ paid[0] = 0
                       /\ \A c \in 1..Size' : paid[c] = paid[c - 1] + amounts'[claims'[c]][t]
                       /\ totals'[t] = paid[Size']
  <2>1. PICK paid : /\ paid \in [0..Size -> Nat] /\ paid[0] = 0
                    /\ \A c \in 1..Size : paid[c] = paid[c - 1] + amounts[claims[c]][t]
                    /\ totals[t] = paid[Size]
    BY DEF AllocInv, ClaimInv
  <2>2. CASE isEmpty(amounts[i])
    <3>1. claims' = claims /\ totals' = totals /\ amounts' = amounts /\ Size' = Size
      BY <1>1, <2>2 DEF Size
    <3> QED
      BY <2>1, <3>1
  <2>3. CASE ~isEmpty(amounts[i])
    <3> DEFINE s == Share(t, weight[i])
               more == [c \in 0..(Size + 1) |-> IF c <= Size THEN paid[c] ELSE paid[Size] + s]
    <3>1. claims' = Append(claims, i) /\ i \in Rows /\ amounts' = amounts
      BY <1>1, <1>2, <2>3 DEF Rows
    <3>2. /\ Size' = Size + 1 /\ claims'[Size + 1] = i
          /\ \A c \in 1..Size : claims'[c] = claims[c]
      BY <1>2, <3>1 DEF Size
    <3>3. amounts[i][t] = s /\ totals'[t] = paid[Size] + s /\ s \in Nat
      BY <1>3, <2>1, OmitAdds
    <3> HIDE DEF s
    <3>4. more \in [0..Size' -> Nat] /\ more[0] = 0 /\ totals'[t] = more[Size']
      BY <1>2, <2>1, <3>2, <3>3
    <3>5. ASSUME NEW c \in 1..Size'
          PROVE  more[c] = more[c - 1] + amounts'[claims'[c]][t]
      <4>1. CASE c = Size + 1
        BY <1>2, <3>1, <3>2, <3>3, <4>1
      <4>2. CASE c # Size + 1
        <5>1. c \in 1..Size /\ c - 1 \in 0..Size /\ c \in 0..(Size + 1) /\ c - 1 \in 0..(Size + 1)
          BY <1>2, <3>2, <4>2
        <5>2. paid[c] = paid[c - 1] + amounts[claims[c]][t] /\ claims'[c] = claims[c]
          BY <2>1, <3>2, <5>1
        <5>3. more[c] = paid[c] /\ more[c - 1] = paid[c - 1]
          BY <1>2, <5>1
        <5> QED
          BY <3>1, <5>2, <5>3
      <4> QED
        BY <4>1, <4>2
    <3> HIDE DEF more
    <3> QED
      BY <3>4, <3>5
  <2> QED
    BY <2>2, <2>3
<1>10. ClaimInv'
  BY <1>1, <1>2, <1>5, <1>6, <1>9 DEF ClaimInv, Rows
<1>11. CarryInv'
  BY <1>1 DEF AllocInv, CarryInv, Settled
<1> QED
  BY <1>4, <1>7, <1>8, <1>10, <1>11 DEF AllocInv

(* A loop that is over leaves what it made to the next one. *)
LEMMA NextLoopStep ==
    ASSUME AllocInv, NextLoop
    PROVE  AllocInv'
<1>1. /\ i > Len(holders) /\ i' = 1
      /\ \/ pc = "weigh" /\ pc' = "divide"
         \/ pc = "divide" /\ pc' = "omit"
      /\ UNCHANGED <<funded, carryIn, holders, weight, W, amounts, claims, totals, carryOut>>
  BY DEF NextLoop, inVars, rowVars, allocVars
<1>2. /\ Len(holders) \in Nat /\ i = Len(holders) + 1
      /\ claims = <<>> /\ totals = Nothing
  BY <1>1, InputType DEF AllocInv, LoopInv
<1>3. InputInv' /\ RowInv' /\ ClaimInv' /\ CarryInv'
  BY <1>1, RowsKept, ClaimsKept DEF AllocInv, CarryInv, Settled
<1>4. LoopInv'
  BY <1>1, <1>2 DEF AllocInv, LoopInv, Settled, Size, Nothing
<1>5. WeightInv'
  <2>1. PICK cum : Running(cum, weight, Len(weight)) /\ W = cum[Len(weight)]
    BY DEF AllocInv, WeightInv
  <2>2. Running(cum, weight', Len(weight')) /\ W' = cum[Len(weight')]
    BY <1>1, <2>1
  <2>3. ASSUME NEW t \in Tokens
        PROVE  /\ totals'[t] * W' <= base(t)' * cum[i' - 1]
               /\ base(t)' * cum[i' - 1] <= totals'[t] * W' + (i' - 1) * (W' - 1)
    <3>1. totals'[t] = 0 /\ i' - 1 = 0 /\ cum[i' - 1] = 0
      BY <1>1, <1>2, <2>1 DEF Nothing, Running
    <3>2. base(t)' \in Nat /\ W' \in Nat
      BY <1>3, InputType DEF RowInv, InputInv, base
    <3> HIDE DEF base
    <3> QED
      BY <3>1, <3>2
  <2> QED
    BY <2>2, <2>3 DEF WeightInv
<1> QED
  BY <1>3, <1>4, <1>5 DEF AllocInv

(* The floors leave a Carry, and less of it than there are Holders. *)
LEMMA SettleStep ==
    ASSUME AllocInv, Settle
    PROVE  AllocInv'
<1>1. /\ pc = "omit" /\ i > Len(holders) /\ pc' \in {"done", "leaves"}
      /\ carryOut' = [t \in Tokens |-> base(t) - totals[t]]
      /\ UNCHANGED <<funded, carryIn, holders, weight, W, amounts, claims, totals>>
  BY DEF Settle, inVars, rowVars
<1>2. /\ Len(holders) \in Nat /\ i = Len(holders) + 1 /\ Len(weight) = Len(holders)
      /\ Len(amounts) = Len(holders) /\ W \in Nat
      /\ holders \in Seq(Holder)
  BY <1>1, InputType DEF AllocInv, LoopInv, RowInv
<1>3. InputInv' /\ RowInv' /\ ClaimInv'
  BY <1>1, RowsKept, ClaimsKept DEF AllocInv
<1>4. LoopInv'
  BY <1>1, <1>2 DEF LoopInv, Settled
<1>5. WeightInv'
  BY <1>1 DEF AllocInv, WeightInv
<1>6. ASSUME NEW t \in Tokens
      PROVE  /\ base(t) - totals[t] \in Nat /\ totals[t] + (base(t) - totals[t]) = base(t)
             /\ holders # <<>> => base(t) - totals[t] < Len(holders)
  <2>1. base(t) \in Nat /\ totals[t] \in Nat
    BY InputType DEF AllocInv, ClaimInv
  <2>2. CASE Len(holders) > 0
    <3>1. W > 0
      BY <1>2, <2>2, WeightsAdd DEF AllocInv
    <3>2. PICK cum : /\ W = cum[Len(weight)]
                     /\ totals[t] * W <= base(t) * cum[i - 1]
                     /\ base(t) * cum[i - 1] <= totals[t] * W + (i - 1) * (W - 1)
      BY <1>1 DEF AllocInv, WeightInv
    <3> DEFINE B == base(t)
               T == totals[t]
               n == Len(holders)
    <3>3. i - 1 = n /\ cum[i - 1] = W
      BY <1>2, <3>2
    <3>4. T * W <= B * W /\ B * W <= T * W + n * (W - 1)
      BY <3>2, <3>3
    <3>5. B \in Nat /\ T \in Nat /\ n \in Nat /\ n > 0
      BY <1>2, <2>1, <2>2
    <3> HIDE DEF B, T, n
    <3>6. T <= B /\ B - T < n
      BY <1>2, <3>1, <3>4, <3>5, LeftOver
    <3>7. B - T \in Nat /\ T + (B - T) = B /\ B - T < n
      BY <3>5, <3>6
    <3> QED
      BY <3>7 DEF B, T, n
  <2>3. CASE Len(holders) = 0
    <3>1. holders = <<>>
      BY <1>2, <2>3
    <3>2. totals[t] = 0
      BY <3>1 DEF AllocInv, ClaimInv, Nothing
    <3> HIDE DEF base
    <3> QED
      BY <2>1, <3>1, <3>2
  <2> QED
    BY <1>2, <2>2, <2>3
<1>7. CarryInv'
  <2>1. \A t \in Tokens : base(t)' = base(t)
    BY <1>1 DEF base
  <2> HIDE DEF base
  <2> QED
    BY <1>1, <1>6, <2>1 DEF CarryInv
<1> QED
  BY <1>3, <1>4, <1>5, <1>7 DEF AllocInv

(* What comes after Allocate leaves its result alone. *)
LEMMA LaterStep ==
    ASSUME AllocInv, Settled, Settled', UNCHANGED <<inVars, rowVars, allocVars>>
    PROVE  AllocInv'
<1>1. UNCHANGED <<funded, carryIn, holders, weight, W, amounts, claims, totals, carryOut>>
  BY DEF inVars, rowVars, allocVars
<1>2. InputInv' /\ RowInv' /\ ClaimInv'
  BY <1>1, RowsKept, ClaimsKept DEF AllocInv
<1>3. LoopInv'
  BY <1>1 DEF AllocInv, LoopInv, Settled
<1>4. WeightInv'
  BY <1>1 DEF AllocInv, WeightInv, Settled
<1>5. CarryInv'
  BY <1>1 DEF AllocInv, CarryInv, base
<1> QED
  BY <1>2, <1>3, <1>4, <1>5 DEF AllocInv

(* Every step keeps the invariant of Allocate. *)
LEMMA AllocNext == AllocInv /\ [Next]_vars => AllocInv'
<1> SUFFICES ASSUME AllocInv, [Next]_vars PROVE AllocInv'
  OBVIOUS
<1>1. CASE Weigh
  BY <1>1, WeighStep
<1>2. CASE Divide
  BY <1>2, DivideStep
<1>3. CASE Omit
  BY <1>3, OmitStep
<1>4. CASE NextLoop
  BY <1>4, NextLoopStep
<1>5. CASE Settle
  BY <1>5, SettleStep
<1>6. CASE \/ Leaves \/ Hash \/ (\E c, d \in 1..Size : Ask(c, d))
           \/ Proof \/ Show \/ Verify \/ Verified
  <2>1. Settled /\ Settled' /\ UNCHANGED <<inVars, rowVars, allocVars>>
    BY <1>6 DEF Leaves, Hash, Ask, Proof, Show, Verify, Verified, Settled
  <2> QED
    BY <2>1, LaterStep
<1>7. CASE Done \/ UNCHANGED vars
  <2>1. UNCHANGED <<pc, i, funded, carryIn, holders, weight, W, amounts, claims, totals, carryOut>>
    BY <1>7 DEF Done, vars, inVars, rowVars, allocVars
  <2>2. InputInv' /\ RowInv' /\ ClaimInv'
    BY <2>1, RowsKept, ClaimsKept DEF AllocInv
  <2>3. LoopInv' /\ WeightInv' /\ CarryInv'
    BY <2>1 DEF AllocInv, LoopInv, WeightInv, CarryInv, Settled, base, Size, Nothing
  <2> QED
    BY <2>2, <2>3 DEF AllocInv
<1> QED
  BY <1>1, <1>2, <1>3, <1>4, <1>5, <1>6, <1>7 DEF Next

-----------------------------------------------------------------------------
(* What Allocate promises.                                                   *)

(* A set of naturals that is not empty has a least element. *)
LEMMA LeastNumber ==
    ASSUME NEW S, S \subseteq Nat, S # {}
    PROVE  \E x \in S : \A y \in S : x <= y
<1>1. \E x \in S : \A y \in S : ~(<<y, x>> \in OpToRel(<, Nat))
  BY NatLessThanWellFounded, WFMin
<1>2. \E x \in S : \A y \in S : ~(y < x)
  BY <1>1, Zenon DEF OpToRel
<1> QED
  BY <1>2

(* The recursive sum of the claims is the one the last loop added up. *)
LEMMA TotalsArePaid ==
    ASSUME ClaimInv, NEW t \in Tokens
    PROVE  totals[t] = Paid(t)
<1>1. PICK sum : /\ sum \in [0..Size -> Nat] /\ sum[0] = 0
                 /\ \A c \in 1..Size : sum[c] = sum[c - 1] + amounts[claims[c]][t]
                 /\ totals[t] = sum[Size]
  BY DEF ClaimInv
<1>2. Size \in Nat
  BY DEF ClaimInv, Size
<1> DEFINE Sums(f) == f = [c \in 0..Size |-> IF c = 0 THEN 0 ELSE f[c - 1] + amounts[claims[c]][t]]
           paid == CHOOSE f : Sums(f)
<1>3. Sums(sum)
  <2> DEFINE rhs == [c \in 0..Size |-> IF c = 0 THEN 0 ELSE sum[c - 1] + amounts[claims[c]][t]]
  <2>1. ASSUME NEW c \in 0..Size PROVE sum[c] = rhs[c]
    BY <1>1, <1>2
  <2>2. sum = [c \in 0..Size |-> sum[c]]
    BY <1>1
  <2> QED
    BY <2>1, <2>2
<1>4. Sums(paid)
  BY <1>3
<1>5. \A c \in 0..Size : paid[c] = IF c = 0 THEN 0 ELSE paid[c - 1] + amounts[claims[c]][t]
  BY <1>4
<1>6. Paid(t) = paid[Size]
  BY DEF Paid
<1> HIDE DEF paid
<1>7. \A c \in 0..Size : paid[c] = sum[c]
  <2> DEFINE S == {c \in 0..Size : paid[c] # sum[c]}
  <2>1. SUFFICES ASSUME S # {} PROVE FALSE
    OBVIOUS
  <2>2. S \subseteq Nat
    BY <1>2
  <2>3. PICK x \in S : \A y \in S : x <= y
    BY <2>1, <2>2, LeastNumber
  <2>4. x # 0
    BY <1>1, <1>2, <1>5, <2>3
  <2>5. x - 1 \in 0..Size /\ x - 1 \notin S /\ x \in 1..Size
    BY <1>2, <2>3, <2>4
  <2>6. paid[x - 1] = sum[x - 1]
    BY <2>5
  <2> QED
    BY <1>1, <1>2, <1>5, <2>3, <2>4, <2>5, <2>6
<1> QED
  BY <1>1, <1>2, <1>6, <1>7

(* Allocate: what the claims add up to and what is carried on are what came in, and *)
(* of no token is a whole unit per Holder left, for any Holders and any funding.    *)
THEOREM AllocateConserves == Spec => []Conserves
<1>1. ASSUME AllocInv PROVE Conserves
  <2>1. SUFFICES ASSUME Settled, NEW t \in Tokens
                 PROVE  /\ totals[t] + carryOut[t] = funded[t] + carryIn[t]
                        /\ totals[t] = Paid(t)
                        /\ IF holders = <<>> THEN totals[t] = 0 ELSE carryOut[t] < Len(holders)
    BY DEF Conserves
  <2>2. totals[t] = Paid(t)
    BY <1>1, TotalsArePaid DEF AllocInv
  <2>3. totals[t] + carryOut[t] = funded[t] + carryIn[t]
    BY <1>1, <2>1 DEF AllocInv, CarryInv, base
  <2>4. IF holders = <<>> THEN totals[t] = 0 ELSE carryOut[t] < Len(holders)
    BY <1>1, <2>1 DEF AllocInv, CarryInv, ClaimInv, Nothing
  <2> QED
    BY <2>2, <2>3, <2>4
<1> QED
  BY AllocInit, AllocNext, <1>1, PTL DEF Spec

(* A longer streak earns no smaller Multiplier. *)
LEMMA StreakPays ==
    ASSUME NEW a \in Holder, NEW b \in Holder, a.account # DevWallet, Since(a) <= Since(b)
    PROVE  MultBps(b) <= MultBps(a) /\ MultBps(a) \in Nat /\ MultBps(b) \in Nat
<1>1. End \in Nat /\ Since(a) \in 0..End /\ Since(b) \in 0..End
  BY RulesAssumption DEF Holder, Since
<1>2. StreakDays(a) \in Int /\ StreakDays(b) \in Int /\ StreakDays(b) <= StreakDays(a)
  <2> HIDE DEF Since
  <2> QED
    BY <1>1 DEF StreakDays, secondsPerDay
<1> HIDE DEF StreakDays
<1> QED
  BY <1>2 DEF MultBps, StreakMonth, StreakWeek

(* Allocate: who holds no less, and has not sent for no less long, is never given *)
(* less, whatever was floored and whoever was left out.                           *)
THEOREM AllocateIsMonotone == Spec => []HoldingPays
<1>1. ASSUME AllocInv PROVE HoldingPays
  <2>1. SUFFICES ASSUME Settled, NEW g \in Rows, NEW h \in Rows,
                        holders[g].twab >= holders[h].twab, holders[g].account # DevWallet,
                        Since(holders[g]) <= Since(holders[h]),
                        NEW t \in Tokens
                 PROVE  amounts[g][t] >= amounts[h][t]
    <3>1. ASSUME NEW g \in Rows, NEW h \in Rows
          PROVE  holders[g] \in Holder /\ holders[h] \in Holder
      BY <1>1, InputType DEF AllocInv, Rows
    <3>2. ASSUME NEW a \in Holder, NEW b \in Holder,
                 b.firstBuyAt >= a.firstBuyAt \/ b.lastSellAt >= a.firstBuyAt,
                 b.firstBuyAt >= a.lastSellAt \/ b.lastSellAt >= a.lastSellAt
          PROVE  Since(a) <= Since(b)
      <4>1. End \in Nat
        BY RulesAssumption
      <4> QED
        BY <3>2, <4>1 DEF Since, Holder
    <3> HIDE DEF Settled, Rows
    <3> QED
      BY <3>1, <3>2 DEF HoldingPays
  <2>2. /\ holders[g] \in Holder /\ holders[h] \in Holder
        /\ Len(holders) \in Nat /\ Len(holders) > 0 /\ g \in 1..Len(holders) /\ h \in 1..Len(holders)
        /\ Len(weight) = Len(holders) /\ Len(amounts) = Len(holders)
        /\ W \in Nat /\ base(t) \in Nat
    BY <1>1, <2>1, InputType DEF AllocInv, LoopInv, RowInv, Rows
  <2>3. W > 0
    BY <1>1, <2>2, WeightsAdd DEF AllocInv
  <2>4. /\ weight[g] = holders[g].twab * MultBps(holders[g])
        /\ weight[h] = holders[h].twab * MultBps(holders[h])
        /\ weight[g] \in Nat /\ weight[h] \in Nat
    BY <1>1, <2>2 DEF AllocInv, RowInv
  <2>5. weight[h] <= weight[g]
    <3>1. /\ MultBps(holders[h]) <= MultBps(holders[g])
          /\ MultBps(holders[g]) \in Nat /\ MultBps(holders[h]) \in Nat
      BY <2>1, <2>2, StreakPays
    <3>2. holders[g].twab \in Nat /\ holders[h].twab \in Nat
      BY <2>2 DEF Holder
    <3> QED
      BY <2>1, <2>4, <3>1, <3>2, ProductMonotone
  <2>6. base(t) * weight[h] <= base(t) * weight[g] /\ base(t) * weight[h] \in Nat /\ base(t) * weight[g] \in Nat
    <3> HIDE DEF base
    <3>1. base(t) <= base(t)
      BY <2>2
    <3> QED
      BY <2>2, <2>4, <2>5, <3>1, ProductMonotone
  <2>7. Share(t, weight[h]) <= Share(t, weight[g])
    <3> HIDE DEF base
    <3> QED
      BY <2>2, <2>3, <2>6, FloorMonotone DEF Share
  <2>8. amounts[g][t] = Share(t, weight[g]) /\ amounts[h][t] = Share(t, weight[h])
    BY <1>1, <2>2 DEF AllocInv, RowInv
  <2>9. Share(t, weight[g]) \in Nat /\ Share(t, weight[h]) \in Nat
    BY <1>1, <2>2, WeightsAdd DEF AllocInv
  <2> HIDE DEF Share
  <2> QED
    BY <2>7, <2>8, <2>9
<1> QED
  BY AllocInit, AllocNext, <1>1, PTL DEF Spec

-----------------------------------------------------------------------------
(* The tree and its proofs.                                                  *)

Claimed == [account : Accounts, amounts : [Tokens -> Nat]]

(* keccak256 taken as ideal on the hashes H: no collisions, neither between leaves *)
(* nor between pairs. bytes.Compare orders them strictly.                          *)
IdealHash(H) ==
    /\ \A c \in Claimed : LeafHash(c) \in H
    /\ \A a, b \in H : Keccak(a, b) \in H
    /\ \A c, d \in Claimed : LeafHash(c) = LeafHash(d) => c = d
    /\ \A a, b, c, d \in H : Keccak(a, b) = Keccak(c, d) => a = c /\ b = d
    /\ \A a, b \in H : Less(a, b) \/ Less(b, a) \/ a = b
    /\ \A a, b \in H : Less(a, b) => ~Less(b, a)
    /\ \A a, b, c \in H : Less(a, b) /\ Less(b, c) => Less(a, c)

(* There is a tree. *)
Built == pc \in {"hash", "proof", "verify"} \/ (pc = "done" /\ claims # <<>>)

(* Every leaf has a node of its own in the tail. *)
LeavesInv ==
    /\ leafAt \in [1..Size -> (Size - 1)..(2 * Size - 2)]
    /\ \A c, d \in 1..Size : leafAt[c] = leafAt[d] => c = d

(* From this index on, every node is a leaf or hashes its children. *)
Hashed(H, from) ==
    /\ nodes \in [from..(2 * Size - 2) -> H]
    /\ \A c \in 1..Size : nodes[leafAt[c]] = Leaf(c)
    /\ \A k \in from..(Size - 2) : nodes[k] = HashPair(nodes[2 * k + 1], nodes[2 * k + 2])

TreeInv(H) ==
    /\ i \in Int
    /\ pc = "leaves" \/ Built => claims # <<>>
    /\ ~Built => leafAt = <<>>
    /\ Built => LeavesInv
    /\ pc = "hash" => i \in (-1)..(Size - 2) /\ Hashed(H, i + 1)
    /\ Built /\ pc # "hash" => Hashed(H, 0)

(* The n siblings shown so far are those of a path from the leaf of the claim that *)
(* was asked for upwards.                                                          *)
Climbs(path, n) ==
    /\ path \in [0..n -> 0..(2 * Size - 2)]
    /\ path[0] = leafAt[asked]
    /\ \A k \in 1..n : /\ path[k - 1] > 0
                       /\ path[k] = (path[k - 1] - 1) \div 2
                       /\ proof[k] = nodes[siblingIndex(path[k - 1])]

ProofInv(H) ==
    /\ ~Built \/ pc = "hash" => asked = 0 /\ shown = 0 /\ proof = <<>>
    /\ Built /\ pc # "hash" => asked \in 1..Size /\ shown \in 1..Size /\ proof \in Seq(H)
    /\ pc = "proof" => \E path : Climbs(path, Len(proof)) /\ i = path[Len(proof)]
    /\ pc = "verify" =>
          /\ i \in 1..(Len(proof) + 1) /\ computed \in H
          /\ \E path : /\ Climbs(path, Len(proof)) /\ path[Len(proof)] = 0
                       /\ computed = nodes[path[i - 1]] <=> asked = shown
    /\ ProofsVerify

RulesInv(H) == AllocInv /\ TreeInv(H) /\ ProofInv(H)

(* Different claims have different leaves. *)
LEMMA LeavesDiffer ==
    ASSUME AllocInv, Settled, NEW H, IdealHash(H)
    PROVE  /\ \A c \in 1..Size : Leaf(c) \in H
           /\ \A c, d \in 1..Size : Leaf(c) = Leaf(d) => c = d
<1>1. /\ Size \in Nat
      /\ \A c \in 1..Size : claims[c] \in 1..Len(holders)
      /\ \A c, d \in 1..Size : c < d => claims[c] < claims[d]
  BY DEF AllocInv, ClaimInv, Size, Rows
<1>2. /\ \A k \in 1..Len(holders) : holders[k].account \in Accounts /\ amounts[k] \in [Tokens -> Nat]
      /\ \A k, l \in 1..Len(holders) : k < l => holders[k].account < holders[l].account
  <2>1. \A k \in 1..Len(holders) : holders[k].account \in Accounts
    BY InputType DEF AllocInv, Holder
  <2>2. \A k \in 1..Len(holders) : amounts[k] \in [Tokens -> Nat]
    BY DEF AllocInv, RowInv, LoopInv
  <2>3. \A k, l \in 1..Len(holders) : k < l => holders[k].account < holders[l].account
    BY RulesAssumption DEF AllocInv, InputInv
  <2> QED
    BY <2>1, <2>2, <2>3
<1>3. \A c \in 1..Size : Claim(c) \in Claimed
  BY <1>1, <1>2 DEF Claim, Claimed
<1>4. ASSUME NEW c \in 1..Size, NEW d \in 1..Size, c < d
      PROVE  Claim(c) # Claim(d)
  <2>1. holders[claims[c]].account < holders[claims[d]].account
    BY <1>1, <1>2, <1>4
  <2>2. holders[claims[c]].account \in Nat /\ holders[claims[d]].account \in Nat
    BY <1>1, <1>2, RulesAssumption
  <2>3. Claim(c).account = holders[claims[c]].account /\ Claim(d).account = holders[claims[d]].account
    BY DEF Claim
  <2> QED
    BY <2>1, <2>2, <2>3
<1>5. ASSUME NEW c \in 1..Size, NEW d \in 1..Size, Leaf(c) = Leaf(d)
      PROVE  c = d
  <2>1. Claim(c) = Claim(d)
    BY <1>3, <1>5 DEF Leaf, IdealHash
  <2> QED
    BY <1>1, <1>4, <2>1
<1> QED
  BY <1>3, <1>5 DEF Leaf, IdealHash

(* The places of the leaves are the first numbers, each once. *)
LEMMA PlacesDiffer ==
    ASSUME AllocInv, Settled, NEW H, IdealHash(H)
    PROVE  /\ \A c \in 1..Size : Place(c) \in 0..(Size - 1)
           /\ \A c, d \in 1..Size : Place(c) = Place(d) => c = d
<1> DEFINE Before(c) == {d \in 1..Size : Less(Leaf(d), Leaf(c)) \/ (Leaf(d) = Leaf(c) /\ d < c)}
<1>1. Size \in Nat
  BY DEF AllocInv, ClaimInv, Size
<1>2. IsFiniteSet(1..Size) /\ Cardinality(1..Size) = Size
  BY <1>1, FS_Interval
<1>3. ASSUME NEW c \in 1..Size
      PROVE  /\ IsFiniteSet(Before(c)) /\ Place(c) = Cardinality(Before(c)) /\ Place(c) \in 0..(Size - 1)
             /\ c \notin Before(c)
  <2>1. c \notin Before(c)
    BY LeavesDiffer DEF IdealHash
  <2>2. Before(c) \in SUBSET (1..Size)
    OBVIOUS
  <2>3. Place(c) = Cardinality(Before(c))
    BY DEF Place
  <2> HIDE DEF Before
  <2>4. /\ IsFiniteSet(Before(c)) /\ Cardinality(Before(c)) <= Size
        /\ Cardinality(Before(c)) = Size => 1..Size = Before(c)
    BY <1>2, <2>2, FS_Subset
  <2>5. Cardinality(Before(c)) \in Nat
    BY <2>4, FS_CardinalityType
  <2> QED
    BY <1>1, <2>1, <2>3, <2>4, <2>5
<1>4. ASSUME NEW c \in 1..Size, NEW d \in 1..Size, d \in Before(c)
      PROVE  Place(d) # Place(c)
  <2>1. Before(d) \subseteq Before(c) /\ d \notin Before(d)
    <3>1. ASSUME NEW e \in Before(d)
          PROVE  e \in Before(c)
      <4>1. e \in 1..Size /\ Leaf(e) \in H /\ Leaf(d) \in H /\ Leaf(c) \in H
        BY <3>1, LeavesDiffer
      <4>2. Leaf(d) # Leaf(c) /\ Leaf(e) # Leaf(d)
        BY <1>3, <1>4, <3>1, <4>1, LeavesDiffer
      <4>3. Less(Leaf(d), Leaf(c)) /\ Less(Leaf(e), Leaf(d))
        BY <1>4, <3>1, <4>2
      <4> QED
        BY <4>1, <4>3 DEF IdealHash
    <3> QED
      BY <1>3, <3>1
  <2> HIDE DEF Before
  <2>2. /\ IsFiniteSet(Before(c)) /\ Before(d) \in SUBSET Before(c)
        /\ Before(c) # Before(d)
    BY <1>3, <1>4, <2>1
  <2>3. Cardinality(Before(c)) # Cardinality(Before(d))
    BY <2>2, FS_Subset
  <2> QED
    BY <1>3, <2>3
<1>5. ASSUME NEW c \in 1..Size, NEW d \in 1..Size, c # d
      PROVE  c \in Before(d) \/ d \in Before(c)
  BY <1>5, LeavesDiffer DEF IdealHash
<1> HIDE DEF Before
<1> QED
  BY <1>3, <1>4, <1>5

(* A pair hashes the same both ways round, and a hash determines the other half. *)
LEMMA PairHash ==
    ASSUME NEW H, IdealHash(H), NEW a \in H, NEW b \in H, NEW c \in H
    PROVE  /\ HashPair(a, b) \in H
           /\ HashPair(a, b) = HashPair(b, a)
           /\ HashPair(a, c) = HashPair(b, c) => a = b
<1>1. HashPair(a, b) \in H
  BY DEF IdealHash, HashPair
<1>2. HashPair(a, b) = HashPair(b, a)
  BY DEF IdealHash, HashPair
<1>3. HashPair(a, c) = HashPair(b, c) => a = b
  <2>1. HashPair(a, c) \in {Keccak(a, c), Keccak(c, a)} /\ HashPair(b, c) \in {Keccak(b, c), Keccak(c, b)}
    BY DEF HashPair
  <2>2. \A u, v, x, y \in H : Keccak(u, v) = Keccak(x, y) => u = x /\ v = y
    BY DEF IdealHash
  <2> QED
    BY <2>1, <2>2
<1> QED
  BY <1>1, <1>2, <1>3

(* The parent of a node hashes the node and its sibling. *)
LEMMA ParentHashes ==
    ASSUME NEW H, IdealHash(H), Size \in Nat, Size > 0, Hashed(H, 0),
           NEW at \in 1..(2 * Size - 2)
    PROVE  /\ (at - 1) \div 2 \in 0..(2 * Size - 2) /\ siblingIndex(at) \in 0..(2 * Size - 2)
           /\ nodes[at] \in H /\ nodes[siblingIndex(at)] \in H
           /\ nodes[(at - 1) \div 2] = HashPair(nodes[at], nodes[siblingIndex(at)])
<1> DEFINE p == (at - 1) \div 2
<1>1. p \in 0..(Size - 2)
  OBVIOUS
<1>2. \/ at = 2 * p + 1 /\ siblingIndex(at) = 2 * p + 2
      \/ at = 2 * p + 2 /\ siblingIndex(at) = 2 * p + 1
  BY DEF siblingIndex
<1> HIDE DEF p
<1>3. siblingIndex(at) \in 0..(2 * Size - 2) /\ p \in 0..(2 * Size - 2)
  BY <1>1, <1>2
<1>4. nodes[at] \in H /\ nodes[siblingIndex(at)] \in H
  BY <1>3 DEF Hashed
<1>5. nodes[p] = HashPair(nodes[2 * p + 1], nodes[2 * p + 2])
  BY <1>1 DEF Hashed
<1>6. nodes[p] = HashPair(nodes[at], nodes[siblingIndex(at)])
  BY <1>2, <1>4, <1>5, PairHash
<1> QED
  BY <1>3, <1>4, <1>6 DEF p

(* While Allocate runs there is no tree. *)
LEMMA TreeAlloc ==
    ASSUME NEW H, RulesInv(H), Weigh \/ Divide \/ Omit \/ NextLoop \/ Settle
    PROVE  TreeInv(H)' /\ ProofInv(H)'
<1>1. /\ i' \in Int /\ UNCHANGED <<nodes, leafAt, asked, shown, proof, computed>>
      /\ pc \in {"weigh", "divide", "omit"}
      /\ pc' \in {"weigh", "divide", "omit"} \/ pc' = IF claims' = <<>> THEN "done" ELSE "leaves"
  BY DEF Weigh, Divide, Omit, NextLoop, Settle, RulesInv, TreeInv, treeVars, proofVars
<1>2. ~Built /\ ~Built'
  BY <1>1 DEF Built
<1>3. leafAt' = <<>> /\ asked' = 0 /\ shown' = 0 /\ proof' = <<>>
  BY <1>1, <1>2 DEF RulesInv, TreeInv, ProofInv
<1>4. TreeInv(H)'
  BY <1>1, <1>2, <1>3 DEF TreeInv, Built
<1>5. ProofInv(H)'
  BY <1>1, <1>2, <1>3 DEF ProofInv, Built, ProofsVerify
<1> QED
  BY <1>4, <1>5

(* New places the leaves. *)
LEMMA TreeLeaves ==
    ASSUME NEW H, IdealHash(H), RulesInv(H), Leaves
    PROVE  TreeInv(H)' /\ ProofInv(H)'
<1> DEFINE tail == (Size - 1)..(2 * Size - 2)
<1>1. /\ pc = "leaves" /\ pc' = "hash" /\ i' = Size - 2
      /\ leafAt' = [c \in 1..Size |-> 2 * Size - 2 - Place(c)]
      /\ nodes' = [k \in tail |-> Leaf(CHOOSE c \in 1..Size : leafAt'[c] = k)]
      /\ UNCHANGED <<holders, amounts, claims, asked, shown, proof, computed>>
  BY DEF Leaves, inVars, rowVars, allocVars, proofVars
<1>2. Settled /\ AllocInv /\ claims # <<>> /\ ~Built
  BY <1>1 DEF Settled, RulesInv, TreeInv, Built
<1>3. Size \in Nat /\ Size > 0 /\ Size' = Size
  BY <1>1, <1>2 DEF AllocInv, ClaimInv, Size
<1>4. \A c \in 1..Size : Leaf(c)' = Leaf(c)
  BY <1>1 DEF Leaf, Claim
<1>5. /\ \A c \in 1..Size : Place(c) \in 0..(Size - 1)
      /\ \A c, d \in 1..Size : Place(c) = Place(d) => c = d
      /\ \A c \in 1..Size : Leaf(c) \in H
  BY <1>2, PlacesDiffer, LeavesDiffer
<1>6. leafAt' \in [1..Size -> tail]
  <2> HIDE DEF Place
  <2>1. \A c \in 1..Size : 2 * Size - 2 - Place(c) \in tail
    BY <1>3, <1>5
  <2> QED
    BY <1>1, <2>1
<1>7. \A c, d \in 1..Size : leafAt'[c] = leafAt'[d] => c = d
  <2> HIDE DEF Place
  <2>1. ASSUME NEW c \in 1..Size, NEW d \in 1..Size, leafAt'[c] = leafAt'[d]
        PROVE  Place(c) = Place(d)
    <3>1. 2 * Size - 2 - Place(c) = 2 * Size - 2 - Place(d)
      BY <1>1, <2>1
    <3>2. Place(c) \in Int /\ Place(d) \in Int
      BY <1>5
    <3> QED
      BY <1>3, <3>1, <3>2
  <2> QED
    BY <1>5, <2>1
<1>8. \A k \in tail : \E c \in 1..Size : leafAt'[c] = k
  <2>1. IsFiniteSet(tail) /\ Cardinality(tail) = Size /\ Cardinality(1..Size) = Size
    <3>1. Size - 1 \in Int /\ 2 * Size - 2 \in Int /\ ~(Size - 1 > 2 * Size - 2)
          /\ (2 * Size - 2) - (Size - 1) + 1 = Size /\ 1 \in Int /\ Size \in Int /\ ~(1 > Size) /\ Size - 1 + 1 = Size
      BY <1>3
    <3> QED
      BY <3>1, FS_Interval
  <2>2. leafAt' \in Injection(1..Size, tail)
    <3> HIDE DEF tail
    <3> QED
      BY <1>6, <1>7 DEF Injection, IsInjective
  <2>3. leafAt' \in Surjection(1..Size, tail)
    <3> HIDE DEF tail
    <3> QED
      BY <2>1, <2>2, FS_Injection
  <2> HIDE DEF tail
  <2> QED
    BY <2>3 DEF Surjection
<1>9. \A c \in 1..Size : nodes'[leafAt'[c]] = Leaf(c)
  <2>1. ASSUME NEW c \in 1..Size
        PROVE  (CHOOSE d \in 1..Size : leafAt'[d] = leafAt'[c]) = c
    BY <1>7
  <2> HIDE DEF tail, Leaf
  <2> QED
    BY <1>1, <1>6, <2>1
<1>10. nodes' \in [tail -> H]
  <2>1. ASSUME NEW k \in tail PROVE nodes'[k] \in H
    <3>1. PICK c \in 1..Size : leafAt'[c] = k
      BY <1>8
    <3> QED
      BY <1>5, <1>9, <3>1
  <2>2. nodes' = [k \in tail |-> nodes'[k]]
    BY <1>1
  <2> HIDE DEF tail
  <2> QED
    BY <2>1, <2>2
<1>11. TreeInv(H)'
  <2>1. i' \in Int /\ i' + 1 = Size - 1 /\ i' \in (-1)..(Size - 2)
    BY <1>1, <1>3
  <2>2. LeavesInv'
    BY <1>3, <1>6, <1>7 DEF LeavesInv
  <2>3. Hashed(H, Size - 1)'
    <3>1. (Size - 1)..(Size - 2) = {}
      BY <1>3
    <3> QED
      BY <1>3, <1>4, <1>9, <1>10, <3>1 DEF Hashed
  <2>4. Hashed(H, i + 1)'
    BY <1>3, <2>1, <2>3
  <2> QED
    BY <1>1, <1>2, <1>3, <2>1, <2>2, <2>4 DEF TreeInv, Built
<1>12. ProofInv(H)'
  BY <1>1, <1>2 DEF RulesInv, ProofInv, Built, ProofsVerify
<1> QED
  BY <1>11, <1>12

(* New hashes one more inner node. *)
LEMMA TreeHash ==
    ASSUME NEW H, IdealHash(H), RulesInv(H), Hash
    PROVE  TreeInv(H)' /\ ProofInv(H)'
<1>1. /\ pc = "hash" /\ pc' = "hash" /\ i >= 0 /\ i' = i - 1
      /\ nodes' = [k \in i..(2 * Size - 2) |->
                      IF k = i THEN HashPair(nodes[2 * i + 1], nodes[2 * i + 2]) ELSE nodes[k]]
      /\ UNCHANGED <<holders, amounts, claims, leafAt, asked, shown, proof, computed>>
  BY DEF Hash, inVars, rowVars, allocVars, proofVars
<1>2. Built /\ Built' /\ claims # <<>> /\ LeavesInv /\ i \in 0..(Size - 2) /\ Hashed(H, i + 1)
  BY <1>1 DEF RulesInv, TreeInv, Built
<1>3. Size \in Nat /\ Size' = Size /\ \A c \in 1..Size : Leaf(c)' = Leaf(c)
  BY <1>1 DEF RulesInv, AllocInv, ClaimInv, Size, Leaf, Claim
<1>4. /\ 2 * i + 1 \in (i + 1)..(2 * Size - 2) /\ 2 * i + 2 \in (i + 1)..(2 * Size - 2)
  BY <1>2, <1>3
<1>5. HashPair(nodes[2 * i + 1], nodes[2 * i + 2]) \in H
  <2>1. nodes[2 * i + 1] \in H /\ nodes[2 * i + 2] \in H
    BY <1>2, <1>4 DEF Hashed
  <2> QED
    BY <2>1, PairHash
<1>6. nodes' \in [i..(2 * Size - 2) -> H]
  <2> HIDE DEF HashPair
  <2>1. ASSUME NEW k \in i..(2 * Size - 2), k # i PROVE nodes[k] \in H
    <3>1. k \in (i + 1)..(2 * Size - 2)
      BY <1>2, <1>3, <2>1
    <3> QED
      BY <1>2, <3>1 DEF Hashed
  <2> QED
    BY <1>1, <1>5, <2>1
<1>7. \A k \in (i + 1)..(2 * Size - 2) : nodes'[k] = nodes[k]
  BY <1>1, <1>2, <1>3
<1>8. \A c \in 1..Size : nodes'[leafAt[c]] = Leaf(c)
  <2>1. \A c \in 1..Size : leafAt[c] \in (i + 1)..(2 * Size - 2)
    BY <1>2, <1>3 DEF LeavesInv
  <2> QED
    BY <1>2, <1>7, <2>1 DEF Hashed
<1>9. ASSUME NEW k \in i..(Size - 2)
      PROVE  nodes'[k] = HashPair(nodes'[2 * k + 1], nodes'[2 * k + 2])
  <2>1. 2 * k + 1 \in (i + 1)..(2 * Size - 2) /\ 2 * k + 2 \in (i + 1)..(2 * Size - 2)
    BY <1>2, <1>3
  <2>2. nodes'[2 * k + 1] = nodes[2 * k + 1] /\ nodes'[2 * k + 2] = nodes[2 * k + 2]
    BY <1>7, <2>1
  <2> HIDE DEF HashPair
  <2>3. CASE k = i
    <3>1. i \in i..(2 * Size - 2)
      BY <1>2, <1>3
    <3> QED
      BY <1>1, <2>2, <2>3, <3>1
  <2>4. CASE k # i
    <3>1. k \in (i + 1)..(Size - 2) /\ k \in (i + 1)..(2 * Size - 2)
      BY <1>2, <1>3, <2>4
    <3>2. nodes[k] = HashPair(nodes[2 * k + 1], nodes[2 * k + 2])
      BY <1>2, <3>1 DEF Hashed
    <3> QED
      BY <1>7, <2>2, <3>1, <3>2
  <2> QED
    BY <2>3, <2>4
<1>10. TreeInv(H)'
  <2>1. i' \in Int /\ i' + 1 = i /\ i' \in (-1)..(Size - 2)
    BY <1>1, <1>2, <1>3
  <2>2. LeavesInv'
    BY <1>1, <1>2, <1>3 DEF LeavesInv
  <2>3. Hashed(H, i + 1)'
    <3> HIDE DEF HashPair
    <3> QED
      BY <1>1, <1>3, <1>6, <1>8, <1>9, <2>1 DEF Hashed
  <2> QED
    BY <1>1, <1>2, <1>3, <2>1, <2>2, <2>3 DEF TreeInv, Built
<1>11. ProofInv(H)'
  BY <1>1, <1>2 DEF RulesInv, ProofInv, ProofsVerify
<1> QED
  BY <1>10, <1>11

(* Once it is built the tree stays as it is. *)
LEMMA TreeStands ==
    ASSUME NEW H, AllocInv, Built, LeavesInv, Hashed(H, 0), claims # <<>>, Built', pc' # "hash", i' \in Int,
           UNCHANGED <<holders, amounts, claims, nodes, leafAt>>
    PROVE  TreeInv(H)'
<1>1. Size' = Size /\ \A c \in 1..Size : Leaf(c)' = Leaf(c)
  BY DEF Size, Leaf, Claim
<1>2. LeavesInv'
  BY <1>1 DEF LeavesInv
<1>3. Hashed(H, 0)'
  <2> HIDE DEF HashPair
  <2> QED
    BY <1>1 DEF Hashed
<1>4. claims' # <<>>
  OBVIOUS
<1> QED
  BY <1>2, <1>3, <1>4 DEF TreeInv

(* A proof starts at the leaf of the claim it is asked for. *)
LEMMA TreeAsk ==
    ASSUME NEW H, IdealHash(H), RulesInv(H), NEW c \in 1..Size, NEW d \in 1..Size, Ask(c, d)
    PROVE  TreeInv(H)' /\ ProofInv(H)'
<1>1. /\ pc = "hash" /\ pc' = "proof" /\ i < 0 /\ i' = leafAt[c] /\ asked' = c /\ shown' = d
      /\ UNCHANGED <<holders, amounts, claims, nodes, leafAt, proof, computed>>
  BY DEF Ask, inVars, rowVars, allocVars, treeVars
<1>2. Built /\ Built' /\ claims # <<>> /\ LeavesInv /\ i = -1 /\ Hashed(H, 0) /\ proof = <<>>
  BY <1>1 DEF RulesInv, TreeInv, ProofInv, Built
<1>3. Size \in Nat /\ Size > 0 /\ Size' = Size
  BY <1>1, <1>2 DEF RulesInv, AllocInv, ClaimInv, Size
<1>4. leafAt[c] \in 0..(2 * Size - 2) /\ i' \in Int
  BY <1>1, <1>2, <1>3 DEF LeavesInv
<1>5. TreeInv(H)'
  BY <1>1, <1>2, <1>4, TreeStands DEF RulesInv
<1>6. ProofInv(H)'
  <2> DEFINE path == [k \in 0..0 |-> leafAt[c]]
  <2>1. path \in [0..0 -> 0..(2 * Size - 2)] /\ path[0] = leafAt[c]
    BY <1>4
  <2> HIDE DEF path
  <2>2. Len(proof') = 0 /\ proof' \in Seq(H)
    BY <1>1, <1>2
  <2>3. \E q : Climbs(q, Len(proof))' /\ i' = q[Len(proof')]
    <3>1. PICK q : q = path
      OBVIOUS
    <3>2. Climbs(q, Len(proof))'
      BY <1>1, <1>3, <2>1, <2>2, <3>1 DEF Climbs
    <3> QED
      BY <1>1, <2>1, <2>2, <3>1, <3>2
  <2> QED
    BY <1>1, <1>2, <1>3, <2>2, <2>3 DEF ProofInv, ProofsVerify
<1> QED
  BY <1>5, <1>6

(* A proof climbs one level, with the sibling it passes. *)
LEMMA TreeProof ==
    ASSUME NEW H, IdealHash(H), RulesInv(H), Proof
    PROVE  TreeInv(H)' /\ ProofInv(H)'
<1>1. /\ pc = "proof" /\ pc' = "proof" /\ i > 0 /\ i' = (i - 1) \div 2
      /\ proof' = Append(proof, nodes[siblingIndex(i)])
      /\ UNCHANGED <<holders, amounts, claims, nodes, leafAt, asked, shown, computed>>
  BY DEF Proof, inVars, rowVars, allocVars, treeVars
<1>2. /\ Built /\ Built' /\ claims # <<>> /\ LeavesInv /\ Hashed(H, 0)
      /\ asked \in 1..Size /\ shown \in 1..Size /\ proof \in Seq(H)
  BY <1>1 DEF RulesInv, TreeInv, ProofInv, Built
<1>3. Size \in Nat /\ Size > 0 /\ Size' = Size
  BY <1>1, <1>2 DEF RulesInv, AllocInv, ClaimInv, Size
<1>4. PICK path : Climbs(path, Len(proof)) /\ i = path[Len(proof)]
  BY <1>1 DEF RulesInv, ProofInv
<1> DEFINE n == Len(proof)
           sib == nodes[siblingIndex(i)]
           more == [k \in 0..(n + 1) |-> IF k <= n THEN path[k] ELSE (i - 1) \div 2]
<1>5. n \in Nat /\ i \in 1..(2 * Size - 2)
  <2>1. n \in Nat
    BY <1>2
  <2>2. path[n] \in 0..(2 * Size - 2)
    BY <2>1, <1>4 DEF Climbs
  <2> QED
    BY <1>1, <1>3, <1>4, <2>1, <2>2
<1>6. (i - 1) \div 2 \in 0..(2 * Size - 2) /\ sib \in H
  BY <1>2, <1>3, <1>5, ParentHashes
<1>7. /\ proof' \in Seq(H) /\ Len(proof') = n + 1 /\ proof'[n + 1] = sib
      /\ \A k \in 1..n : proof'[k] = proof[k]
  <2> HIDE DEF sib
  <2> QED
    BY <1>1, <1>2, <1>6 DEF sib
<1>8. TreeInv(H)'
  <2>1. i' \in Int
    BY <1>1, <1>6
  <2> QED
    BY <1>1, <1>2, <2>1, TreeStands DEF RulesInv
<1>9. \E q : Climbs(q, Len(proof))' /\ i' = q[Len(proof')]
  <2>1. more \in [0..(n + 1) -> 0..(2 * Size - 2)]
    BY <1>4, <1>5, <1>6 DEF Climbs
  <2>2. more[0] = leafAt[asked]
    BY <1>4, <1>5 DEF Climbs
  <2>3. ASSUME NEW k \in 1..(n + 1)
        PROVE  /\ more[k - 1] > 0 /\ more[k] = (more[k - 1] - 1) \div 2
               /\ proof'[k] = nodes[siblingIndex(more[k - 1])]
    <3>1. CASE k = n + 1
      <4>1. more[k - 1] = i /\ more[k] = (i - 1) \div 2
        BY <1>4, <1>5, <3>1
      <4> HIDE DEF more
      <4> QED
        BY <1>1, <1>7, <3>1, <4>1
    <3>2. CASE k # n + 1
      <4>1. k \in 1..n /\ more[k - 1] = path[k - 1] /\ more[k] = path[k]
        BY <1>5, <3>2
      <4>2. /\ path[k - 1] > 0 /\ path[k] = (path[k - 1] - 1) \div 2
            /\ proof[k] = nodes[siblingIndex(path[k - 1])]
        BY <1>4, <4>1 DEF Climbs
      <4> HIDE DEF more
      <4> QED
        BY <1>7, <4>1, <4>2
    <3> QED
      BY <3>1, <3>2
  <2>4. more[n + 1] = i'
    BY <1>1, <1>5
  <2>5. PICK q : q = more
    OBVIOUS
  <2> HIDE DEF more, n
  <2>6. Climbs(q, Len(proof))'
    BY <1>1, <1>3, <1>7, <2>1, <2>2, <2>3, <2>5 DEF Climbs, siblingIndex
  <2> QED
    BY <1>7, <2>4, <2>5, <2>6
<1>10. ProofInv(H)'
  BY <1>1, <1>2, <1>3, <1>7, <1>9 DEF ProofInv, ProofsVerify
<1> QED
  BY <1>8, <1>10

(* The climb is over, and its proof is shown with a claim. *)
LEMMA TreeShow ==
    ASSUME NEW H, IdealHash(H), RulesInv(H), Show
    PROVE  TreeInv(H)' /\ ProofInv(H)'
<1>1. /\ pc = "proof" /\ pc' = "verify" /\ i = 0 /\ i' = 1 /\ computed' = Leaf(shown)
      /\ UNCHANGED <<holders, amounts, claims, nodes, leafAt, asked, shown, proof>>
  BY DEF Show, inVars, rowVars, allocVars, treeVars
<1>2. /\ Built /\ Built' /\ claims # <<>> /\ LeavesInv /\ Hashed(H, 0)
      /\ asked \in 1..Size /\ shown \in 1..Size /\ proof \in Seq(H) /\ Settled /\ AllocInv
  BY <1>1 DEF RulesInv, TreeInv, ProofInv, Built, Settled
<1>3. TreeInv(H)'
  BY <1>1, <1>2, TreeStands
<1>4. PICK path : Climbs(path, Len(proof)) /\ path[Len(proof)] = 0
  BY <1>1 DEF RulesInv, ProofInv
<1>5. Len(proof) \in Nat /\ Size' = Size
  BY <1>1, <1>2 DEF Size
<1>6. Leaf(shown) \in H /\ (Leaf(shown) = Leaf(asked) <=> asked = shown)
  BY <1>2, LeavesDiffer
<1>7. path[0] = leafAt[asked] /\ nodes[path[0]] = Leaf(asked)
  BY <1>2, <1>4 DEF Climbs, Hashed
<1>8. Climbs(path, Len(proof))'
  BY <1>1, <1>4, <1>5 DEF Climbs, siblingIndex
<1>9. computed' = nodes'[path[i' - 1]] <=> asked' = shown'
  <2>1. i' - 1 = 0
    BY <1>1
  <2> HIDE DEF Leaf
  <2> QED
    BY <1>1, <1>6, <1>7, <2>1
<1>10. i' \in 1..(Len(proof') + 1) /\ computed' \in H /\ path[Len(proof')] = 0
  BY <1>1, <1>4, <1>5, <1>6
<1>11. ProofInv(H)'
  BY <1>1, <1>2, <1>5, <1>8, <1>9, <1>10 DEF ProofInv, ProofsVerify
<1> QED
  BY <1>3, <1>11

(* Verify hashes in one more sibling: it stays on the path, or off it. *)
LEMMA TreeVerify ==
    ASSUME NEW H, IdealHash(H), RulesInv(H), Verify
    PROVE  TreeInv(H)' /\ ProofInv(H)'
<1>1. /\ pc = "verify" /\ pc' = "verify" /\ i <= Len(proof) /\ i' = i + 1
      /\ computed' = HashPair(computed, proof[i])
      /\ UNCHANGED <<holders, amounts, claims, nodes, leafAt, asked, shown, proof>>
  BY DEF Verify, inVars, rowVars, allocVars, treeVars
<1>2. /\ Built /\ Built' /\ claims # <<>> /\ LeavesInv /\ Hashed(H, 0)
      /\ asked \in 1..Size /\ shown \in 1..Size /\ proof \in Seq(H) /\ AllocInv
      /\ i \in 1..(Len(proof) + 1) /\ computed \in H
  BY <1>1 DEF RulesInv, TreeInv, ProofInv, Built
<1>3. /\ Size \in Nat /\ Size > 0 /\ Size' = Size /\ Len(proof) \in Nat
      /\ i \in 1..Len(proof) /\ i' \in Int
  BY <1>1, <1>2 DEF AllocInv, ClaimInv, Size
<1>4. TreeInv(H)'
  BY <1>1, <1>2, <1>3, TreeStands
<1>5. PICK path : /\ Climbs(path, Len(proof)) /\ path[Len(proof)] = 0
                  /\ computed = nodes[path[i - 1]] <=> asked = shown
  BY <1>1 DEF RulesInv, ProofInv
<1> DEFINE at == path[i - 1]
<1>6. /\ at \in 1..(2 * Size - 2) /\ path[i] = (at - 1) \div 2 /\ proof[i] = nodes[siblingIndex(at)]
  <2>1. i - 1 \in 0..Len(proof)
    BY <1>3
  <2>2. at \in 0..(2 * Size - 2)
    BY <1>5, <2>1 DEF Climbs
  <2>3. at > 0 /\ path[i] = (at - 1) \div 2 /\ proof[i] = nodes[siblingIndex(at)]
    BY <1>3, <1>5 DEF Climbs
  <2> HIDE DEF at
  <2> QED
    BY <1>3, <2>2, <2>3
<1> HIDE DEF at
<1>7. nodes[at] \in H /\ proof[i] \in H /\ nodes[path[i]] = HashPair(nodes[at], proof[i])
  BY <1>2, <1>3, <1>6, ParentHashes
<1>8. computed' \in H /\ (computed' = nodes[path[i]] <=> computed = nodes[at])
  <2>1. HashPair(computed, proof[i]) \in H
    BY <1>2, <1>7, PairHash
  <2>2. HashPair(computed, proof[i]) = HashPair(nodes[at], proof[i]) => computed = nodes[at]
    BY <1>2, <1>7, PairHash
  <2> HIDE DEF HashPair
  <2> QED
    BY <1>1, <1>7, <2>1, <2>2
<1>9. Climbs(path, Len(proof))'
  BY <1>1, <1>3, <1>5 DEF Climbs, siblingIndex
<1>10. computed' = nodes'[path[i' - 1]] <=> asked' = shown'
  <2>1. i' - 1 = i
    BY <1>1, <1>3
  <2> QED
    BY <1>1, <1>5, <1>8, <2>1 DEF at
<1>11. i' \in 1..(Len(proof') + 1) /\ path[Len(proof')] = 0
  BY <1>1, <1>3, <1>5
<1>12. ProofInv(H)'
  BY <1>1, <1>2, <1>3, <1>8, <1>9, <1>10, <1>11 DEF ProofInv, ProofsVerify
<1> QED
  BY <1>4, <1>12

(* The verdict. *)
LEMMA TreeVerified ==
    ASSUME NEW H, IdealHash(H), RulesInv(H), Verified
    PROVE  TreeInv(H)' /\ ProofInv(H)'
<1>1. /\ pc = "verify" /\ pc' = "done" /\ i > Len(proof) /\ i' = i
      /\ UNCHANGED <<holders, amounts, claims, nodes, leafAt, asked, shown, proof, computed>>
  BY DEF Verified, inVars, rowVars, allocVars, treeVars, proofVars
<1>2. /\ Built /\ claims # <<>> /\ LeavesInv /\ Hashed(H, 0)
      /\ asked \in 1..Size /\ shown \in 1..Size /\ proof \in Seq(H) /\ AllocInv
      /\ i \in 1..(Len(proof) + 1)
  BY <1>1 DEF RulesInv, TreeInv, ProofInv, Built
<1>3. Built' /\ Size' = Size /\ i' \in Int /\ i - 1 = Len(proof)
  BY <1>1, <1>2 DEF Built, Size
<1>4. TreeInv(H)'
  BY <1>1, <1>2, <1>3, TreeStands
<1>5. computed = nodes[0] <=> asked = shown
  BY <1>1, <1>3 DEF RulesInv, ProofInv
<1>6. ProofInv(H)'
  BY <1>1, <1>2, <1>3, <1>5 DEF ProofInv, ProofsVerify, Root
<1> QED
  BY <1>4, <1>6

(* Every step keeps the invariant. *)
LEMMA RulesNext ==
    ASSUME NEW H, IdealHash(H)
    PROVE  RulesInv(H) /\ [Next]_vars => RulesInv(H)'
<1> SUFFICES ASSUME RulesInv(H), [Next]_vars PROVE RulesInv(H)'
  OBVIOUS
<1>1. AllocInv'
  BY AllocNext DEF RulesInv
<1>2. CASE Weigh \/ Divide \/ Omit \/ NextLoop \/ Settle
  BY <1>1, <1>2, TreeAlloc DEF RulesInv
<1>3. CASE Leaves \/ Hash \/ (\E c, d \in 1..Size : Ask(c, d))
  BY <1>1, <1>3, TreeLeaves, TreeHash, TreeAsk DEF RulesInv
<1>4. CASE Proof \/ Show \/ Verify \/ Verified
  BY <1>1, <1>4, TreeProof, TreeShow, TreeVerify, TreeVerified DEF RulesInv
<1>5. CASE Done \/ UNCHANGED vars
  <2>1. /\ UNCHANGED <<pc, i, holders, amounts, claims, nodes, leafAt, asked, shown, proof, computed>>
    BY <1>5 DEF Done, vars, inVars, rowVars, allocVars, treeVars, proofVars
  <2>2. Size' = Size /\ Built' = Built /\ \A c : Leaf(c)' = Leaf(c)
    BY <2>1 DEF Size, Built, Leaf, Claim
  <2>3. TreeInv(H)'
    <3> HIDE DEF Built, Leaf, HashPair
    <3> QED
      BY <2>1, <2>2 DEF RulesInv, TreeInv, LeavesInv, Hashed
  <2>4. ProofInv(H)'
    BY <2>1, <2>2 DEF RulesInv, ProofInv, Climbs, ProofsVerify, Root, siblingIndex
  <2> QED
    BY <1>1, <2>3, <2>4 DEF RulesInv
<1> QED
  BY <1>2, <1>3, <1>4, <1>5 DEF Next

(* The initial states. *)
LEMMA RulesInit == ASSUME NEW H PROVE Init => RulesInv(H)
<1> SUFFICES ASSUME Init PROVE TreeInv(H) /\ ProofInv(H)
  BY AllocInit DEF RulesInv
<1> QED
  BY DEF Init, TreeInv, ProofInv, Built, ProofsVerify

(* Allocate, New, Proof and Verify: nothing ever becomes negative, and every leaf has *)
(* a node of its own, for hashes that bytes.Compare orders and that do not collide.   *)
THEOREM RulesTypeCorrect == ASSUME NEW H, IdealHash(H) PROVE Spec => []TypeOK
<1>1. Init => RulesInv(H)
  BY RulesInit
<1>2. RulesInv(H) /\ [Next]_vars => RulesInv(H)'
  BY RulesNext
<1>3. ASSUME RulesInv(H) PROVE TypeOK
  <2>1. holders \in Seq(Holder)
    BY <1>3, InputType DEF RulesInv, AllocInv
  <2>2. asked \in 0..Size /\ shown \in 0..Size
    <3>1. Size \in Nat
      BY <1>3 DEF RulesInv, AllocInv, ClaimInv, Size
    <3> QED
      BY <1>3, <3>1 DEF RulesInv, ProofInv
  <2>3. leafAt # <<>> => LeavesInv
    BY <1>3 DEF RulesInv, TreeInv
  <2>4. pc \in {"weigh", "divide", "omit", "leaves", "hash", "proof", "verify", "done"} /\ i \in Int
    BY <1>3 DEF RulesInv, AllocInv, LoopInv, TreeInv, Settled
  <2> QED
    BY <1>3, <2>1, <2>2, <2>3, <2>4 DEF TypeOK, LeavesInv, RulesInv, AllocInv, InputInv, RowInv, ClaimInv, CarryInv
<1> QED
  BY <1>1, <1>2, <1>3, PTL DEF Spec

(* merkle: in a tree of any size the proof of a claim leads from its leaf to the Root, *)
(* and it does so for no other claim, if keccak256 has no collisions.                  *)
THEOREM TreeProvesItsClaims == ASSUME NEW H, IdealHash(H) PROVE Spec => []ProofsVerify
<1>1. Init => RulesInv(H)
  BY RulesInit
<1>2. RulesInv(H) /\ [Next]_vars => RulesInv(H)'
  BY RulesNext
<1>3. RulesInv(H) => ProofsVerify
  BY DEF RulesInv, ProofInv
<1> QED
  BY <1>1, <1>2, <1>3, PTL DEF Spec
=============================================================================
