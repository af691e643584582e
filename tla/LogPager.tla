------------------------------ MODULE LogPager ------------------------------
(***************************************************************************)
(* Reader.logs (chain/reader.go): eth_getLogs over an inclusive block      *)
(* range, in pages that narrow when an endpoint says a page is too big.    *)
(* Block numbers are uint64 values, so sums and differences wrap.          *)
(*                                                                         *)
(* The logs of one block travel together, so the result is written as the  *)
(* sequence of the blocks whose logs it holds.                             *)
(***************************************************************************)
EXTENDS Integers, Sequences, FiniteSetsExt

CONSTANTS
    MaxWord,       \* the largest block number, 2^64 - 1 in the code
    MaxSpan,       \* the span a read opens with: MaxLogRange, SparseLogRange
    Limit,         \* the most logs an endpoint returns for one query
    Densities,     \* how many logs a block may hold
    MaxSpurious    \* bound on the refusals that were not about size

ASSUME PagerAssumption ==
    /\ MaxWord \in Nat /\ MaxSpan \in 1..MaxWord
    /\ Limit \in Nat /\ MaxSpurious \in Nat
    /\ Densities \subseteq Nat

Block == 0..MaxWord

VARIABLES
    density,    \* density[b]: the logs block b holds
    from, to,   \* the range asked for
    start,      \* the first block not yet read
    span,       \* the width of a page
    spurious,   \* refusals that were not about size
    out,        \* the blocks read so far
    result      \* "none" until logs returns; "ok" or why it failed

vars == <<density, from, to, start, span, spurious, out, result>>

(* uint64 arithmetic, for one sum or difference of two words. *)
Wrap(n) == IF n < 0 THEN n + MaxWord + 1 ELSE IF n > MaxWord THEN n - MaxWord - 1 ELSE n

(* Mutant: the end measured as a sum from start, which wraps at the top. *)
PageEndSummed ==
    IF Wrap(start + span - 1) >= to THEN to ELSE Wrap(start + span - 1)

(* The last block of the page that opens at start. *)
PageEnd ==
    IF Wrap(to - start) >= span THEN Wrap(Wrap(start + span) - 1) ELSE to

(* What a query for the page would return. *)
PageLogs == MapThenSumSet(LAMBDA b : density[b], start..PageEnd)

(* from..to as a sequence; empty when it runs backwards. *)
BlocksOf(a, b) == [i \in 1..(b - a + 1) |-> a + i - 1]

-----------------------------------------------------------------------------
(* The page arrives, agreed on by every endpoint, and is appended; the step to *)
(* the next one is only taken when a block is left.                            *)
Page ==
    /\ result = "none" /\ PageLogs <= Limit
    /\ out' = out \o BlocksOf(start, PageEnd)
    /\ IF PageEnd = to
       THEN result' = "ok" /\ UNCHANGED start
       ELSE start' = Wrap(PageEnd + 1) /\ UNCHANGED result
    /\ UNCHANGED <<density, from, to, span, spurious>>

(* Mutant: a page is halved for as long as it is refused. *)
NarrowedToNothing == [span |-> span \div 2, result |-> "none"]

(* Mutant: a block that is refused is asked for again. *)
NarrowedForever == [span |-> IF span > 1 THEN span \div 2 ELSE span, result |-> "none"]

(* Mutant: the last halving is left out. *)
NarrowedToTwo ==
    IF span > 2 THEN [span |-> span \div 2, result |-> "none"]
    ELSE [span |-> span, result |-> "refused"]

(* An error the endpoint phrases as a size complaint: half the span, for the rest *)
(* of the range, or the error itself once a page is a single block.               *)
Narrowed ==
    IF span > 1 THEN [span |-> span \div 2, result |-> "none"]
    ELSE [span |-> span, result |-> "refused"]

(* The page holds more logs than the endpoint returns, *)
TooBig ==
    /\ result = "none" /\ PageLogs > Limit
    /\ span' = Narrowed.span /\ result' = Narrowed.result
    /\ UNCHANGED <<density, from, to, start, spurious, out>>

(* or the error was about something else and only reads like it: tooBig is a *)
(* heuristic over the message.                                               *)
Spurious ==
    /\ result = "none" /\ spurious < MaxSpurious
    /\ spurious' = spurious + 1
    /\ span' = Narrowed.span /\ result' = Narrowed.result
    /\ UNCHANGED <<density, from, to, start, out>>

(* Any other failure: the transport, a Disagreement, a log outside the filter. *)
Fails ==
    /\ result = "none"
    /\ result' = "error"
    /\ UNCHANGED <<density, from, to, start, span, spurious, out>>

(* The chain (external) is reorganised: the blocks not yet read, and those already *)
(* read, may hold other logs from now on.                                          *)
Moves ==
    /\ density' \in [Block -> Densities]
    /\ UNCHANGED <<from, to, start, span, spurious, out, result>>

(* Nothing is left to do once logs has returned. *)
Returned == result # "none" /\ UNCHANGED vars

Init ==
    /\ density \in [Block -> Densities]
    /\ from \in Block /\ to \in Block
    /\ start = from /\ span = MaxSpan /\ spurious = 0 /\ out = <<>>
    /\ result = IF from > to THEN "backwards" ELSE "none"

Next == Page \/ TooBig \/ Spurious \/ Fails \/ Moves \/ Returned

Spec == Init /\ [][Next]_vars

-----------------------------------------------------------------------------
(* The shapes of the variables; a page is never empty. *)
TypeOK ==
    /\ density \in [Block -> Densities]
    /\ from \in Block /\ to \in Block /\ start \in Block
    /\ span \in 1..MaxSpan /\ spurious \in 0..MaxSpurious
    /\ out \in Seq(Block)
    /\ result \in {"none", "ok", "refused", "error", "backwards"}

(* A range that was read is the range that was asked for: every block once and   *)
(* in order, also when pages were refused half way, when the chain moved between *)
(* two pages, and when the range ends at the top of the uint64 range.            *)
RangeExact ==
    result = "ok" => out = BlocksOf(from, to)
=============================================================================
