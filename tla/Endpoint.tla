------------------------------ MODULE Endpoint ------------------------------
(***************************************************************************)
(* One JSON-RPC endpoint as the Reader's header workers use it, several at *)
(* a time: blocksByNumber (chain/reader.go) over callBatch, call and       *)
(* roundTrip (chain/rpc.go). The request ids, the pacer and the verdict    *)
(* "this endpoint takes no batches" are shared by the calls.               *)
(*                                                                         *)
(* A header is written as the number it carries. Time passes in ticks, in  *)
(* each of which the pacer earns one call. The endpoint may do anything    *)
(* until it is well; whether it takes batches is a fact about it that the  *)
(* calls can only guess at from its answers.                               *)
(***************************************************************************)
EXTENDS Integers, Sequences, FiniteSets, SequencesExt

CONSTANTS
    Calls,          \* concurrent calls of blocksByNumber
    Wanted,         \* Wanted[c]: the numbers call c asks for
    Headers,        \* the headers an endpoint may answer with
    MaxAttempts,    \* of one round trip; 5 in the code
    Capacity        \* of the pacer's bucket; 2 * HeaderBatch in the code

ASSUME EndpointAssumption ==
    /\ MaxAttempts \in Nat \ {0}
    /\ Headers \subseteq Nat \ {0}
    /\ Wanted \in [Calls -> Seq(Headers)]
    /\ Capacity \in Nat /\ \A c \in Calls : Len(Wanted[c]) \in 1..Capacity

(* A reply without a header: an error object, null, or one that does not decode. *)
NoHeader == 0

VARIABLES
    nextID,     \* endpoint.nextID: the last request id given out
    noBatch,    \* endpoint.noBatch
    batches,    \* does the endpoint take batches, when it is well
    well,       \* is the endpoint over its troubles
    relied,     \* relied[c]: was it when c began
    tokens,     \* pacer.tokens, refilled as far as now; less than zero is debt
    budget,     \* the endpoint's own limiter: the calls it would take at once
    pc,         \* pc[c]: "start", "request", "ask", "pace", "wait", "sent", "done"
    trip,       \* trip[c]: the round trip c is on is a "batch" or a "single" call
    due,        \* due[c]: the ticks c still waits for the pacer
    ids,        \* ids[c]: the ids of the requests of c's round trip
    attempt,    \* attempt[c]: the attempts of that round trip that failed
    replies,    \* replies[c]: the array that answered c's batch
    out,        \* out[c]: the headers c has
    result      \* result[c]: "none" until c returns, "ok" or why it failed

paceVars == <<tokens, budget, due>>
nature   == <<batches, well, relied>>
vars     == <<nextID, noBatch, nature, paceVars, pc, trip, ids, attempt, replies, out, result>>

Missing(c) == Len(Wanted[c]) - Len(ids[c])

(* c returns an error. *)
Fail(c, why) ==
    /\ result' = [result EXCEPT ![c] = why]
    /\ pc' = [pc EXCEPT ![c] = "done"]

(* c returns its headers. *)
Succeed(c, headers) ==
    /\ out' = [out EXCEPT ![c] = headers]
    /\ result' = [result EXCEPT ![c] = "ok"]
    /\ pc' = [pc EXCEPT ![c] = "done"]

-----------------------------------------------------------------------------
(* The endpoint is over its troubles: a throttle has passed, a gateway is back. *)
Recovers ==
    /\ ~well /\ well' = TRUE
    /\ UNCHANGED <<nextID, noBatch, batches, relied, paceVars, pc, trip, ids, attempt, replies, out, result>>

(* noBatch is read once, before the first request. *)
Begin(c) ==
    /\ pc[c] = "start"
    /\ pc' = [pc EXCEPT ![c] = IF noBatch THEN "ask" ELSE "request"]
    /\ relied' = [relied EXCEPT ![c] = well]
    /\ UNCHANGED <<nextID, noBatch, batches, well, paceVars, trip, ids, attempt, replies, out, result>>

(* request: every request of a batch takes the next id of the endpoint, and the *)
(* other calls take theirs in between.                                          *)
Request(c) ==
    /\ pc[c] = "request"
    /\ nextID' = nextID + 1
    /\ ids' = [ids EXCEPT ![c] = Append(@, nextID + 1)]
    /\ trip' = [trip EXCEPT ![c] = "batch"]
    /\ pc' = [pc EXCEPT ![c] = IF Missing(c) = 1 THEN "pace" ELSE "request"]
    /\ UNCHANGED <<noBatch, nature, paceVars, attempt, replies, out, result>>

(* A request for one header takes an id too, which nothing compares. *)
Ask(c) ==
    /\ pc[c] = "ask"
    /\ nextID' = nextID + 1
    /\ trip' = [trip EXCEPT ![c] = "single"]
    /\ pc' = [pc EXCEPT ![c] = "pace"]
    /\ attempt' = [attempt EXCEPT ![c] = 0]
    /\ UNCHANGED <<noBatch, nature, paceVars, ids, replies, out, result>>

-----------------------------------------------------------------------------
(* The pacer.                                                                *)

Requests(c) == IF trip[c] = "batch" THEN Len(Wanted[c]) ELSE 1

(* Mutant: an empty bucket is charged no further, and callers wait side by side. *)
ChargeToZero(c) ==
    /\ pc[c] = "pace"
    /\ tokens' = Max({0, tokens - Requests(c)})
    /\ due' = [due EXCEPT ![c] = Max({0, Requests(c) - tokens})]
    /\ pc' = [pc EXCEPT ![c] = "wait"]
    /\ UNCHANGED <<nextID, noBatch, nature, budget, trip, ids, attempt, replies, out, result>>

(* wait: the calls are charged, into debt if need be, and the debt is what is waited *)
(* for. A backoff of any length comes before it.                                     *)
Charge(c) ==
    /\ pc[c] = "pace"
    /\ tokens' = tokens - Requests(c)
    /\ due' = [due EXCEPT ![c] = Max({0, -tokens'})]
    /\ pc' = [pc EXCEPT ![c] = "wait"]
    /\ UNCHANGED <<nextID, noBatch, nature, budget, trip, ids, attempt, replies, out, result>>

(* The wait is over and the body is posted. *)
Send(c) ==
    /\ pc[c] = "wait" /\ due[c] = 0
    /\ budget' = budget - Requests(c)
    /\ pc' = [pc EXCEPT ![c] = "sent"]
    /\ UNCHANGED <<nextID, noBatch, nature, tokens, due, trip, ids, attempt, replies, out, result>>

(* Time passes, once every timer that has fired was seen to; both limiters refill. *)
Tick ==
    /\ \A c \in Calls : pc[c] = "wait" => due[c] > 0
    /\ tokens' = Min({Capacity, tokens + 1})
    /\ budget' = Min({Capacity, budget + 1})
    /\ due' = [c \in Calls |-> Max({0, due[c] - 1})]
    /\ UNCHANGED <<nextID, noBatch, nature, pc, trip, ids, attempt, replies, out, result>>

-----------------------------------------------------------------------------
(* How a round trip ends.                                                    *)

(* Mutant: the count of the attempts starts over. *)
BusyForever(c) ==
    /\ pc[c] = "sent"
    /\ attempt' = [attempt EXCEPT ![c] = (@ + 1) % MaxAttempts]
    /\ pc' = [pc EXCEPT ![c] = "pace"]
    /\ UNCHANGED <<nextID, noBatch, nature, paceVars, trip, ids, replies, out, result>>

(* Mutant: one attempt too many. *)
BusyOnceMore(c) ==
    /\ pc[c] = "sent"
    /\ attempt' = [attempt EXCEPT ![c] = @ + 1]
    /\ IF attempt[c] = MaxAttempts THEN Fail(c, "gave up")
       ELSE pc' = [pc EXCEPT ![c] = "pace"] /\ UNCHANGED result
    /\ UNCHANGED <<nextID, noBatch, nature, paceVars, trip, ids, replies, out>>

(* 429 or 5xx: the same body again, MaxAttempts times in all. *)
Busy(c) ==
    /\ pc[c] = "sent"
    /\ attempt' = [attempt EXCEPT ![c] = @ + 1]
    /\ IF attempt[c] + 1 = MaxAttempts THEN Fail(c, "gave up")
       ELSE pc' = [pc EXCEPT ![c] = "pace"] /\ UNCHANGED result
    /\ UNCHANGED <<nextID, noBatch, nature, paceVars, trip, ids, replies, out>>

(* The transport fails, or the body is no JSON-RPC. *)
Breaks(c) ==
    /\ pc[c] = "sent"
    /\ Fail(c, "broken")
    /\ UNCHANGED <<nextID, noBatch, nature, paceVars, trip, ids, attempt, replies, out>>

(* The caller's context ends, in a backoff, in the pacer or on the wire. What was *)
(* charged is not given back.                                                     *)
Cancelled(c) ==
    /\ pc[c] \in {"wait", "sent"} \/ (pc[c] = "pace" /\ attempt[c] > 0)
    /\ Fail(c, "cancelled")
    /\ UNCHANGED <<nextID, noBatch, nature, paceVars, trip, ids, attempt, replies, out>>

(* Mutant: only the call that marks the endpoint falls back. *)
RefusesOnce(c) ==
    /\ pc[c] = "sent"
    /\ IF trip[c] = "batch" /\ ~noBatch
       THEN noBatch' = TRUE /\ pc' = [pc EXCEPT ![c] = "ask"] /\ UNCHANGED result
       ELSE Fail(c, "refused") /\ UNCHANGED noBatch
    /\ UNCHANGED <<nextID, nature, paceVars, trip, ids, attempt, replies, out>>

(* Another HTTP status, or one error object for the whole body: the endpoint takes no *)
(* batches, or throttles in another way than by a 429. A batch so refused marks the   *)
(* endpoint and is asked for again, one header at a time.                             *)
Refuses(c) ==
    /\ pc[c] = "sent"
    /\ IF trip[c] = "batch"
       THEN noBatch' = TRUE /\ pc' = [pc EXCEPT ![c] = "ask"] /\ UNCHANGED result
       ELSE Fail(c, "refused") /\ UNCHANGED noBatch
    /\ UNCHANGED <<nextID, nature, paceVars, trip, ids, attempt, replies, out>>

(* callBatch: the reply that carries request i's id, the last one if there are *)
(* several; NoHeader if there is none or it holds no result.                   *)
Matched(c, rs) ==
    [i \in DOMAIN ids[c] |->
        LET mine == {k \in DOMAIN rs : rs[k].id = ids[c][i]}
        IN IF mine = {} THEN NoHeader ELSE rs[Max(mine)].header]

(* Mutant: the id is trusted to name the block. *)
IsAnyBlock(header, asked) == header # NoHeader

(* isBlock, and that there is a header at all. *)
IsBlock(header, asked) == header = asked

(* The batch is answered with an array, in any order, short or with repeats. *)
Array(c, rs) ==
    /\ pc[c] = "sent" /\ trip[c] = "batch"
    /\ replies' = [replies EXCEPT ![c] = rs]
    /\ IF \A i \in DOMAIN ids[c] : IsBlock(Matched(c, rs)[i], Wanted[c][i])
       THEN Succeed(c, Matched(c, rs))
       ELSE Fail(c, "bad reply") /\ UNCHANGED out
    /\ UNCHANGED <<nextID, noBatch, nature, paceVars, trip, ids, attempt>>

(* The header c's single call is for. *)
Asked(c) == Wanted[c][Len(out[c]) + 1]

(* One header is answered; the next one is a round trip of its own. *)
Single(c, header) ==
    /\ pc[c] = "sent" /\ trip[c] = "single"
    /\ IF ~IsBlock(header, Asked(c)) THEN Fail(c, "bad reply") /\ UNCHANGED out
       ELSE IF Len(out[c]) + 1 = Len(Wanted[c]) THEN Succeed(c, Append(out[c], header))
       ELSE /\ out' = [out EXCEPT ![c] = Append(@, header)]
            /\ pc' = [pc EXCEPT ![c] = "ask"] /\ UNCHANGED result
    /\ UNCHANGED <<nextID, noBatch, nature, paceVars, trip, ids, attempt, replies>>

(* Nothing is left to do once every call has returned. *)
Returned == (\A c \in Calls : pc[c] = "done") /\ UNCHANGED vars

(* The arrays an endpoint may answer c's batch with. *)
Arrays(c) ==
    SeqOf([id : Range(ids[c]), header : Headers \cup {NoHeader}], Len(Wanted[c]))

Init ==
    /\ nextID = 0 /\ noBatch = FALSE
    /\ batches \in BOOLEAN /\ well \in BOOLEAN /\ relied = [c \in Calls |-> FALSE]
    /\ tokens = Capacity /\ budget = Capacity /\ due = [c \in Calls |-> 0]
    /\ trip = [c \in Calls |-> "batch"]
    /\ pc = [c \in Calls |-> "start"]
    /\ ids = [c \in Calls |-> <<>>]
    /\ attempt = [c \in Calls |-> 0]
    /\ replies = [c \in Calls |-> <<>>]
    /\ out = [c \in Calls |-> <<>>]
    /\ result = [c \in Calls |-> "none"]

(* rs has every request's header under its id. *)
Answers(c, rs) ==
    /\ Len(rs) = Len(Wanted[c])
    /\ \A i \in DOMAIN Wanted[c] : [id |-> ids[c][i], header |-> Wanted[c][i]] \in Range(rs)

(* An endpoint that is well answers what it is asked, except for batches if it takes *)
(* none, and is busy only beyond its own budget.                                     *)
Ends(c) ==
    \/ (well => budget < 0) /\ Busy(c)
    \/ ~well /\ Breaks(c)
    \/ Cancelled(c)
    \/ (well => trip[c] = "batch" /\ ~batches) /\ Refuses(c)
    \/ /\ pc[c] = "sent" /\ trip[c] = "batch"
       /\ \E rs \in Arrays(c) : (well => batches /\ Answers(c, rs)) /\ Array(c, rs)
    \/ \E header \in Headers \cup {NoHeader} : Single(c, header) /\ (well => header = Asked(c))

Call(c) == Begin(c) \/ Request(c) \/ Ask(c) \/ Charge(c) \/ Send(c) \/ Ends(c)

Next == Tick \/ Recovers \/ Returned \/ \E c \in Calls : Call(c)

Spec == Init /\ [][Next]_vars

(* Each goroutine runs, a round trip ends one way or another, and time passes. *)
FairSpec == Spec /\ WF_vars(Tick) /\ \A c \in Calls : WF_vars(Call(c))

-----------------------------------------------------------------------------
(* The shapes of the variables; a call that failed MaxAttempts times is over. *)
TypeOK ==
    /\ nextID \in Nat /\ noBatch \in BOOLEAN
    /\ batches \in BOOLEAN /\ well \in BOOLEAN /\ relied \in [Calls -> BOOLEAN]
    /\ tokens \in Int /\ tokens <= Capacity /\ budget \in Int /\ budget <= Capacity
    /\ pc \in [Calls -> {"start", "request", "ask", "pace", "wait", "sent", "done"}]
    /\ trip \in [Calls -> {"batch", "single"}] /\ due \in [Calls -> Nat]
    /\ \A c \in Calls :
        /\ ids[c] \in Seq(1..nextID) /\ Len(ids[c]) <= Len(Wanted[c])
        /\ attempt[c] \in 0..MaxAttempts
        /\ attempt[c] = MaxAttempts => pc[c] = "done"
        /\ out[c] \in Seq(Headers) /\ Len(out[c]) <= Len(Wanted[c])
        /\ result[c] \in {"none", "ok", "gave up", "broken", "cancelled", "refused", "bad reply"}

(* Headers that are returned are the ones that were asked for, each in its place,  *)
(* whether they came in a batch or one at a time, and even if the endpoint answered *)
(* an id with some other block; and the order of a batch's replies does not matter: *)
(* an array that has every request's header under its id is a success.              *)
HeadersAsAsked ==
    \A c \in Calls :
        /\ result[c] = "ok" => out[c] = Wanted[c]
        /\ (pc[c] = "done" /\ Answers(c, replies[c])) => result[c] = "ok"

(* The pacer spends the endpoint's budget without tripping it: a limiter of the same *)
(* rate and capacity never sees more calls than it has tokens, whoever waits at the  *)
(* same time, is retried, falls back to single reads or is cancelled while waiting.  *)
BudgetKept == budget >= 0

(* No trouble outlives itself: a call begun since the endpoint is well returns its   *)
(* headers, unless its caller cancels it. Whatever earlier calls met and left behind  *)
(* (a noBatch that a throttle latched, ids, a debt at the pacer), and whichever of    *)
(* several calls finds out that there are no batches, none fails for it, and the      *)
(* calls beside it never push the endpoint beyond its budget.                         *)
ServedOnceWell ==
    \A c \in Calls : (relied[c] /\ pc[c] = "done") => result[c] \in {"ok", "cancelled"}

(* Every call returns: a busy endpoint is asked a bounded number of times. *)
Returns == \A c \in Calls : <>(pc[c] = "done")
=============================================================================
