------------------------------- MODULE Pinned -------------------------------
(***************************************************************************)
(* A run's reads of a chain that moves: Head resolves a tip once, and what *)
(* follows names blocks by number at or below it. EndBlock searches for    *)
(* the last block of an Epoch, a header at a time; Transfers reads the     *)
(* pages of LogPager and then stamps the blocks it found with their times, *)
(* in reads of their own (chain/reader.go, internal/twab/twab.go).         *)
(*                                                                         *)
(* All endpoints follow one branch, at different heights. While they are   *)
(* on different ones a cross-checked read fails, and any read may fail at  *)
(* any time here.                                                          *)
(***************************************************************************)
EXTENDS LogPager

CONSTANTS
    Endpoints,     \* at least two, so that Head reads its block again by number
    Branches,      \* the chains the endpoints may follow,
    Common,        \* which are one chain through this block
    Times,         \* the block times the chain may have, as functions of branch and block
    Contents,      \* the logs its blocks may hold, likewise
    Epochs,        \* the Epoch ids a caller may ask for
    EpochSeconds,
    MaxTime        \* the largest time, 2^63 - 1 in the code

(* Branches share what precedes the fork, and time never runs backwards. *)
Shared(f) == \A a, b \in Branches : \A n \in 0..Common : f[a][n] = f[b][n]

ASSUME PinnedAssumption ==
    /\ Endpoints # {} /\ Branches # {} /\ Common \in Block
    /\ EpochSeconds \in Nat \ {0} /\ MaxTime \in Nat /\ Epochs \subseteq Nat
    /\ Times \subseteq [Branches -> [Block -> 0..MaxTime]]
    /\ Contents \subseteq [Branches -> [Block -> Densities]]
    /\ \A f \in Times \cup Contents : Shared(f)
    /\ \A t \in Times, b \in Branches, m, n \in Block : m <= n => t[b][m] <= t[b][n]

VARIABLES
    times,      \* times[b][n]: the time of block n of branch b
    contents,   \* contents[b][n]: its logs
    branch,     \* the branch the endpoints follow
    height,     \* height[e]: the newest block endpoint e has
    op,         \* what is called after Head: "EndBlock" or "Transfers"
    level,      \* the finality asked for
    epoch,      \* EndBlock's Epoch
    pc,         \* "head", "agree", "ready", "search", "logs", "stamp", "done"
    tips,       \* tips[e]: what endpoint e gave as its tip; Unread before
    tip,        \* the block number Head settled on,
    tipTime,    \* and the time of that block
    lo, hi,     \* the bounds of EndBlock's search
    found,      \* probed[lo]
    seen,       \* seen[i]: the branch out[i] was read from
    stamps,     \* stamps[n]: the branch whose block n gave its time
    answer,     \* "none" until the call returns, then "ok" or why not
    moved       \* have the endpoints changed branch since the tip was read

chainVars == <<times, contents, branch, height>>
callVars  == <<op, level, epoch>>
headVars  == <<tips, tip, tipTime>>
findVars  == <<lo, hi, found>>
readVars  == <<seen, stamps>>
ownVars   == <<chainVars, callVars, pc, headVars, findVars, readVars, answer, moved>>
allVars   == <<vars, ownVars>>

Unread == -1

(* A block: its hash tells the branches apart beyond the fork. *)
BlockAt(b, n) == [id |-> IF n <= Common THEN "common" ELSE b, number |-> n, time |-> times[b][n]]

-----------------------------------------------------------------------------
(* The chain (external): an endpoint gains a block. Once Head has the tips, no *)
(* read depends on how far an endpoint has come.                               *)
GrowHeight(e) ==
    /\ height[e] < MaxWord /\ pc = "head"
    /\ height' = [height EXCEPT ![e] = @ + 1]
    /\ UNCHANGED <<vars, times, contents, branch, callVars, pc, headVars, findVars, readVars, answer, moved>>

(* The endpoints adopt another branch, no shorter than what they had. *)
Reorg ==
    /\ pc # "done"
    /\ \E b \in Branches \ {branch} :
          /\ branch' = b
          /\ density' = contents[b]
    /\ moved' = (moved \/ pc \notin {"head", "agree"})
    /\ UNCHANGED <<from, to, start, span, spurious, out, result>>
    /\ UNCHANGED <<times, contents, height, callVars, pc, headVars, findVars, readVars, answer>>

-----------------------------------------------------------------------------
Return(how) == pc' = "done" /\ answer' = how

(* Head.                                                                     *)

(* Mutant: every level is answered with the newest block. *)
TaggedLatest(e) == height[e]

(* What endpoint e has under the tag of the level: what is safe is before the fork. *)
Tagged(e) == IF level = "latest" THEN height[e] ELSE Min({height[e], Common})

(* eachEndpoint: one endpoint gives its tip. *)
ReadTip(e) ==
    /\ pc = "head" /\ tips[e] = Unread
    /\ tips' = [tips EXCEPT ![e] = Tagged(e)]
    /\ pc' = IF \A d \in Endpoints : tips'[d] # Unread THEN "agree" ELSE "head"
    /\ UNCHANGED <<vars, chainVars, callVars, tip, tipTime, findVars, readVars, answer, moved>>

(* Mutant: the tip of the endpoint that is ahead. *)
HighestTip == Max({tips[e] : e \in Endpoints})

LowestTip == Min({tips[e] : e \in Endpoints})

(* The lowest of them is read again by number, from all. *)
Agree ==
    /\ pc = "agree"
    /\ tip' = LowestTip
    /\ tipTime' = times[branch][LowestTip]
    /\ pc' = "ready"
    /\ UNCHANGED <<vars, chainVars, callVars, tips, findVars, readVars, answer, moved>>

-----------------------------------------------------------------------------
(* EndBlock.                                                                 *)

(* int64 arithmetic: the two's complement of n. *)
Signed(n) == ((n + MaxTime + 1) % (2 * MaxTime + 2)) - MaxTime - 1

(* WindowOf(e).End. *)
WindowEnd(e) == Signed(Signed(e * EpochSeconds) + EpochSeconds)

(* EpochNotClosed, an Epoch before the chain, or the search begins. *)
Search ==
    /\ pc = "ready" /\ op = "EndBlock"
    /\ IF tipTime < WindowEnd(epoch) \/ times[branch][0] >= WindowEnd(epoch)
       THEN Return("refused") /\ UNCHANGED findVars
       ELSE /\ pc' = "search"
            /\ lo' = 0 /\ hi' = tip
            /\ found' = BlockAt(branch, 0)
            /\ UNCHANGED answer
    /\ UNCHANGED <<vars, chainVars, callVars, headVars, readVars, moved>>

(* Mutant: a block at the boundary is taken for one before it. *)
ProbeInclusive ==
    /\ pc = "search" /\ hi - lo > 1
    /\ LET mid == lo + (hi - lo) \div 2
       IN IF times[branch][mid] <= WindowEnd(epoch)
          THEN lo' = mid /\ found' = BlockAt(branch, mid) /\ UNCHANGED hi
          ELSE hi' = mid /\ UNCHANGED <<lo, found>>
    /\ UNCHANGED <<vars, chainVars, callVars, pc, headVars, readVars, answer, moved>>

(* One header of the binary search. *)
Probe ==
    /\ pc = "search" /\ hi - lo > 1
    /\ LET mid == lo + (hi - lo) \div 2
       IN IF times[branch][mid] < WindowEnd(epoch)
          THEN lo' = mid /\ found' = BlockAt(branch, mid) /\ UNCHANGED hi
          ELSE hi' = mid /\ UNCHANGED <<lo, found>>
    /\ UNCHANGED <<vars, chainVars, callVars, pc, headVars, readVars, answer, moved>>

Found ==
    /\ pc = "search" /\ hi - lo <= 1
    /\ Return("ok")
    /\ UNCHANGED <<vars, chainVars, callVars, headVars, findVars, readVars, moved>>

-----------------------------------------------------------------------------
(* Transfers.                                                                *)

(* Every caller asks for a range that ends at or below the tip. *)
Call ==
    /\ pc = "ready" /\ op = "Transfers"
    /\ IF to <= tip /\ result = "none" THEN pc' = "logs" /\ UNCHANGED answer
                                      ELSE Return("refused")
    /\ UNCHANGED <<vars, chainVars, callVars, headVars, findVars, readVars, moved>>

(* logs reads a page from the branch the endpoints follow now. *)
ReadPage ==
    /\ pc = "logs"
    /\ Page
    /\ seen' = seen \o [i \in 1..(Len(out') - Len(out)) |-> branch]
    /\ pc' = IF result' = "ok" THEN "stamp" ELSE pc
    /\ UNCHANGED <<chainVars, callVars, headVars, findVars, stamps, answer, moved>>

(* What becomes of the call when logs did not get a page. *)
Refused ==
    /\ pc = "logs"
    /\ IF result' = "none" THEN UNCHANGED <<pc, answer>> ELSE Return("error")
    /\ UNCHANGED <<chainVars, callVars, headVars, findVars, readVars, moved>>

RefusePage == TooBig /\ Refused
FailPage   == (Spurious \/ Fails) /\ Refused

(* stamp: the distinct blocks the logs are from. *)
Wanted == {out[i] : i \in {j \in 1..Len(out) : contents[seen[j]][out[j]] > 0}}

(* Timestamps: the headers of the wanted blocks, read in any order. *)
Stamp ==
    /\ pc = "stamp"
    /\ \E n \in Wanted \ DOMAIN stamps :
          stamps' = [m \in DOMAIN stamps \cup {n} |->
                        IF m = n THEN BlockAt(branch, n) ELSE stamps[m]]
    /\ UNCHANGED <<vars, chainVars, callVars, pc, headVars, findVars, seen, answer, moved>>

Stamped ==
    /\ pc = "stamp" /\ Wanted = DOMAIN stamps
    /\ Return("ok")
    /\ UNCHANGED <<vars, chainVars, callVars, headVars, findVars, readVars, moved>>

-----------------------------------------------------------------------------
(* A header cannot be read, or the endpoints disagree about it. *)
ReadError ==
    /\ pc \in {"head", "agree", "ready", "search", "stamp"}
    /\ Return("error")
    /\ UNCHANGED <<vars, chainVars, callVars, headVars, findVars, readVars, moved>>

(* Nothing is left to do once the call has returned. *)
CallReturned == pc = "done" /\ UNCHANGED allVars

(* A run is about to ask for an Epoch's end block, or for a range of transfers. *)
PinnedInit ==
    /\ branch \in Branches
    /\ times \in Times /\ contents \in Contents /\ density = contents[branch]
    /\ Init
    /\ height \in [Endpoints -> Block]
    /\ level \in {"latest", "safe"} /\ epoch \in Epochs
    /\ op \in {"EndBlock", "Transfers"}
    /\ pc = "head" /\ answer = "none" /\ moved = FALSE
    /\ tips = [e \in Endpoints |-> Unread] /\ tip = 0 /\ tipTime = 0
    /\ lo = 0 /\ hi = 0 /\ found = BlockAt(branch, 0)
    /\ seen = <<>> /\ stamps = <<>>

Run ==
    \/ \E e \in Endpoints : ReadTip(e)
    \/ Agree
    \/ Search \/ Probe \/ Found
    \/ Call \/ ReadPage \/ RefusePage \/ Stamp \/ Stamped

PinnedNext ==
    \/ Run \/ FailPage \/ ReadError \/ CallReturned
    \/ Reorg
    \/ \E e \in Endpoints : GrowHeight(e)

PinnedSpec == PinnedInit /\ [][PinnedNext]_allVars

(* Every read is answered in the end; that one may fail instead, no fairness *)
(* forces.                                                                   *)
PinnedFairSpec == PinnedSpec /\ WF_allVars(Run)

-----------------------------------------------------------------------------
(* The shapes of the variables; the search stays inside the chain, and it never *)
(* runs with its bounds crossed, which in uint64 would be a huge distance.      *)
PinnedTypeOK ==
    /\ TypeOK
    /\ times \in [Branches -> [Block -> 0..MaxTime]]
    /\ contents \in [Branches -> [Block -> Densities]]
    /\ branch \in Branches /\ density = contents[branch]
    /\ height \in [Endpoints -> Block]
    /\ op \in {"EndBlock", "Transfers"} /\ level \in {"latest", "safe"} /\ epoch \in Epochs
    /\ pc \in {"head", "agree", "ready", "search", "logs", "stamp", "done"}
    /\ tips \in [Endpoints -> Block \cup {Unread}] /\ tip \in Block /\ tipTime \in 0..MaxTime
    /\ lo \in Block /\ hi \in lo..MaxWord
    /\ found.number = lo
    /\ seen \in Seq(Branches) /\ Len(seen) = Len(out)
    /\ DOMAIN stamps \subseteq Block
    /\ answer \in {"none", "ok", "error", "refused"} /\ moved \in BOOLEAN

(* The blocks at or below the tip are not going to change, or have not. *)
Steadfast == level = "safe" \/ ~moved

(* Narrowing does its work: a size complaint fails the read only over a block   *)
(* that holds too much on its own, unless an error that was not about size      *)
(* spent the span.                                                              *)
RefusedOnlyIfDense ==
    (result = "refused" /\ spurious = 0) => density[start] > Limit

(* EndBlock returns the last block before the Epoch closes, over any times, equal *)
(* ones at the boundary included, for every Epoch whose window fits an int64. A   *)
(* reorganisation during the search, which at `latest` may leave it between two   *)
(* branches, never makes it return a block of a later Epoch.                      *)
EndBlockIsLast ==
    (op = "EndBlock" /\ answer = "ok" /\ (epoch + 1) * EpochSeconds <= MaxTime) =>
        LET end == (epoch + 1) * EpochSeconds
        IN /\ found.time < end
           /\ Steadfast => /\ found = BlockAt(branch, found.number)
                           /\ \A n \in 0..tip : times[branch][n] < end <=> n <= found.number

(* Transfers returns the logs of the chain with the times of the chain, although *)
(* every page and every header is a read of its own: always at `safe`, and at    *)
(* `latest` unless the chain moved since Head.                                   *)
ReadsMatch ==
    (op = "Transfers" /\ answer = "ok" /\ Steadfast) =>
        /\ \A i \in 1..Len(out) : BlockAt(seen[i], out[i]) = BlockAt(branch, out[i])
        /\ \A n \in from..to : contents[branch][n] > 0 =>
               n \in DOMAIN stamps /\ stamps[n] = BlockAt(branch, n)

(* Whatever is asked for at or below the tip, every endpoint has it, for as long *)
(* as the run lasts, however far apart the endpoints are.                        *)
TipIsHeldByAll ==
    pc \notin {"head", "agree"} => \A e \in Endpoints : tip <= height[e]

(* Head and the call after it return, whatever is refused and however the chain *)
(* moves meanwhile.                                                             *)
CallReturns == <>(pc = "done")
=============================================================================
