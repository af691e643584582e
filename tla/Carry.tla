------------------------------- MODULE Carry --------------------------------
(***************************************************************************)
(* The epoch Engine over the Distributor: the search for the previous Root *)
(* and the carry chain (epoch/roots.go, epoch/engine.go), and the Verdict  *)
(* on what was posted (internal/report/assess.go, cmd/nutz-verify).        *)
(*                                                                         *)
(* Every read of a run is pinned to its tip, so what the contract does     *)
(* later is not seen: a run is one step, over the state at the tip.        *)
(***************************************************************************)
EXTENDS Distributor

CONSTANT SearchSpan    \* blocks of the first page of the backwards search; 40000 in the code

ASSUME SearchAssumption == SearchSpan \in Nat \ {0}

VARIABLE report     \* what the run reported, or the empty sequence

vars == <<contract, report>>

NotFound == 0

(* Mutant: a run that stopped leaves its Verdict unset. *)
ErrorsUnset == [verdict |-> "", links |-> <<>>]

(* An error: nothing was checked. *)
Errors == [verdict |-> "INDETERMINATE", links |-> <<>>]

(* The Draw's Roots share the stream and are told apart by their kind. *)
IsEpochRoot(i) == logs[i].kind = "epoch"

(* book.stands: the ledger holds a Root, and it is this log's. *)
Stands(i) == rootOf[logs[i].id] # NoRoot /\ rootOf[logs[i].id] = logs[i].root

(* Is log i what a search below the bound asks for: previousRoot's and Latest's want. *)
Wanted(i, bound) == IsEpochRoot(i) /\ logs[i].id < bound /\ Stands(i)

(* searchBack's look at log i: it is found if it is wanted, and previousRoot's bound *)
(* sinks to an Epoch below it whose Root does not stand.                             *)
Look(i, sofar, sinks) ==
    IF Wanted(i, sofar.bound) THEN [log |-> i, bound |-> sofar.bound]
    ELSE IF sinks /\ IsEpochRoot(i) /\ logs[i].id < sofar.bound
    THEN [log |-> NotFound, bound |-> logs[i].id]
    ELSE sofar

(* One page of searchBack: the logs of the blocks lo..hi, newest first, up to the first *)
(* that is wanted.                                                                      *)
Page(hi, lo, bound, sinks) ==
    LET Looked(i, sofar) == IF sofar.log # NotFound \/ logs[i].block \notin lo..hi THEN sofar
                            ELSE Look(i, sofar, sinks)
        f[k \in 0..Len(logs)] ==
            IF k = 0 THEN [log |-> NotFound, bound |-> bound]
            ELSE Looked(Len(logs) + 1 - k, f[k - 1])
    IN f[Len(logs)]

(* Where the page that ends at hi begins. *)
PageFloor(hi, span) == IF hi > span THEN hi - span ELSE 0

(* Mutant: a block between two pages is not read. *)
NextPageGap(lo) == lo - 2

(* Where the page below one that begins at lo ends. *)
NextPage(lo) == lo - 1

(* searchBack's loop body: a page, unless a log was found or the last page was read. *)
Searched(sofar, sinks) ==
    IF sofar.log # NotFound \/ sofar.hi < 0 THEN sofar
    ELSE LET lo   == PageFloor(sofar.hi, sofar.span)
             page == Page(sofar.hi, lo, sofar.bound, sinks)
         IN [hi |-> NextPage(lo), span |-> 2 * sofar.span, bound |-> page.bound, log |-> page.log]

(* searchBack: pages of doubling width from the tip down to the deploy block. *)
SearchBack(bound, sinks) ==
    LET f[n \in 0..(height + 1)] ==
            IF n = 0 THEN [hi |-> height, span |-> SearchSpan, bound |-> bound, log |-> NotFound]
            ELSE Searched(f[n - 1], sinks)
    IN f[height + 1].log

PreviousRoot(target) == SearchBack(target, TRUE)

(* Latest wants any standing Root. *)
Latest == SearchBack(MaxEpoch + 1, FALSE)

(* standingRoots: the whole stream in block order, by Epoch. *)
StandingRoots(last) ==
    LET f[i \in 0..Len(logs)] ==
            IF i = 0 THEN [e \in Epochs |-> NotFound]
            ELSE IF ~IsEpochRoot(i) \/ logs[i].id >= last THEN f[i - 1]
            ELSE [f[i - 1] EXCEPT ![logs[i].id] = IF Stands(i) THEN i ELSE NotFound]
    IN f[Len(logs)]

(* standingRoot of the target: its last log after the Epoch's end block, which has *)
(* to be the ledger's Root; "error" when the two sources do not agree.             *)
StandingRoot(e) ==
    LET found == {i \in DOMAIN logs :
                    IsEpochRoot(i) /\ logs[i].id = e /\ logs[i].block > endBlock[e]}
    IN IF rootOf[e] = NoRoot THEN [ok |-> TRUE, log |-> NotFound]
       ELSE IF found = {} \/ (found # {} /\ ~Stands(Max(found))) THEN [ok |-> FALSE, log |-> NotFound]
       ELSE [ok |-> TRUE, log |-> Max(found)]

-----------------------------------------------------------------------------
(* Engine.compute: the rules over one Epoch, over the posted carryIn when a Root *)
(* stands and over the expected one otherwise.                                   *)
Recompute(e, log, expected) ==
    LET carryIn == IF log = NotFound THEN expected ELSE logs[log].carryIn
        base    == funded[e] + carryIn
    IN [id |-> e, log |-> log, expected |-> expected, carryIn |-> carryIn,
        root |-> RootOver(e, base), totals |-> Allocated(e, base),
        carryOut |-> base - Allocated(e, base)]

(* carryOver: the funding of every Epoch in [from, to). *)
CarryOver(carry, from, to) == carry + Total(funded, from, to - 1)

(* expectedCarry: one link, or everything since deploy. *)
ExpectedCarry(target) ==
    LET p == PreviousRoot(target)
    IN IF p = NotFound THEN CarryOver(0, 1, target)
       ELSE CarryOver(Recompute(logs[p].id, p, logs[p].carryIn).carryOut, logs[p].id + 1, target)

Compute(target) == <<Recompute(target, StandingRoot(target).log, ExpectedCarry(target))>>

(* Mutant: the funding of a passed-over Epoch is dropped. *)
WalkedLossy(e, log, sofar) ==
    IF log = NotFound THEN sofar
    ELSE LET link == Recompute(e, log, sofar.carry)
         IN [carry |-> link.carryOut, links |-> Append(sofar.links, link)]

(* The Walk's loop over one Epoch before the target. *)
Walked(e, log, sofar) ==
    IF log = NotFound THEN [sofar EXCEPT !.carry = @ + funded[e]]
    ELSE LET link == Recompute(e, log, sofar.carry)
         IN [carry |-> link.carryOut, links |-> Append(sofar.links, link)]

(* Engine.Walk: every rooted Epoch from deploy, and the target. *)
Walk(target) ==
    LET standing == StandingRoots(target)
        f[e \in 0..MaxEpoch] ==
            IF e = 0 THEN [carry |-> 0, links |-> <<>>] ELSE Walked(e, standing[e], f[e - 1])
        sofar == f[target - 1]
    IN Append(sofar.links, Recompute(target, StandingRoot(target).log, sofar.carry))

-----------------------------------------------------------------------------
(* Mutant: the carry is left to the contract. *)
FailsPostedThree(r) ==
    LET posted == logs[r.log]
    IN {name \in {"root", "totals"} :
            IF name = "root" THEN r.root # posted.root ELSE r.totals # posted.totals}

(* report.Assess: the names of the Assertions that fail, with no Expectation as *)
(* NoRoot. Lines with nothing to compare never fail.                            *)
FailsPosted(r) ==
    LET posted == logs[r.log]
    IN {name \in {"root", "totals", "cap", "carryIn"} :
            CASE name = "root"    -> r.root # posted.root
              [] name = "totals"  -> r.totals # posted.totals
              [] name = "cap"     -> posted.totals > funded[r.id] + posted.carryIn
              [] name = "carryIn" -> r.expected # posted.carryIn}

Judged(failing) == IF failing = {} THEN "MATCH" ELSE "MISMATCH"

(* Mutant: an Epoch whose Root is not up yet is fine. *)
AssessHasty(r, expect) ==
    IF r.log # NotFound
    THEN Judged(FailsPosted(r) \cup
                IF expect \in {NoRoot, logs[r.log].root} THEN {} ELSE {"expected"})
    ELSE Judged(IF expect \in {NoRoot, r.root} THEN {} ELSE {"root"})

(* Mutant: a passed-over Epoch is judged without the Expectation. *)
AssessPassedOver(r, expect) ==
    IF r.log # NotFound
    THEN Judged(FailsPosted(r) \cup
                IF expect \in {NoRoot, logs[r.log].root} THEN {} ELSE {"expected"})
    ELSE IF skipped[r.id] THEN Judged(IF r.root # NoRoot THEN {"root"} ELSE {})
    ELSE IF expect # NoRoot THEN Judged(IF r.root # expect THEN {"root"} ELSE {})
    ELSE IF r.root # NoRoot THEN "INDETERMINATE" ELSE "MATCH"

Assess(r, expect) ==
    IF r.log # NotFound
    THEN Judged(FailsPosted(r) \cup
                IF expect \in {NoRoot, logs[r.log].root} THEN {} ELSE {"expected"})
    ELSE IF skipped[r.id]
    THEN Judged((IF r.root # NoRoot THEN {"root", "totals"} ELSE {}) \cup
                IF expect # NoRoot THEN {"expected"} ELSE {})
    ELSE IF expect # NoRoot
    THEN Judged((IF r.root # expect THEN {"root"} ELSE {}) \cup
                IF r.totals > funded[r.id] + r.expected THEN {"cap"} ELSE {})
    ELSE IF r.root # NoRoot THEN "INDETERMINATE" ELSE "MATCH"

(* Worst: INDETERMINATE outranks MISMATCH. *)
Worst(verdicts) ==
    IF "INDETERMINATE" \in verdicts THEN "INDETERMINATE"
    ELSE IF "MISMATCH" \in verdicts THEN "MISMATCH" ELSE "MATCH"

(* Mutant: the target's Verdict is the run's. *)
ReportedLast(links, expect) ==
    [verdict |-> Assess(links[Len(links)], expect), links |-> links]

(* verifier.epoch: the Expectation is for the target, not for the links before it. *)
Reported(links, expect) ==
    [verdict |-> Worst({Assess(links[i], IF i = Len(links) THEN expect ELSE NoRoot) :
                            i \in DOMAIN links}),
     links |-> links]

(* run, for one Epoch: one that predates the Distributor or has not closed at the *)
(* tip is an error, and so are two sources that disagree.                         *)
Outcome(target, chain, expect) ==
    IF target \notin 1..(now - 1) \/ (target \in 1..(now - 1) /\ ~StandingRoot(target).ok) THEN Errors
    ELSE Reported(IF chain THEN Walk(target) ELSE Compute(target), expect)

Report(target, chain, expect, outcome) ==
    [target |-> target, chain |-> chain, expect |-> expect,
     verdict |-> outcome.verdict, links |-> outcome.links]

Run(target, chain, expect) ==
    /\ report = <<>>
    /\ report' = <<Report(target, chain, expect, Outcome(target, chain, expect))>>
    /\ UNCHANGED contract

(* The default: the Epoch of the latest standing Root, if any. *)
RunLatest(chain) ==
    /\ report = <<>>
    /\ report' = IF Latest = NotFound
                 THEN <<Report(0, chain, NoRoot, Errors)>>
                 ELSE <<Report(logs[Latest].id, chain, NoRoot, Outcome(logs[Latest].id, chain, NoRoot))>>
    /\ UNCHANGED contract

(* The tip of the run is the last block considered. *)
Reporting == report # <<>> /\ UNCHANGED vars

Init == InitContract /\ report = <<>>

Next ==
    \/ report = <<>> /\ Move /\ UNCHANGED report
    \/ \E chain \in BOOLEAN : RunLatest(chain)
    \/ \E target \in Epochs \cup {0}, chain \in BOOLEAN :
        \E expect \in {NoRoot, -1} \cup {RootOver(e, funded[e] + Owed(e)) : e \in Epochs \cap {target}} :
            Run(target, chain, expect)
    \/ Reporting

Spec == Init /\ [][Next]_vars

-----------------------------------------------------------------------------
Done == report # <<>>
R    == report[1]
Last == R.links[Len(R.links)]

(* The shapes of the variables that carry the argument. *)
TypeOK ==
    /\ now \in 1..(MaxEpoch + 1) /\ mark \in 0..MaxEpoch
    /\ Len(logs) <= MaxLogs /\ \A i \in DOMAIN logs : logs[i].block <= height
    /\ Done => /\ R.target \in 0..MaxEpoch
               /\ R.verdict \in {"MATCH", "MISMATCH", "INDETERMINATE"}
               /\ R.verdict # "INDETERMINATE" => R.links # <<>>

(* A Root passes exactly if it was right when it was posted: the ledger read at the  *)
(* tip, and the previous Root found from the tip, give the answer the chain gave at  *)
(* the Root's own block, over Voids, re-posts, late posts and the Draw's logs.       *)
RootJudgedAsPosted ==
    (Done /\ R.links # <<>> /\ ~R.chain /\ Last.log # NotFound /\ R.expect = NoRoot)
    => (R.verdict = "MATCH" <=> logs[Last.log].fair)

(* The two reads of the carry agree: one link found by searching back from the tip,  *)
(* and the whole chain walked from deploy, expect the same carryIn of the target.    *)
WalkAgreesWithCompute ==
    (Done /\ R.links # <<>>) => Last.expected = ExpectedCarry(R.target) /\ Last.expected = Owed(R.target)

(* A Walk that matches accounts for everything: what was funded since deploy is what *)
(* the Roots commit to and what the target leaves.                                   *)
MatchedWalkConserves ==
    (Done /\ R.chain /\ R.verdict = "MATCH")
    => Total(funded, 1, R.target)
        = Last.carryOut + Total([i \in DOMAIN R.links |-> R.links[i].totals], 1, Len(R.links))

(* The Signer's exit 0: an expected Root is vouched for only if the rules give it,   *)
(* over the carry the chain left, and never once it was passed over.                 *)
ExpectationVouchedFor ==
    (Done /\ R.expect # NoRoot /\ R.verdict = "MATCH")
    => /\ R.expect = RootOver(R.target, funded[R.target] + Owed(R.target))
       /\ ~skipped[R.target]

(* Nothing unfinished passes: without an Expectation, a match means that a Root      *)
(* stands or that the rules give none.                                               *)
UnpostedIsNoMatch ==
    (Done /\ R.expect = NoRoot /\ R.verdict = "MATCH")
    => \/ rootOf[R.target] # NoRoot
       \/ RootOver(R.target, funded[R.target] + Owed(R.target)) = NoRoot

(* The default finds the Root of the last Epoch that has one, by its current log,    *)
(* whatever was voided, re-posted or logged after it.                                *)
LatestIsLatest ==
    IF Standing = {} THEN Latest = NotFound
    ELSE Latest # NotFound /\ logs[Latest] = LogOf(Max(Standing))
=============================================================================
