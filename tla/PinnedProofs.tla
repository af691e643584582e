---------------------------- MODULE PinnedProofs ----------------------------
(***************************************************************************)
(* The paging of Reader.logs is exact for every width of the word, every   *)
(* opening span, whatever the endpoints refuse and however the chain moves *)
(* between two pages.                                                      *)
(*                                                                         *)
(* The reads of a run implement that pager: Transfers, called after Head   *)
(* while the chain moves under it, takes only the pager's steps, so what   *)
(* is proved of LogPager holds of the run. EndBlock and Head follow.       *)
(***************************************************************************)
EXTENDS Pinned, SequenceTheorems, WellFoundedInduction, TLAPS

(* The pager alone (LogPager). *)

(* While a read is under way, what it holds is the range up to start. *)
ReadSoFar ==
    /\ result = "none" => from <= start /\ start <= to /\ out = BlocksOf(from, start - 1)
    /\ result = "ok" => out = BlocksOf(from, to)

PagerInv == TypeOK /\ ReadSoFar

(* A page begins at start, ends inside the range, and its end did not wrap. *)
LEMMA PageEndBounds ==
    ASSUME TypeOK, start <= to
    PROVE  PageEnd \in Int /\ start <= PageEnd /\ PageEnd <= to
BY PagerAssumption DEF TypeOK, PageEnd, Wrap, Block

(* A range and the range that follows it make one range. *)
LEMMA BlocksOfJoin ==
    ASSUME NEW a \in Int, NEW b \in Int, NEW c \in Int, a <= b, b <= c + 1
    PROVE  BlocksOf(a, b - 1) \o BlocksOf(b, c) = BlocksOf(a, c)
<1> DEFINE p == BlocksOf(a, b - 1)
           q == BlocksOf(b, c)
<1>1. p \in Seq(Int) /\ Len(p) = b - a /\ q \in Seq(Int) /\ Len(q) = c - b + 1
  BY DEF BlocksOf
<1>2. BlocksOf(a, c) \in Seq(Int) /\ Len(BlocksOf(a, c)) = c - a + 1
  BY DEF BlocksOf
<1>3. /\ \A i \in 1..(b - a) : p[i] = a + i - 1
      /\ \A i \in 1..(c - b + 1) : q[i] = b + i - 1
      /\ \A i \in 1..(c - a + 1) : BlocksOf(a, c)[i] = a + i - 1
  BY DEF BlocksOf
<1> HIDE DEF p, q
<1>4. p \o q \in Seq(Int) /\ Len(p \o q) = c - a + 1
  BY <1>1
<1>5. ASSUME NEW i \in 1..(c - a + 1)
      PROVE  (p \o q)[i] = BlocksOf(a, c)[i]
  BY <1>1, <1>3
<1>6. p \o q = BlocksOf(a, c)
  BY <1>2, <1>4, <1>5, SeqEqual
<1> QED
  BY <1>6 DEF p, q

(* The blocks of a range that lies in the word are block numbers. *)
LEMMA BlocksOfType ==
    ASSUME NEW a \in Block, NEW b \in Block
    PROVE  BlocksOf(a, b) \in Seq(Block)
BY PagerAssumption DEF BlocksOf, Block

-----------------------------------------------------------------------------
(* The initial states. *)
LEMMA InitPager == Init => PagerInv
<1> SUFFICES ASSUME Init PROVE PagerInv
  OBVIOUS
<1>1. TypeOK
  BY PagerAssumption DEF Init, TypeOK
<1>2. ReadSoFar
  BY PagerAssumption, <1>1 DEF Init, ReadSoFar, TypeOK, Block, BlocksOf
<1> QED
  BY <1>1, <1>2 DEF PagerInv

(* A page that arrives continues the range, and completes it when it is the last. *)
LEMMA PageStep ==
    ASSUME PagerInv, Page
    PROVE  PagerInv'
<1>1. TypeOK /\ result = "none" /\ from <= start /\ start <= to /\ out = BlocksOf(from, start - 1)
  BY DEF PagerInv, ReadSoFar, Page
<1>2. PageEnd \in Int /\ start <= PageEnd /\ PageEnd <= to
  BY <1>1, PageEndBounds
<1>3. PageEnd \in Block /\ start \in Block /\ from \in Block /\ to \in Block
  BY <1>1, <1>2, PagerAssumption DEF TypeOK, Block
<1>4. out' = BlocksOf(from, PageEnd)
  <2>1. BlocksOf(from, start - 1) \o BlocksOf(start, PageEnd) = BlocksOf(from, PageEnd)
    <3>1. from \in Int /\ start \in Int /\ start <= PageEnd + 1
      BY <1>2, <1>3, PagerAssumption DEF Block
    <3> HIDE DEF PageEnd, BlocksOf
    <3> QED
      BY <1>1, <1>2, <3>1, BlocksOfJoin
  <2> QED
    BY <1>1, <2>1 DEF Page
<1>5. out' \in Seq(Block)
  BY <1>3, <1>4, BlocksOfType
<1>6. CASE PageEnd = to
  BY <1>1, <1>3, <1>4, <1>5, <1>6 DEF Page, PagerInv, TypeOK, ReadSoFar
<1>7. CASE PageEnd # to
  <2>1. PageEnd + 1 \in Block /\ PageEnd + 1 <= to
    BY <1>2, <1>3, <1>7, PagerAssumption DEF Block
  <2>2. start' = PageEnd + 1 /\ result' = "none"
    BY <1>1, <1>7, <2>1, PagerAssumption DEF Page, Wrap, Block
  <2>3. out' = BlocksOf(from, start' - 1) /\ from <= start' /\ start' <= to
    BY <1>1, <1>2, <1>3, <1>4, <2>1, <2>2, PagerAssumption DEF Block
  <2> QED
    BY <1>1, <1>3, <1>5, <2>1, <2>2, <2>3 DEF Page, PagerInv, TypeOK, ReadSoFar
<1> QED
  BY <1>6, <1>7

(* A refusal changes the span and nothing that has been read. *)
LEMMA NarrowStep ==
    ASSUME PagerInv, result = "none", TooBig \/ Spurious
    PROVE  PagerInv'
<1>1. Narrowed.span \in 1..MaxSpan /\ Narrowed.result \in {"none", "refused"}
  BY PagerAssumption DEF Narrowed, PagerInv, TypeOK
<1> QED
  BY <1>1, PagerAssumption DEF TooBig, Spurious, PagerInv, TypeOK, ReadSoFar

(* Every step keeps the invariant. *)
LEMMA NextPager == PagerInv /\ [Next]_vars => PagerInv'
<1> SUFFICES ASSUME PagerInv, [Next]_vars PROVE PagerInv'
  OBVIOUS
<1>1. CASE Page
  BY <1>1, PageStep
<1>2. CASE TooBig \/ Spurious
  BY <1>2, NarrowStep DEF TooBig, Spurious
<1>3. CASE Fails
  BY <1>3 DEF Fails, PagerInv, TypeOK, ReadSoFar
<1>4. CASE Moves
  BY <1>4 DEF Moves, PagerInv, TypeOK, ReadSoFar
<1>5. CASE Returned \/ UNCHANGED vars
  BY <1>5 DEF Returned, vars, PagerInv, TypeOK, ReadSoFar, Block, PageEnd
<1> QED
  BY <1>1, <1>2, <1>3, <1>4, <1>5 DEF Next

(* Reader.logs: a range that is read without an error is exactly the range asked  *)
(* for, at every word width and opening span and under any pattern of refusals.   *)
THEOREM PagesAreTheRange == Spec => []RangeExact
<1>1. PagerInv => RangeExact
  BY DEF PagerInv, ReadSoFar, RangeExact
<1> QED
  BY InitPager, NextPager, <1>1, PTL DEF Spec

(* Reader.logs: the span never reaches zero and start never leaves the word. *)
THEOREM PagerTypeCorrect == Spec => []TypeOK
<1>1. PagerInv => TypeOK
  BY DEF PagerInv
<1> QED
  BY InitPager, NextPager, <1>1, PTL DEF Spec

-----------------------------------------------------------------------------
(* The run. *)

(* The chain that is read is one the constants allow. *)
ChainInv == branch \in Branches /\ contents \in Contents

(* A step of the call that reads no page leaves the pager alone. *)
LEMMA OtherStepsStutter ==
    ASSUME \/ \E e \in Endpoints : ReadTip(e) \/ GrowHeight(e)
           \/ Agree \/ Search \/ Probe \/ Found \/ Call \/ Stamp \/ Stamped
           \/ ReadError \/ CallReturned
    PROVE  UNCHANGED <<vars, branch, contents>>
BY DEF ReadTip, GrowHeight, Agree, Search, Probe, Found, Call, Stamp, Stamped, ReadError, CallReturned,
   allVars, ownVars, chainVars

(* A page that is read, refused or lost is the pager's own step. *)
LEMMA PageStepsPage ==
    ASSUME ReadPage \/ RefusePage \/ FailPage
    PROVE  (Page \/ TooBig \/ Spurious \/ Fails) /\ UNCHANGED <<branch, contents>>
BY DEF ReadPage, RefusePage, FailPage, Refused, chainVars

(* A reorganisation changes what the blocks hold to something a block may hold. *)
LEMMA ReorgMoves ==
    ASSUME ChainInv, Reorg
    PROVE  Moves /\ ChainInv'
<1>1. PICK b \in Branches : branch' = b /\ density' = contents[b]
  BY DEF Reorg
<1>2. contents[b] \in [Block -> Densities]
  BY PinnedAssumption DEF ChainInv
<1> QED
  BY <1>1, <1>2 DEF Reorg, Moves, ChainInv

(* Every step of a run is a step of the pager, or leaves the pager alone. *)
LEMMA StepIsPagers ==
    ASSUME ChainInv, [PinnedNext]_allVars
    PROVE  [Next]_vars /\ ChainInv'
<1>1. CASE \/ \E e \in Endpoints : ReadTip(e) \/ GrowHeight(e)
           \/ Agree \/ Search \/ Probe \/ Found \/ Call \/ Stamp \/ Stamped
           \/ ReadError \/ CallReturned
  BY <1>1, OtherStepsStutter DEF ChainInv
<1>2. CASE ReadPage \/ RefusePage \/ FailPage
  BY <1>2, PageStepsPage DEF ChainInv, Next
<1>3. CASE Reorg
  BY <1>3, ReorgMoves DEF Next
<1>4. CASE UNCHANGED allVars
  BY <1>4 DEF allVars, ownVars, chainVars, ChainInv
<1> QED
  BY <1>1, <1>2, <1>3, <1>4 DEF PinnedNext, Run

(* A run of Head and of the call after it, with the chain moving and any read    *)
(* failing, implements Reader.logs as LogPager specifies it.                     *)
THEOREM RunImplementsPager == PinnedSpec => Spec
<1>1. PinnedInit => Init /\ ChainInv
  BY DEF PinnedInit, ChainInv
<1>2. ChainInv /\ [PinnedNext]_allVars => [Next]_vars /\ ChainInv'
  BY StepIsPagers
<1> QED
  BY <1>1, <1>2, PTL DEF PinnedSpec, Spec

(* Whatever the endpoints refuse and however the chain moves between two pages, a *)
(* range that a run reads without an error is exactly the range it asked for.     *)
THEOREM RunReadsTheRange == PinnedSpec => []RangeExact
BY RunImplementsPager, PagesAreTheRange, PTL

-----------------------------------------------------------------------------
(* The inductive invariant of a run.                                          *)

(* What each phase is for, and that an answer is given once. *)
PhaseInv ==
    /\ answer = "none" <=> pc # "done"
    /\ pc = "search" => op = "EndBlock"
    /\ pc \in {"logs", "stamp"} => op = "Transfers"
    /\ result = "refused" => pc = "done"

(* A tip that was given is held by who gave it, and is settled if that was asked for. *)
TipInv ==
    /\ \A e \in Endpoints : tips[e] # Unread => /\ tips[e] <= height[e]
                                                /\ level = "safe" => tips[e] <= Common
    /\ pc = "agree" => \A e \in Endpoints : tips[e] # Unread
    /\ \A e \in Endpoints : tip <= height[e]
    /\ level = "safe" => tip <= Common
    /\ (pc = "ready" /\ Steadfast) => tipTime = times[branch][tip]

(* lo is a block before the boundary and hi one at or after it. *)
SearchInv ==
    (pc = "search" \/ (op = "EndBlock" /\ answer = "ok")) =>
        /\ found.time < WindowEnd(epoch)
        /\ Steadfast => /\ found = BlockAt(branch, lo)
                        /\ lo < hi /\ hi <= tip
                        /\ times[branch][hi] >= WindowEnd(epoch)
        /\ answer = "ok" => hi - lo <= 1

(* What was read is settled, or was read from the branch that is followed still. *)
ReadInv ==
    /\ pc \in {"head", "agree", "ready"} => out = <<>> /\ DOMAIN stamps = {}
    /\ pc \in {"logs", "stamp"} => to <= tip
    /\ pc = "stamp" => result = "ok"
    /\ level = "safe" => \A i \in 1..Len(out) : out[i] <= Common
    /\ ~moved => \A i \in 1..Len(out) : seen[i] = branch
    /\ \A n \in DOMAIN stamps : \E i \in 1..Len(out) : n = out[i]
    /\ Steadfast => \A n \in DOMAIN stamps : stamps[n] = BlockAt(branch, n)
    /\ (op = "Transfers" /\ answer = "ok") => result = "ok" /\ Wanted = DOMAIN stamps

RunInv ==
    /\ times \in Times /\ contents \in Contents
    /\ PagerInv /\ PinnedTypeOK
    /\ PhaseInv /\ TipInv /\ SearchInv /\ ReadInv /\ RefusedOnlyIfDense

-----------------------------------------------------------------------------
(* The operators of the model.                                                *)

(* A set of naturals that is not empty has a least element, and Min is it. *)
LEMMA MinIsLeast ==
    ASSUME NEW S \in SUBSET Nat, S # {}
    PROVE  Min(S) \in S /\ \A y \in S : Min(S) <= y
<1>1. \E x \in S : \A y \in S : ~ (<<y, x>> \in OpToRel(<, Nat))
  BY NatLessThanWellFounded, WFMin
<1>2. \E x \in S : \A y \in S : ~ (y < x)
  BY <1>1, Zenon DEF OpToRel
<1>3. \E x \in S : \A y \in S : x =< y
  BY <1>2
<1> QED
  BY <1>3 DEF Min

(* The sum over one block is what that block holds. *)
LEMMA SumOfOne ==
    ASSUME NEW f, NEW n, f[n] \in Int
    PROVE  MapThenSumSet(LAMBDA b : f[b], {n}) = f[n]
<1> DEFINE Iter(g) == g = [s \in SUBSET {n} |->
                              IF s = {} THEN 0
                              ELSE LET x == CHOOSE x \in s : TRUE IN f[x] + g[s \ {x}]]
           h == [s \in SUBSET {n} |-> IF s = {} THEN 0 ELSE f[n]]
<1>1. Iter(h)
  <2>1. ASSUME NEW s \in SUBSET {n}, s # {}
        PROVE  s = {n} /\ (CHOOSE x \in s : TRUE) = n
    BY <2>1
  <2> QED
    BY <2>1
<1>2. Iter(CHOOSE g : Iter(g))
  BY <1>1
<1>3. MapThenSumSet(LAMBDA b : f[b], {n}) = (CHOOSE g : Iter(g))[{n}]
  BY DEF MapThenSumSet, MapThenFoldSet
<1> HIDE DEF Iter
<1>4. PICK g : Iter(g) /\ MapThenSumSet(LAMBDA b : f[b], {n}) = g[{n}]
  BY <1>2, <1>3
<1>5. (CHOOSE x \in {n} : TRUE) = n
  OBVIOUS
<1>6. g[{n}] = f[n] + g[{}] /\ g[{}] = 0
  BY <1>4, <1>5 DEF Iter
<1> QED
  BY <1>4, <1>6

(* A page of one block is the block at start. *)
LEMMA PageOfOne ==
    ASSUME PagerInv, result = "none", span = 1
    PROVE  PageLogs = density[start]
<1>1. PageEnd = start
  BY PagerAssumption DEF PagerInv, TypeOK, ReadSoFar, PageEnd, Wrap, Block
<1>2. start..PageEnd = {start}
  BY <1>1, PagerAssumption DEF PagerInv, TypeOK, Block
<1>3. density[start] \in Int
  <2>1. density[start] \in Densities
    BY DEF PagerInv, TypeOK
  <2>2. \A d \in Densities : d \in Int
    BY PagerAssumption
  <2> QED
    BY <2>1, <2>2
<1> QED
  BY <1>2, <1>3, SumOfOne DEF PageLogs

(* A time that fits an int64 is not wrapped. *)
LEMMA SignedFits ==
    ASSUME NEW n \in 0..MaxTime
    PROVE  Signed(n) = n
BY PinnedAssumption DEF Signed

(* The boundary of an Epoch is a time. *)
LEMMA WindowType ==
    ASSUME NEW e \in Epochs
    PROVE  WindowEnd(e) \in Int
<1>1. \A n \in Int : Signed(n) \in Int
  BY PinnedAssumption DEF Signed
<1>2. e * EpochSeconds \in Int /\ EpochSeconds \in Int
  BY PinnedAssumption
<1>3. Signed(e * EpochSeconds) + EpochSeconds \in Int
  BY <1>1, <1>2
<1> QED
  BY <1>1, <1>3 DEF WindowEnd

(* The end of an Epoch whose window fits an int64. *)
LEMMA WindowFits ==
    ASSUME NEW e \in Epochs, (e + 1) * EpochSeconds <= MaxTime
    PROVE  WindowEnd(e) = (e + 1) * EpochSeconds
<1>1. /\ e \in Nat /\ EpochSeconds \in Nat
      /\ e * EpochSeconds \in Nat /\ (e + 1) * EpochSeconds = e * EpochSeconds + EpochSeconds
  BY PinnedAssumption
<1>2. Signed(e * EpochSeconds) = e * EpochSeconds
  BY <1>1, SignedFits, PinnedAssumption
<1>3. Signed(e * EpochSeconds + EpochSeconds) = e * EpochSeconds + EpochSeconds
  BY <1>1, SignedFits, PinnedAssumption
<1> QED
  BY <1>1, <1>2, <1>3 DEF WindowEnd

(* Whatever is settled is the same on every branch. *)
LEMMA SettledIsShared ==
    ASSUME times \in Times, contents \in Contents,
           NEW a \in Branches, NEW b \in Branches, NEW n \in Block, n <= Common
    PROVE  BlockAt(a, n) = BlockAt(b, n) /\ contents[a][n] = contents[b][n]
<1>1. times[a][n] = times[b][n] /\ contents[a][n] = contents[b][n]
  BY PinnedAssumption, PagerAssumption DEF Shared, Block
<1> QED
  BY <1>1 DEF BlockAt

-----------------------------------------------------------------------------
(* The initial states. *)
LEMMA InitRun == PinnedInit => RunInv
<1> SUFFICES ASSUME PinnedInit PROVE RunInv
  OBVIOUS
<1>1. times \in Times /\ contents \in Contents /\ branch \in Branches /\ PagerInv
  BY InitPager DEF PinnedInit
<1>2. times \in [Branches -> [Block -> 0..MaxTime]] /\ contents \in [Branches -> [Block -> Densities]]
  BY <1>1, PinnedAssumption
<1>3. 0 \in Block /\ 0 \in 0..MaxTime /\ \A n \in Block : n \in Int /\ 0 <= n /\ n <= MaxWord
  BY PagerAssumption, PinnedAssumption DEF Block
<1>4. PinnedTypeOK
  <2>1. found.number = lo
    BY DEF PinnedInit, BlockAt
  <2>2. seen \in Seq(Branches) /\ Len(seen) = Len(out) /\ DOMAIN stamps \subseteq Block
    BY DEF PinnedInit, Init
  <2>3. tips \in [Endpoints -> Block \cup {Unread}] /\ tip \in Block /\ tipTime \in 0..MaxTime
    BY <1>3 DEF PinnedInit
  <2>4. lo \in Block /\ hi \in lo..MaxWord
    BY <1>3, PagerAssumption DEF PinnedInit
  <2> QED
    BY <1>1, <1>2, <2>1, <2>2, <2>3, <2>4 DEF PinnedInit, PinnedTypeOK, PagerInv
<1>5. PhaseInv /\ SearchInv /\ RefusedOnlyIfDense
  BY DEF PinnedInit, Init, PhaseInv, SearchInv, RefusedOnlyIfDense
<1>6. TipInv
  BY <1>3, PinnedAssumption DEF PinnedInit, TipInv, Block
<1>7. ReadInv
  BY DEF PinnedInit, Init, ReadInv
<1> QED
  BY <1>1, <1>4, <1>5, <1>6, <1>7 DEF RunInv

(* An endpoint gains a block, or gives its tip. *)
LEMMA HeightStep ==
    ASSUME RunInv, NEW e \in Endpoints, GrowHeight(e)
    PROVE  RunInv'
<1> USE DEF RunInv
<1>1. PagerInv'
  BY DEF GrowHeight, PagerInv, TypeOK, ReadSoFar, vars
<1>2. height'[e] = height[e] + 1 /\ height' \in [Endpoints -> Block]
      /\ \A d \in Endpoints : height[d] \in Int /\ height[d] <= height'[d]
  BY PagerAssumption DEF GrowHeight, PinnedTypeOK, Block
<1>3. PinnedTypeOK'
  BY <1>1, <1>2 DEF GrowHeight, PinnedTypeOK, PagerInv, vars, callVars, headVars, findVars, readVars
<1>4. PhaseInv' /\ SearchInv' /\ ReadInv' /\ RefusedOnlyIfDense'
  BY DEF GrowHeight, PhaseInv, SearchInv, ReadInv, RefusedOnlyIfDense, Steadfast, BlockAt, Wanted,
     vars, callVars, headVars, findVars, readVars
<1>5. TipInv'
  BY <1>2, PagerAssumption DEF GrowHeight, TipInv, Steadfast, PinnedTypeOK, Block, callVars, headVars
<1> QED
  BY <1>1, <1>3, <1>4, <1>5 DEF GrowHeight

(* Head asks one endpoint for its tip. *)
LEMMA ReadTipStep ==
    ASSUME RunInv, NEW e \in Endpoints, ReadTip(e)
    PROVE  RunInv'
<1> USE DEF RunInv
<1>1. PagerInv'
  BY DEF ReadTip, PagerInv, TypeOK, ReadSoFar, vars
<1>2. Tagged(e) \in Block /\ Tagged(e) <= height[e] /\ (level = "safe" => Tagged(e) <= Common)
  <2>1. height[e] \in Block /\ Common \in Block /\ height[e] \in Nat /\ Common \in Nat
    BY PagerAssumption, PinnedAssumption DEF PinnedTypeOK, Block
  <2>2. Min({height[e], Common}) \in {height[e], Common}
        /\ \A y \in {height[e], Common} : Min({height[e], Common}) <= y
    BY <2>1, MinIsLeast
  <2> QED
    BY <2>1, <2>2 DEF Tagged, PinnedTypeOK, Block
<1>3. tips' \in [Endpoints -> Block \cup {Unread}]
  BY <1>2 DEF ReadTip, PinnedTypeOK
<1>4. PinnedTypeOK'
  BY <1>1, <1>3 DEF ReadTip, PinnedTypeOK, PagerInv, vars, chainVars, callVars, findVars, readVars
<1>5. PhaseInv' /\ SearchInv' /\ RefusedOnlyIfDense'
  BY DEF ReadTip, PhaseInv, SearchInv, RefusedOnlyIfDense, Steadfast, BlockAt,
     vars, chainVars, callVars, findVars
<1>6. ReadInv'
  BY DEF ReadTip, ReadInv, Steadfast, BlockAt, Wanted, vars, chainVars, callVars, readVars
<1>7. TipInv'
  <2>1. \A d \in Endpoints : tips'[d] = IF d = e THEN Tagged(e) ELSE tips[d]
    BY DEF ReadTip, PinnedTypeOK
  <2>2. UNCHANGED <<height, level, tip, tipTime, times, branch, moved>> /\ pc' # "ready"
        /\ (pc' = "agree" => \A d \in Endpoints : tips'[d] # Unread)
    BY DEF ReadTip, chainVars, callVars
  <2> QED
    BY <1>2, <2>1, <2>2 DEF TipInv
<1> QED
  BY <1>1, <1>4, <1>5, <1>6, <1>7 DEF ReadTip, chainVars

(* The lowest of the tips is at or below all of them. *)
LEMMA AgreeStep ==
    ASSUME RunInv, Agree
    PROVE  RunInv'
<1> USE DEF RunInv
<1>1. PagerInv'
  BY DEF Agree, PagerInv, TypeOK, ReadSoFar, vars
<1>2. PICK e \in Endpoints : LowestTip = tips[e] /\ \A d \in Endpoints : LowestTip <= tips[d]
  <2> DEFINE S == {tips[e] : e \in Endpoints}
  <2>1. \A e \in Endpoints : tips[e] \in Nat
    BY PagerAssumption DEF Agree, TipInv, PinnedTypeOK, Block
  <2>2. S \in SUBSET Nat /\ S # {}
    BY <2>1, PinnedAssumption
  <2>3. Min(S) \in S /\ \A y \in S : Min(S) <= y
    BY <2>2, MinIsLeast
  <2> QED
    BY <2>3 DEF LowestTip
<1>3. LowestTip \in Block /\ (level = "safe" => LowestTip <= Common)
      /\ \A d \in Endpoints : LowestTip <= height[d]
  <2>1. \A d \in Endpoints : tips[d] \in Block /\ tips[d] <= height[d] /\ (level = "safe" => tips[d] <= Common)
    BY DEF Agree, TipInv, PinnedTypeOK
  <2>2. \A d \in Endpoints : tips[d] \in Int /\ height[d] \in Int
    BY <2>1, PagerAssumption DEF PinnedTypeOK, Block
  <2>3. LowestTip \in Int
    BY <1>2, <2>2
  <2> HIDE DEF LowestTip
  <2> QED
    BY <1>2, <2>1, <2>2, <2>3
<1> HIDE DEF LowestTip
<1>4. times[branch][LowestTip] \in 0..MaxTime
  BY <1>3 DEF PinnedTypeOK
<1>5. PinnedTypeOK'
  BY <1>1, <1>3, <1>4 DEF Agree, PinnedTypeOK, PagerInv, vars, chainVars, callVars, findVars, readVars
<1>6. PhaseInv' /\ SearchInv' /\ RefusedOnlyIfDense'
  BY DEF Agree, PhaseInv, SearchInv, RefusedOnlyIfDense, vars, chainVars, callVars, findVars
<1>7. ReadInv'
  BY DEF Agree, ReadInv, Steadfast, BlockAt, Wanted, vars, chainVars, callVars, readVars
<1>8. TipInv'
  BY <1>3 DEF Agree, TipInv, Steadfast, chainVars, callVars
<1> QED
  BY <1>1, <1>5, <1>6, <1>7, <1>8 DEF Agree, chainVars

(* Another branch: what is settled stays, and what is not was read before it moved. *)
LEMMA ReorgStep ==
    ASSUME RunInv, Reorg
    PROVE  RunInv'
<1> USE DEF RunInv
<1>1. PagerInv' /\ branch' \in Branches /\ density' = contents[branch']
  <2>1. ChainInv
    BY DEF ChainInv, PinnedTypeOK
  <2>2. PagerInv'
    BY <2>1, ReorgMoves, NextPager DEF Next
  <2> QED
    BY <2>2 DEF Reorg
<1>2. UNCHANGED <<from, to, start, span, spurious, out, result, times, contents, height, op, level, epoch,
                  pc, tips, tip, tipTime, lo, hi, found, seen, stamps, answer>>
      /\ pc # "done" /\ (moved' = FALSE => moved = FALSE /\ pc \in {"head", "agree"}) /\ moved' \in BOOLEAN
  BY DEF Reorg, callVars, headVars, findVars, readVars, PinnedTypeOK
<1>3. PinnedTypeOK'
  BY <1>1, <1>2 DEF PinnedTypeOK, PagerInv
<1>4. PhaseInv' /\ RefusedOnlyIfDense'
  BY <1>2 DEF PhaseInv, RefusedOnlyIfDense
<1>5. ASSUME NEW n \in Block, n <= tip, Steadfast', pc \notin {"head", "agree"}
      PROVE  /\ Steadfast
             /\ times'[branch'][n] = times[branch][n]
             /\ BlockAt(branch, n)' = BlockAt(branch, n)
  <2>1. level = "safe"
    BY <1>2, <1>5 DEF Steadfast
  <2>2. n <= Common
    BY <1>5, <2>1, PagerAssumption, PinnedAssumption DEF TipInv, PinnedTypeOK, Block
  <2>3. BlockAt(branch', n) = BlockAt(branch, n)
    BY <1>1, <2>2, SettledIsShared DEF PinnedTypeOK
  <2>4. BlockAt(branch', n).time = BlockAt(branch, n).time
    BY <2>3
  <2> QED
    BY <1>2, <2>1, <2>3, <2>4 DEF BlockAt, Steadfast
<1>6. TipInv'
  <2>1. (pc = "ready" /\ Steadfast') => tipTime = times'[branch'][tip]
    BY <1>5, PagerAssumption DEF TipInv, PinnedTypeOK, Block
  <2> QED
    BY <1>2, <2>1 DEF TipInv
<1>7. SearchInv'
  <2> SUFFICES ASSUME pc = "search" PROVE SearchInv'
    BY <1>2 DEF SearchInv, PhaseInv
  <2>1. ASSUME Steadfast'
        PROVE  /\ found = BlockAt(branch, lo)' /\ lo < hi /\ hi <= tip
               /\ times'[branch'][hi] >= WindowEnd(epoch)
    <3>1. Steadfast /\ lo \in Block /\ hi \in Block
      BY <2>1, <1>2, PagerAssumption DEF Steadfast, PinnedTypeOK, Block
    <3>2. lo < hi /\ hi <= tip /\ lo <= tip /\ found = BlockAt(branch, lo)
          /\ times[branch][hi] >= WindowEnd(epoch)
      BY <3>1, PagerAssumption DEF SearchInv, PinnedTypeOK, Block
    <3> QED
      BY <1>2, <1>5, <2>1, <3>1, <3>2 DEF BlockAt
  <2> QED
    BY <1>2, <2>1 DEF SearchInv, WindowEnd, Signed, PhaseInv
<1>8. ReadInv'
  <2>1. ASSUME Steadfast', NEW n \in DOMAIN stamps
        PROVE  stamps[n] = BlockAt(branch, n)'
    <3>1. pc \notin {"head", "agree"}
      BY <2>1 DEF ReadInv
    <3>2. level = "safe" /\ Steadfast
      BY <1>2, <2>1, <3>1 DEF Steadfast
    <3>3. n \in Block /\ n <= Common
      BY <3>2, <2>1 DEF ReadInv, PinnedTypeOK
    <3>4. BlockAt(branch', n) = BlockAt(branch, n)
      BY <1>1, <3>3, SettledIsShared DEF PinnedTypeOK
    <3> QED
      BY <1>2, <2>1, <3>2, <3>4 DEF ReadInv, BlockAt
  <2>2. ~moved' => \A i \in 1..Len(out) : seen[i] = branch'
    BY <1>2 DEF ReadInv
  <2>3. Wanted' = Wanted
    BY <1>2 DEF Wanted
  <2> QED
    BY <1>2, <2>1, <2>2, <2>3 DEF ReadInv
<1> QED
  BY <1>1, <1>2, <1>3, <1>4, <1>6, <1>7, <1>8

(* A step of EndBlock, or one that fails or returns, leaves all but the search alone. *)
LEMMA SearchStep ==
    ASSUME RunInv, Search
    PROVE  RunInv'
<1> USE DEF RunInv
<1>1. PagerInv'
  BY DEF Search, PagerInv, TypeOK, ReadSoFar, vars
<1>2. UNCHANGED <<vars, chainVars, callVars, headVars, readVars, moved>> /\ pc = "ready" /\ op = "EndBlock"
      /\ pc' \in {"search", "done"} /\ (pc' = "done" <=> answer' = "refused") /\ answer' \in {"none", "refused"}
  BY DEF Search, Return, PhaseInv
<1>3. CASE pc' = "search"
  <2>1. /\ lo' = 0 /\ hi' = tip /\ found' = BlockAt(branch, 0) /\ answer' = "none"
        /\ tipTime >= WindowEnd(epoch) /\ times[branch][0] < WindowEnd(epoch)
    <3>1. tipTime \in Int /\ times[branch][0] \in Int /\ WindowEnd(epoch) \in Int
      BY PagerAssumption, WindowType DEF PinnedTypeOK, Block
    <3>2. /\ lo' = 0 /\ hi' = tip /\ found' = BlockAt(branch, 0) /\ answer' = answer
          /\ ~(tipTime < WindowEnd(epoch) \/ times[branch][0] >= WindowEnd(epoch))
      BY <1>3 DEF Search, Return
    <3> QED
      BY <1>2, <3>1, <3>2 DEF PhaseInv
  <2>2. lo' \in Block /\ hi' \in lo'..MaxWord /\ found'.number = lo'
    BY <2>1, PagerAssumption DEF PinnedTypeOK, Block, BlockAt
  <2>3. PinnedTypeOK'
    BY <1>1, <1>2, <2>2 DEF PinnedTypeOK, PagerInv, vars, chainVars, callVars, headVars, readVars
  <2>4. PhaseInv' /\ RefusedOnlyIfDense' /\ TipInv'
    BY <1>2, <1>3, <2>1 DEF PhaseInv, RefusedOnlyIfDense, TipInv, vars, chainVars, callVars, headVars
  <2>5. ReadInv'
    BY <1>2, <1>3, <2>1 DEF ReadInv, Steadfast, BlockAt, Wanted, vars, chainVars, callVars, headVars, readVars
  <2>6. SearchInv'
    <3>1. found'.time < WindowEnd(epoch) /\ found' = BlockAt(branch, lo)'
      BY <1>2, <2>1 DEF BlockAt, chainVars
    <3>2. Steadfast' => lo' < hi' /\ hi' <= tip' /\ times'[branch'][hi'] >= WindowEnd(epoch)
      <4>1. SUFFICES ASSUME Steadfast' PROVE lo' < hi' /\ hi' <= tip' /\ times'[branch'][hi'] >= WindowEnd(epoch)
        OBVIOUS
      <4>2. tipTime = times[branch][tip] /\ tip \in Block
        BY <1>2, <4>1 DEF TipInv, Steadfast, callVars, PinnedTypeOK
      <4>3. tip # 0
        <5>1. tip = 0 => tipTime = times[branch][0] /\ tipTime \in Int /\ WindowEnd(epoch) \in Int
          BY <4>2, WindowType DEF PinnedTypeOK
        <5> QED
          BY <2>1, <5>1
      <4> QED
        BY <1>2, <2>1, <4>2, <4>3, PagerAssumption DEF Block, headVars, chainVars
    <3> QED
      BY <1>2, <2>1, <3>1, <3>2 DEF SearchInv, WindowEnd, Signed, callVars
  <2> QED
    BY <1>1, <1>2, <2>3, <2>4, <2>5, <2>6 DEF chainVars
<1>4. CASE pc' = "done"
  <2>1. UNCHANGED findVars
    BY <1>2, <1>4 DEF Search, Return
  <2>2. PinnedTypeOK'
    BY <1>1, <1>2, <2>1 DEF PinnedTypeOK, PagerInv, vars, chainVars, callVars, headVars, findVars, readVars
  <2>3. PhaseInv' /\ RefusedOnlyIfDense' /\ TipInv' /\ SearchInv'
    BY <1>2, <1>4 DEF PhaseInv, RefusedOnlyIfDense, TipInv, SearchInv, vars, chainVars, callVars, headVars
  <2>4. ReadInv'
    BY <1>2, <1>4 DEF ReadInv, Steadfast, BlockAt, Wanted, vars, chainVars, callVars, headVars, readVars
  <2> QED
    BY <1>1, <1>2, <2>2, <2>3, <2>4 DEF chainVars
<1> QED
  BY <1>2, <1>3, <1>4

(* A probe moves one of the bounds to the middle, and they stay apart. *)
LEMMA ProbeStep ==
    ASSUME RunInv, Probe
    PROVE  RunInv'
<1> USE DEF RunInv
<1> DEFINE mid == lo + (hi - lo) \div 2
<1>1. PagerInv'
  BY DEF Probe, PagerInv, TypeOK, ReadSoFar, vars
<1>2. UNCHANGED <<vars, chainVars, callVars, pc, headVars, readVars, answer, moved>> /\ pc = "search"
  BY DEF Probe
<1>3. /\ lo \in Int /\ hi \in Int /\ mid \in Int /\ lo < mid /\ mid < hi /\ mid \in Block
      /\ hi <= MaxWord /\ 0 <= lo
  BY PagerAssumption DEF Probe, PinnedTypeOK, Block
<1>4. WindowEnd(epoch) \in Int /\ times[branch][mid] \in Int
  BY <1>3, WindowType DEF PinnedTypeOK
<1>5. \/ /\ lo' = mid /\ found' = BlockAt(branch, mid) /\ hi' = hi /\ times[branch][mid] < WindowEnd(epoch)
      \/ /\ hi' = mid /\ lo' = lo /\ found' = found /\ times[branch][mid] >= WindowEnd(epoch)
  BY <1>4 DEF Probe
<1> HIDE DEF mid
<1>6. lo' \in Block /\ hi' \in lo'..MaxWord /\ found'.number = lo'
  BY <1>3, <1>5, PagerAssumption DEF PinnedTypeOK, BlockAt, Block
<1>7. PinnedTypeOK'
  BY <1>1, <1>2, <1>6 DEF PinnedTypeOK, PagerInv, vars, chainVars, callVars, headVars, readVars
<1>8. PhaseInv' /\ RefusedOnlyIfDense' /\ TipInv'
  BY <1>2 DEF PhaseInv, RefusedOnlyIfDense, TipInv, Steadfast, vars, chainVars, callVars, headVars
<1>9. ReadInv'
  BY <1>2 DEF ReadInv, Steadfast, BlockAt, Wanted, vars, chainVars, callVars, headVars, readVars
<1>10. SearchInv'
  <2>1. found'.time < WindowEnd(epoch)
    BY <1>2, <1>5 DEF SearchInv, BlockAt
  <2>2. Steadfast => /\ found' = BlockAt(branch, lo') /\ lo' < hi' /\ hi' <= tip
                     /\ times[branch][hi'] >= WindowEnd(epoch)
    BY <1>2, <1>3, <1>5, PagerAssumption DEF SearchInv, PinnedTypeOK, Block
  <2> QED
    BY <1>2, <2>1, <2>2 DEF SearchInv, PhaseInv, WindowEnd, Signed, Steadfast, BlockAt, chainVars, callVars, headVars
<1> QED
  BY <1>1, <1>2, <1>7, <1>8, <1>9, <1>10 DEF chainVars

(* The call returns: an end block, stamped transfers, or an error. *)
LEMMA ReturnStep ==
    ASSUME RunInv, Found \/ Stamped \/ ReadError
    PROVE  RunInv'
<1> USE DEF RunInv
<1>1. PagerInv'
  BY DEF Found, Stamped, ReadError, PagerInv, TypeOK, ReadSoFar, vars
<1>2. UNCHANGED <<vars, chainVars, callVars, headVars, findVars, readVars, moved>>
      /\ pc' = "done" /\ pc # "done" /\ answer' \in {"ok", "error"}
  BY DEF Found, Stamped, ReadError, Return
<1>3. PinnedTypeOK'
  BY <1>1, <1>2 DEF PinnedTypeOK, PagerInv, vars, chainVars, callVars, headVars, findVars, readVars
<1>4. PhaseInv' /\ RefusedOnlyIfDense' /\ TipInv'
  BY <1>2 DEF PhaseInv, RefusedOnlyIfDense, TipInv, Steadfast, vars, chainVars, callVars, headVars
<1>5. ReadInv'
  <2>1. (op = "Transfers" /\ answer' = "ok") => result = "ok" /\ Wanted = DOMAIN stamps
    BY DEF Found, Stamped, ReadError, Return, PhaseInv, ReadInv
  <2>2. Wanted' = Wanted /\ Steadfast' = Steadfast /\ \A n : BlockAt(branch, n)' = BlockAt(branch, n)
    BY <1>2 DEF Wanted, Steadfast, BlockAt, vars, chainVars, callVars, readVars
  <2> QED
    BY <1>2, <2>1, <2>2 DEF ReadInv, BlockAt, vars, chainVars, callVars, headVars, readVars
<1>6. SearchInv'
  <2>1. (op = "EndBlock" /\ answer' = "ok") => pc = "search" /\ hi - lo <= 1
    BY DEF Found, Stamped, ReadError, Return, PhaseInv
  <2> QED
    BY <1>2, <2>1 DEF SearchInv, WindowEnd, Signed, Steadfast, BlockAt, chainVars, callVars, headVars, findVars
<1> QED
  BY <1>1, <1>2, <1>3, <1>4, <1>5, <1>6 DEF chainVars

(* EndBlock or Transfers is called. *)
LEMMA CallStep ==
    ASSUME RunInv, Call
    PROVE  RunInv'
<1> USE DEF RunInv
<1>1. PagerInv'
  BY DEF Call, PagerInv, TypeOK, ReadSoFar, vars
<1>2. UNCHANGED <<vars, chainVars, callVars, headVars, findVars, readVars, moved>> /\ op = "Transfers" /\ pc = "ready"
      /\ \/ pc' = "logs" /\ answer' = "none" /\ to <= tip /\ result = "none"
         \/ pc' = "done" /\ answer' = "refused"
  BY DEF Call, Return, PhaseInv
<1>3. PinnedTypeOK'
  BY <1>1, <1>2 DEF PinnedTypeOK, PagerInv, vars, chainVars, callVars, headVars, findVars, readVars
<1>4. PhaseInv' /\ RefusedOnlyIfDense' /\ TipInv' /\ SearchInv'
  BY <1>2 DEF PhaseInv, RefusedOnlyIfDense, TipInv, SearchInv, vars, chainVars, callVars, headVars
<1>5. ReadInv'
  BY <1>2 DEF ReadInv, Steadfast, BlockAt, Wanted, vars, chainVars, callVars, headVars, readVars
<1> QED
  BY <1>1, <1>2, <1>3, <1>4, <1>5 DEF chainVars

(* A page is read from the branch of the moment, and lies at or below the tip. *)
LEMMA ReadPageStep ==
    ASSUME RunInv, ReadPage
    PROVE  RunInv'
<1> USE DEF RunInv
<1>1. PagerInv'
  BY NextPager DEF ReadPage, Next
<1>2. UNCHANGED <<density, from, to, span, spurious, chainVars, callVars, headVars, findVars, stamps, answer, moved>>
      /\ pc = "logs" /\ op = "Transfers" /\ result = "none" /\ result' \in {"none", "ok"}
      /\ pc' = IF result' = "ok" THEN "stamp" ELSE "logs"
  BY DEF ReadPage, Page, PhaseInv
<1>3. PageEnd \in Int /\ start <= PageEnd /\ PageEnd <= to /\ start \in Int /\ to \in Int
  BY <1>2, PageEndBounds, PagerAssumption DEF PagerInv, ReadSoFar, TypeOK, Block
<1> DEFINE page == BlocksOf(start, PageEnd)
           more == [i \in 1..Len(page) |-> branch]
<1>4. /\ page \in Seq(Int) /\ Len(page) \in Nat /\ \A i \in 1..Len(page) : page[i] <= to
      /\ more \in Seq(Branches) /\ Len(more) = Len(page) /\ \A i \in 1..Len(more) : more[i] = branch
  <2>1. page = [i \in 1..(PageEnd - start + 1) |-> start + i - 1] /\ PageEnd - start + 1 \in Nat
    BY <1>3 DEF BlocksOf
  <2>2. page \in Seq(Int) /\ Len(page) = PageEnd - start + 1
    BY <1>3, <2>1
  <2>3. \A i \in 1..Len(page) : page[i] <= to
    BY <1>3, <2>1, <2>2
  <2> HIDE DEF page
  <2>4. branch \in Branches /\ Len(page) \in Nat
    BY <2>2 DEF PinnedTypeOK
  <2> QED
    BY <2>2, <2>3, <2>4
<1>5. out \in Seq(Int) /\ seen \in Seq(Branches) /\ Len(seen) = Len(out) /\ Len(out) \in Nat
  BY PagerAssumption DEF PagerInv, TypeOK, PinnedTypeOK, Block
<1>6. out' = out \o page
  BY DEF ReadPage, Page
<1> HIDE DEF page
<1>7. seen' = seen \o more
  BY <1>4, <1>5, <1>6 DEF ReadPage
<1> HIDE DEF more
<1>8. /\ Len(out') = Len(out) + Len(page) /\ Len(seen') = Len(out') /\ seen' \in Seq(Branches)
      /\ \A i \in 1..Len(out) : out'[i] = out[i] /\ seen'[i] = seen[i]
      /\ \A i \in 1..Len(out') : i \notin 1..Len(out) => out'[i] <= to /\ seen'[i] = branch
  <2>1. Len(out') = Len(out) + Len(page) /\ \A i \in 1..Len(out') :
            out'[i] = IF i <= Len(out) THEN out[i] ELSE page[i - Len(out)]
    BY <1>4, <1>5, <1>6
  <2>2. seen' \in Seq(Branches) /\ Len(seen') = Len(seen) + Len(more) /\ \A i \in 1..Len(seen') :
            seen'[i] = IF i <= Len(seen) THEN seen[i] ELSE more[i - Len(seen)]
    <3>1. seen \in Seq(Branches) /\ more \in Seq(Branches)
      BY <1>4, <1>5
    <3>2. /\ seen \o more \in Seq(Branches) /\ Len(seen \o more) = Len(seen) + Len(more)
          /\ \A i \in 1..(Len(seen) + Len(more)) :
                 (seen \o more)[i] = IF i <= Len(seen) THEN seen[i] ELSE more[i - Len(seen)]
      BY <3>1, ConcatProperties, Zenon
    <3> QED
      BY <1>7, <3>2, Zenon
  <2>3. ASSUME NEW i \in 1..Len(out'), i \notin 1..Len(out)
        PROVE  i - Len(out) \in 1..Len(page) /\ ~(i <= Len(out))
    BY <1>4, <1>5, <2>1, <2>3
  <2>4. Len(seen') = Len(out')
    BY <1>4, <1>5, <2>1, <2>2
  <2>5. ASSUME NEW i \in 1..Len(out)
        PROVE  i \in 1..Len(out') /\ i <= Len(out)
    BY <1>4, <1>5, <2>1
  <2>6. \A i \in 1..Len(out) : out'[i] = out[i] /\ seen'[i] = seen[i]
    BY <1>5, <2>1, <2>2, <2>4, <2>5
  <2>7. ASSUME NEW i \in 1..Len(out'), i \notin 1..Len(out)
        PROVE  out'[i] <= to /\ seen'[i] = branch
    BY <1>4, <1>5, <2>1, <2>2, <2>3, <2>4, <2>7
  <2> QED
    BY <2>1, <2>2, <2>4, <2>6, <2>7
<1>9. PinnedTypeOK'
  BY <1>1, <1>2, <1>8 DEF PinnedTypeOK, PagerInv, chainVars, callVars, headVars, findVars
<1>10. PhaseInv' /\ RefusedOnlyIfDense' /\ TipInv' /\ SearchInv'
  BY <1>2 DEF PhaseInv, RefusedOnlyIfDense, TipInv, SearchInv, chainVars, callVars, headVars
<1>11. ReadInv'
  <2>1. level = "safe" => \A i \in 1..Len(out') : out'[i] <= Common
    <3>1. level = "safe" => to <= Common
      BY <1>2, PagerAssumption, PinnedAssumption DEF TipInv, ReadInv, PagerInv, TypeOK, PinnedTypeOK, Block
    <3>2. \A i \in 1..Len(out') : out'[i] \in Int
      BY <1>1, PagerAssumption DEF PagerInv, TypeOK, Block
    <3> QED
      BY <1>3, <1>8, <3>1, <3>2, PinnedAssumption DEF ReadInv, Block
  <2>2. ~moved => \A i \in 1..Len(out') : seen'[i] = branch
    BY <1>8 DEF ReadInv
  <2>3. \A n \in DOMAIN stamps : \E i \in 1..Len(out') : n = out'[i]
    BY <1>4, <1>5, <1>8 DEF ReadInv
  <2>4. Steadfast' = Steadfast /\ answer' = "none" /\ to <= tip
    BY <1>2 DEF Steadfast, callVars, PhaseInv, ReadInv
  <2>5. Steadfast => \A n \in DOMAIN stamps : stamps[n] = BlockAt(branch, n)
    BY DEF ReadInv
  <2> QED
    BY <1>2, <2>1, <2>2, <2>3, <2>4, <2>5 DEF ReadInv, BlockAt, chainVars, callVars, headVars
<1> QED
  BY <1>1, <1>2, <1>9, <1>10, <1>11 DEF chainVars

(* A page is refused or lost: only a refusal over a page of one block ends the read. *)
LEMMA NoPageStep ==
    ASSUME RunInv, RefusePage \/ FailPage
    PROVE  RunInv'
<1> USE DEF RunInv
<1>1. PagerInv'
  BY NextPager DEF RefusePage, FailPage, Next
<1>2. UNCHANGED <<density, from, to, start, out, chainVars, callVars, headVars, findVars, readVars, moved>>
      /\ pc = "logs" /\ op = "Transfers" /\ result = "none"
      /\ \/ result' = "none" /\ pc' = pc /\ answer' = answer
         \/ result' # "none" /\ result' # "ok" /\ pc' = "done" /\ answer' = "error"
  BY DEF RefusePage, FailPage, Refused, TooBig, Spurious, Fails, Narrowed, Return, PhaseInv
<1>3. PinnedTypeOK'
  BY <1>1, <1>2 DEF PinnedTypeOK, PagerInv, chainVars, callVars, headVars, findVars, readVars
<1>4. RefusedOnlyIfDense'
  <2>1. CASE TooBig
    <3>1. ASSUME result' = "refused" PROVE density[start] > Limit
      <4>1. span = 1 /\ PageLogs > Limit
        BY <2>1, <3>1 DEF TooBig, Narrowed, PagerInv, TypeOK
      <4> QED
        BY <1>2, <4>1, PageOfOne
    <3> QED
      BY <1>2, <3>1 DEF RefusedOnlyIfDense
  <2>2. CASE Spurious
    BY <2>2, PagerAssumption DEF Spurious, RefusedOnlyIfDense, PagerInv, TypeOK
  <2>3. CASE Fails
    BY <2>3 DEF Fails, RefusedOnlyIfDense
  <2> QED
    BY <2>1, <2>2, <2>3 DEF RefusePage, FailPage
<1>5. PhaseInv' /\ TipInv' /\ SearchInv'
  BY <1>2 DEF PhaseInv, TipInv, SearchInv, chainVars, callVars, headVars
<1>6. ReadInv'
  BY <1>2 DEF ReadInv, PhaseInv, Steadfast, BlockAt, Wanted, chainVars, callVars, headVars, readVars
<1> QED
  BY <1>1, <1>2, <1>3, <1>4, <1>5, <1>6 DEF chainVars

(* A header stamps a block the logs are from. *)
LEMMA StampStep ==
    ASSUME RunInv, Stamp
    PROVE  RunInv'
<1> USE DEF RunInv
<1>1. PagerInv'
  BY DEF Stamp, PagerInv, TypeOK, ReadSoFar, vars
<1>2. UNCHANGED <<vars, chainVars, callVars, pc, headVars, findVars, seen, answer, moved>> /\ pc = "stamp"
  BY DEF Stamp
<1>3. PICK n \in Wanted : stamps' = [m \in DOMAIN stamps \cup {n} |->
                                       IF m = n THEN BlockAt(branch, n) ELSE stamps[m]]
  BY DEF Stamp
<1>4. DOMAIN stamps' = DOMAIN stamps \cup {n} /\ \E i \in 1..Len(out) : n = out[i]
  BY <1>3 DEF Wanted
<1>5. n \in Block
  BY <1>4 DEF PagerInv, TypeOK
<1>6. PinnedTypeOK'
  BY <1>1, <1>2, <1>4, <1>5 DEF PinnedTypeOK, PagerInv, vars, chainVars, callVars, headVars, findVars
<1>7. PhaseInv' /\ RefusedOnlyIfDense' /\ TipInv' /\ SearchInv'
  BY <1>2 DEF PhaseInv, RefusedOnlyIfDense, TipInv, SearchInv, vars, chainVars, callVars, headVars
<1>8. ReadInv'
  <2>1. Steadfast => \A m \in DOMAIN stamps' : stamps'[m] = BlockAt(branch, m)
    BY <1>3, <1>4 DEF ReadInv
  <2>2. \A m \in DOMAIN stamps' : \E i \in 1..Len(out) : m = out[i]
    BY <1>4 DEF ReadInv
  <2> QED
    BY <1>2, <2>1, <2>2 DEF ReadInv, PhaseInv, Steadfast, BlockAt, vars, chainVars, callVars, headVars
<1> QED
  BY <1>1, <1>2, <1>6, <1>7, <1>8 DEF chainVars

(* Every step keeps the invariant. *)
LEMMA NextRun == RunInv /\ [PinnedNext]_allVars => RunInv'
<1> SUFFICES ASSUME RunInv, [PinnedNext]_allVars PROVE RunInv'
  OBVIOUS
<1>1. CASE UNCHANGED allVars
  <2> USE <1>1 DEF RunInv, allVars, vars, ownVars, chainVars, callVars, headVars, findVars, readVars
  <2>1. PagerInv'
    BY DEF PagerInv, TypeOK, ReadSoFar
  <2>2. PinnedTypeOK'
    BY <2>1 DEF PinnedTypeOK, PagerInv
  <2>3. PhaseInv' /\ TipInv' /\ RefusedOnlyIfDense'
    BY DEF PhaseInv, TipInv, RefusedOnlyIfDense, Steadfast
  <2>4. SearchInv'
    BY DEF SearchInv, Steadfast, BlockAt, WindowEnd, Signed
  <2>5. ReadInv'
    BY DEF ReadInv, Steadfast, BlockAt, Wanted
  <2> QED
    BY <2>1, <2>2, <2>3, <2>4, <2>5
<1>2. CASE PinnedNext
  BY <1>1, <1>2, HeightStep, ReadTipStep, AgreeStep, ReorgStep, SearchStep, ProbeStep, ReturnStep, CallStep,
     ReadPageStep, NoPageStep, StampStep DEF PinnedNext, Run, CallReturned
<1> QED
  BY <1>1, <1>2

-----------------------------------------------------------------------------
(* The invariant always holds. *)
LEMMA RunInvariant == PinnedSpec => []RunInv
BY InitRun, NextRun, PTL DEF PinnedSpec

(* Head, EndBlock and Transfers keep their variables in shape: the search stays    *)
(* inside the chain, its bounds do not cross, and every log has its branch.        *)
THEOREM RunTypeCorrect == PinnedSpec => []PinnedTypeOK
<1>1. RunInv => PinnedTypeOK
  BY DEF RunInv
<1> QED
  BY RunInvariant, <1>1, PTL

(* Reader.Head: no endpoint lacks a block that a run asks for, however many        *)
(* endpoints there are and however far apart they are.                             *)
THEOREM TipIsHeld == PinnedSpec => []TipIsHeldByAll
<1>1. RunInv => TipIsHeldByAll
  BY DEF RunInv, TipInv, TipIsHeldByAll
<1> QED
  BY RunInvariant, <1>1, PTL

(* Reader.EndBlock: the block found is the last before the Epoch closes, for every *)
(* chain of block times; a reorganisation at `latest` during the search may leave  *)
(* it between two branches, but never on a block of a later Epoch.                 *)
THEOREM EndBlockFindsTheLast == PinnedSpec => []EndBlockIsLast
<1>1. RunInv => EndBlockIsLast
  <2> SUFFICES ASSUME RunInv, op = "EndBlock", answer = "ok", (epoch + 1) * EpochSeconds <= MaxTime
               PROVE  LET end == (epoch + 1) * EpochSeconds
                      IN /\ found.time < end
                         /\ Steadfast => /\ found = BlockAt(branch, found.number)
                                         /\ \A n \in 0..tip : times[branch][n] < end <=> n <= found.number
    BY DEF EndBlockIsLast
  <2> DEFINE end == WindowEnd(epoch)
  <2>1. end = (epoch + 1) * EpochSeconds /\ end \in Int
    BY WindowFits, WindowType DEF RunInv, PinnedTypeOK
  <2> HIDE DEF end
  <2>2. found.time < end /\ found.number = lo
    BY DEF RunInv, SearchInv, PinnedTypeOK, end
  <2>3. ASSUME Steadfast, NEW n \in 0..tip
        PROVE  times[branch][n] < end <=> n <= lo
    <3>1. found = BlockAt(branch, lo) /\ lo < hi /\ hi <= tip /\ times[branch][hi] >= end /\ hi - lo <= 1
      BY <2>3 DEF RunInv, SearchInv, end
    <3>2. lo \in Block /\ hi \in Block /\ n \in Block /\ hi = lo + 1
      BY <3>1, PagerAssumption DEF RunInv, PinnedTypeOK, Block
    <3>3. times[branch][lo] < end
      BY <2>2, <3>1 DEF BlockAt
    <3>4. times[branch][n] \in Int /\ times[branch][lo] \in Int /\ times[branch][hi] \in Int
      BY <3>2 DEF RunInv, PinnedTypeOK
    <3>5. (n <= lo => times[branch][n] <= times[branch][lo])
          /\ (hi <= n => times[branch][hi] <= times[branch][n])
      BY <3>2, PinnedAssumption DEF RunInv, PinnedTypeOK
    <3>6. n <= lo \/ hi <= n
      BY <3>2, PagerAssumption DEF Block
    <3> QED
      BY <2>1, <3>1, <3>2, <3>3, <3>4, <3>5, <3>6, PagerAssumption DEF Block
  <2>4. Steadfast => found = BlockAt(branch, lo)
    BY DEF RunInv, SearchInv
  <2> QED
    BY <2>1, <2>2, <2>3, <2>4
<1> QED
  BY RunInvariant, <1>1, PTL

(* Reader.Transfers: logs and times are those of one chain although every page and *)
(* every header is a read of its own, at `safe` whatever happens meanwhile.        *)
THEOREM TransfersAreOfOneChain == PinnedSpec => []ReadsMatch
<1>1. RunInv => ReadsMatch
  <2> SUFFICES ASSUME RunInv, op = "Transfers", answer = "ok", Steadfast
               PROVE  /\ \A i \in 1..Len(out) : BlockAt(seen[i], out[i]) = BlockAt(branch, out[i])
                      /\ \A n \in from..to : contents[branch][n] > 0 =>
                             n \in DOMAIN stamps /\ stamps[n] = BlockAt(branch, n)
    BY DEF ReadsMatch
  <2>1. ASSUME NEW i \in 1..Len(out)
        PROVE  /\ BlockAt(seen[i], out[i]) = BlockAt(branch, out[i])
               /\ contents[seen[i]][out[i]] = contents[branch][out[i]]
    <3>1. seen[i] \in Branches /\ out[i] \in Block /\ branch \in Branches
      BY DEF RunInv, PinnedTypeOK, TypeOK
    <3>2. CASE level = "safe"
      BY <3>1, <3>2, SettledIsShared DEF RunInv, ReadInv
    <3>3. CASE ~moved
      BY <3>3 DEF RunInv, ReadInv
    <3> QED
      BY <3>2, <3>3 DEF Steadfast
  <2>2. out = BlocksOf(from, to) /\ from \in Int /\ to \in Int
    BY PagerAssumption DEF RunInv, ReadInv, PagerInv, ReadSoFar, TypeOK, Block
  <2>3. ASSUME NEW n \in from..to, contents[branch][n] > 0
        PROVE  n \in DOMAIN stamps
    <3> DEFINE i == n - from + 1
    <3>1. i \in 1..Len(out) /\ out[i] = n
      BY <2>2 DEF BlocksOf
    <3>2. n \in Wanted
      BY <2>1, <2>3, <3>1 DEF Wanted
    <3> QED
      BY <3>2 DEF RunInv, ReadInv
  <2> QED
    BY <2>1, <2>3 DEF RunInv, ReadInv
<1> QED
  BY RunInvariant, <1>1, PTL

(* Reader.logs: narrowing gives up over a block that is too dense by itself, and   *)
(* over nothing else that was about size.                                          *)
THEOREM NarrowingReachesTheBlock == PinnedSpec => []RefusedOnlyIfDense
<1>1. RunInv => RefusedOnlyIfDense
  BY DEF RunInv
<1> QED
  BY RunInvariant, <1>1, PTL
=============================================================================
