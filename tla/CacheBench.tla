----------------------------- MODULE CacheBench -----------------------------
(***************************************************************************)
(* The cache part of RunBench in nexus/cmd/bench/main.go: one goroutine    *)
(* asks the cache for one prompt after the other, a clock unit apart,      *)
(* stores the answer of a prompt that neither the prefix cache nor a close *)
(* enough semantic match answers, and keeps a record of every query.  From *)
(* the records it draws a curve over thresholds, chooses the working point *)
(* and reports it.  Token counts are left out.                             *)
(***************************************************************************)
EXTENDS Cache

CONSTANTS Prompts,      \* what is asked: [prefix, vec, gt], gt the right answer
          StoreNum,     \* a prompt whose best score is below this fraction
          StoreDen,     \* is stored (0.85)
          Thresholds,   \* of the curve, in hundredths, rising
          MinSemantic,  \* limits of the working point, in thousandths:
          MaxFalse,     \* semantic hits of all, false hits of all hits
          MaxQueries    \* bound: length of the corpus

ASSUME PromptsAssumption ==
    /\ \A p \in Prompts : p.vec \in Vector /\ \E i \in Dim : p.vec[i] > 0
    /\ StoreNum \in Nat \ {0}
    /\ StoreDen \in Nat \ {0}
    /\ StoreNum * ExactDen <= ExactNum * StoreDen  \* what ends a search is not stored
    /\ Thresholds \in Seq(1..100)
    /\ \A i, j \in DOMAIN Thresholds : i < j => Thresholds[i] < Thresholds[j]
    /\ MinSemantic \in Nat
    /\ MaxFalse \in Nat
    /\ MaxQueries \in Nat \ {0}

VARIABLES now,      \* the simulated time of the next query
          queries,  \* the length of records
          records,  \* a bag: their order is never looked at
          chosen,   \* the chosen point, an index of the curve; 0 when none
          reported  \* the final figures, one or none

corpusVars == <<cacheVars, now, queries, records, chosen, reported>>

Record == [BestSim : SUBSET ToSet(Thresholds),  \* the thresholds it reaches
           Correct : BOOLEAN, PrefixHit : BOOLEAN]

Records == BagToSet(records)

CorpusInit == /\ NewCache
              /\ now = Window
              /\ queries = 0
              /\ records = EmptyBag
              /\ chosen = 0
              /\ reported = {}

StoreAlways(prompt) == GetPrefix(prompt, now) = {}                \* mutant

(* Is the prompt's answer to be stored? *)
Store(prompt) ==
    /\ GetPrefix(prompt, now) = {}
    /\ ~SemanticHit(prompt, now, StoreNum, StoreDen)

QueryRecord(prompt) ==
    LET best == FindBestMatch(prompt, now)
    IN  [BestSim   |-> {th \in ToSet(Thresholds) : SemanticHit(prompt, now, th, 100)},
         Correct   |-> best # NoMatch /\ SemanticEntries[best].Response = prompt.gt,
         PrefixHit |-> GetPrefix(prompt, now) # {}]

(* One iteration: both caches are asked, and the answer is stored in both  *)
(* or in neither.                                                          *)
Query(prompt) ==
    /\ queries < MaxQueries
    /\ queries' = queries + 1
    /\ IF Store(prompt)
       THEN /\ SetPrefix(prompt, prompt.gt, now)
            /\ SetSemantic(prompt, prompt.gt, now)
       ELSE UNCHANGED cacheVars
    /\ records' = records (+) SetToBag({QueryRecord(prompt)})
    /\ now' = now + 1
    /\ UNCHANGED <<chosen, reported>>

----------------------------------------------------------------------------
(* The curve and the working point.                                        *)

Count(set) == SumFunctionOnSet(records, set)

Round3(a, b) == (2000 * a + b) \div (2 * b)

(* The figures at a threshold; CalcTradeoffCurve computes them one way and *)
(* the final report another.                                               *)
Figures(semantic, combined, false) ==
    [Combined |-> Round3(combined, queries), Semantic |-> Round3(semantic, queries),
     False |-> IF combined > 0 THEN Round3(false, combined) ELSE 0]

SemHits(th) == {rec \in Records : th \in rec.BestSim /\ ~rec.PrefixHit}

TradeoffPoint(th) ==
    LET false == {rec \in SemHits(th) : ~rec.Correct}
        all   == SemHits(th) \cup {rec \in Records : rec.PrefixHit}
    IN  Figures(Count(SemHits(th)), Count(all), Count(false))

CalcTradeoffCurve == [i \in DOMAIN Thresholds |-> TradeoffPoint(Thresholds[i])]

Works(pt) == pt.Semantic >= MinSemantic /\ pt.False <= MaxFalse

ImprovesOrEquals(pt, best) == pt.Combined >= best.Combined        \* mutant

Improves(pt, best) == pt.Combined > best.Combined

(* The first working point that combines more hits than those before it. *)
Choose == LET curve == CalcTradeoffCurve
          IN  FoldLeftDomain(LAMBDA best, i :
                  IF /\ Works(curve[i])
                     /\ best = 0 \/ Improves(curve[i], curve[best])
                  THEN i ELSE best, 0, curve)

FinalFiguresOfBoth(th) ==                                         \* mutant
    LET sem == {rec \in Records : th \in rec.BestSim}
    IN  Figures(Count(sem), Count(sem \cup {rec \in Records : rec.PrefixHit}),
                Count({rec \in sem : ~rec.Correct}))

(* The loop after the choice counts once more. *)
FinalFigures(th) ==
    LET sem == {rec \in Records : th \in rec.BestSim /\ ~rec.PrefixHit}
    IN  Figures(Count(sem), Count(sem \cup {rec \in Records : rec.PrefixHit}),
                Count({rec \in sem : ~rec.Correct}))

CorpusEnded == queries = MaxQueries

(* No working point: the bench panics. *)
NoWorkingPoint == CorpusEnded /\ Choose = 0

Report == /\ CorpusEnded
          /\ reported = {}
          /\ Choose # 0
          /\ chosen' = Choose
          /\ reported' = {FinalFigures(Thresholds[Choose])}
          /\ UNCHANGED <<cacheVars, now, queries, records>>

CorpusNext == Report \/ \E prompt \in Prompts : Query(prompt)

----------------------------------------------------------------------------
(* Type invariant; the index is one of the entries, see Cache.tla, and no  *)
(* query goes unrecorded.                                                  *)
CorpusTypeOK ==
    /\ now = Window + queries
    /\ queries \in 0..MaxQueries
    /\ \A key \in DOMAIN PrefixMap : PrefixMap[key].Timestamp \in 0..(now - 1)
    /\ \A id \in DOMAIN SemanticEntries :
          /\ SemanticEntries[id].Vector \in Vector
          /\ SemanticEntries[id].Timestamp \in 0..(now - 1)
    /\ IndexComplete
    /\ Records \subseteq Record /\ BagCardinality(records) = queries
    /\ chosen \in 0..Len(Thresholds)

(* Whatever has been stored and has expired, the search through the index, *)
(* with its order and its early end, finds what a search through all the   *)
(* entries would, for every prompt, now and until all have expired.        *)
MatchIsBest ==
    \A prompt \in Prompts, t \in now..(now + Window) :
        IsBestMatch(FindBestMatch(prompt, t), prompt, t)

(* The cache holds no two answers for nearly the same prompt within one    *)
(* window: an answer close enough to serve is never stored a second time.  *)
NoNearDuplicates ==
    \A i, j \in DOMAIN SemanticEntries :
        /\ i < j
        /\ ~Expired(SemanticEntries[i], SemanticEntries[j].Timestamp)
        => ~AtLeast(SemanticEntries[j].Vector, SemanticEntries[i].Vector, StoreNum, StoreDen)

(* The report is about the point that was chosen: counted a second time,   *)
(* the figures are those of the curve.  The false hits keep their limit to *)
(* the half thousandth that rounding hides.                                *)
ChosenPointIsReported ==
    \A final \in reported :
        LET th  == Thresholds[chosen]
            all == SemHits(th) \cup {rec \in Records : rec.PrefixHit}
        IN  /\ final = CalcTradeoffCurve[chosen]
            /\ 2000 * Count({rec \in SemHits(th) : ~rec.Correct})
                 <= (2 * MaxFalse + 1) * Count(all)

(* The greatest combined rate is found at the lowest threshold that keeps  *)
(* the limits: raising the threshold never adds a hit, and of equal rates  *)
(* the first is kept.                                                      *)
LowestWorkingPoint ==
    \A final \in reported, i \in 1..(chosen - 1) : ~Works(CalcTradeoffCurve[i])
=============================================================================
