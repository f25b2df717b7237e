----------------------------- MODULE RankingImpact -----------------------------
(***************************************************************************)
(* What a simulation did to a ranking:                                     *)
(*   simulation/ranking_impact_analyzer.py                                 *)
(* over the rows of an execution. Ratios are pairs [of, over], of which    *)
(* only the correlation is rounded; names and messages are left out.       *)
(***************************************************************************)
EXTENDS SimulationScoring

Rows(n, P(_)) == Cardinality({c \in DOMAIN n : P(n[c])})

\* _analyze_overview, _analyze_score_movement and _analyze_rank_movement: the same counts.
Movement(changes) ==
  LET up == Rows(changes, LAMBDA k : k > 0)
      down == Rows(changes, LAMBDA k : k < 0)
  IN [up |-> up, down |-> down, unchanged |-> Len(changes) - up - down,
      total |-> SumOver(changes, LAMBDA k : k)]

\* _analyze_shortlist_impact
ShortlistImpact(rows) ==
  LET before == Rows(rows, LAMBDA r : r.baseline.listed)
      after == Rows(rows, LAMBDA r : r.simulation.listed)
      retained == Rows(rows, LAMBDA r : r.baseline.listed /\ r.simulation.listed)
      entering == after - retained
      leaving == before - retained
  IN [retained |-> retained, entering |-> entering, leaving |-> leaving,
      jaccard |-> [of |-> retained, over |-> entering + before],
      retention |-> [of |-> retained, over |-> before],
      turnover |-> [of |-> entering + leaving, over |-> Greatest(before, 1)],
      expansion |-> after - before]

\* _analyze_qualification_matrix
QualificationMatrix(rows) ==
  [was \in BOOLEAN |-> [is \in BOOLEAN |->
     Rows(rows, LAMBDA r : r.baseline.qualified = was /\ r.simulation.qualified = is)]]

\* Bounds of the buckets of ranks and the bands of scores; the last bucket has no upper one.
RankBuckets == <<[lower |-> 1, upper |-> 5], [lower |-> 6, upper |-> 10], [lower |-> 11, upper |-> 20],
                 [lower |-> 21, upper |-> 50], [lower |-> 51, upper |-> Unset]>>
ScoreBands == <<[lower |-> 0, upper |-> 49], [lower |-> 50, upper |-> 59], [lower |-> 60, upper |-> 69],
                [lower |-> 70, upper |-> 79], [lower |-> 80, upper |-> 89], [lower |-> 90, upper |-> 100]>>

\* _analyze_rank_distribution and _analyze_score_distribution
Distribution(values, bounds) ==
  [b \in DOMAIN bounds |->
     Rows(values, LAMBDA v : /\ bounds[b].lower <= v
                             /\ bounds[b].upper = Unset \/ v <= bounds[b].upper)]

\* _classify_movement
MovementCategory(change) ==
  IF change >= 10 THEN "significantly_improved"
  ELSE IF change >= 3 THEN "improved"
  ELSE IF change <= -10 THEN "significantly_declined"
  ELSE IF change <= -3 THEN "declined" ELSE "unchanged"

\* round(n / d, 4), in ten-thousandths
Whole == 10000
FourDigits(n, d) == Round(Whole * n, d)

\* _spearman_rank_correlation, to four digits; NoCorrelation where the code returns None.
NoCorrelation == [of |-> Unset, over |-> 0]
Correlation(rows) ==
  LET n == Cardinality(DOMAIN rows)
      squares == SumOver(rows, LAMBDA r : RankChange(r) * RankChange(r))
  IN IF n < 2 \/ Cardinality({rows[c].baseline.rank : c \in DOMAIN rows}) = 1
              \/ Cardinality({rows[c].simulation.rank : c \in DOMAIN rows}) = 1
     THEN NoCorrelation
     ELSE [of |-> FourDigits(n * (n * n - 1) - 6 * squares, n * (n * n - 1)), over |-> Whole]

\* _analyze_rank_stability
Stability(rows) ==
  [unchanged |-> Rows(rows, LAMBDA r : RankChange(r) = 0), correlation |-> Correlation(rows),
   meaningful |-> Rows(rows, LAMBDA r : RankChange(r) >= 3 \/ RankChange(r) <= -3)]

\* _top_movers, by the change, then by the name (here the number).
TopMovers(rows, up, limit) ==
  LET gain(c) == IF up THEN RankChange(rows[c]) ELSE - RankChange(rows[c])
      Before(c, d) == gain(c) > gain(d) \/ (gain(c) = gain(d) /\ c < d)
      movers == {c \in DOMAIN rows : gain(c) > 0}
  IN {c \in movers : Cardinality({d \in movers : Before(d, c)}) < limit}

----------------------------------------------------------------------------
Halves == {"baseline", "simulation"}
Altogether(counts) == SumOver(counts, LAMBDA k : k)

\* What some candidates gain in rank others lose.
RanksBalance(rows) ==
  LET ranks == Movement([c \in DOMAIN rows |-> RankChange(rows[c])])
  IN ranks.total = 0 /\ (ranks.up = 0 <=> ranks.down = 0)

\* Every candidate is in one bucket and in one band, before and after.
EveryoneIsPlaced(rows) ==
  \A h \in Halves :
    /\ Altogether(Distribution([c \in DOMAIN rows |-> rows[c][h].rank], RankBuckets)) = Len(rows)
    /\ Altogether(Distribution([c \in DOMAIN rows |-> rows[c][h].score], ScoreBands)) = Len(rows)

\* The correlation, whose formula needs ranks without ties, is in -1..1, and 1 if no rank
\* moved. Of at most 62 candidates it is 1 only then: of more, two may swap their ranks
\* and four digits do not tell.
CorrelationFits(rows) ==
  LET stability == Stability(rows)
      rho == stability.correlation
  IN /\ rho # NoCorrelation => rho.of \in -rho.over..rho.over
     /\ Len(rows) > 1 /\ stability.unchanged = Len(rows) => rho.of = rho.over
     /\ Len(rows) \in 2..62 /\ rho.of = rho.over => stability.unchanged = Len(rows)

\* The shortlist grows by those who enter without those who leave, and as its size does.
ShortlistAddsUp(rows, before, after) ==
  LET shortlist == ShortlistImpact(rows)
  IN /\ shortlist.expansion = shortlist.entering - shortlist.leaving
     /\ shortlist.jaccard.of <= shortlist.jaccard.over
     /\ shortlist.expansion = Least(Len(rows), after) - Least(Len(rows), before)

\* The matrix counts those who become qualified and those who no longer are.
QualifiedAddUp(rows) ==
  LET matrix == QualificationMatrix(rows)
  IN matrix[FALSE][TRUE] - matrix[TRUE][FALSE] =
       Rows(rows, LAMBDA r : r.simulation.qualified) - Rows(rows, LAMBDA r : r.baseline.qualified)

\* The lists of movers have five of those who move if there are so many, and the categories
\* agree with the count of meaningful moves.
MoversAgree(rows) ==
  LET ranks == Movement([c \in DOMAIN rows |-> RankChange(rows[c])])
  IN /\ Stability(rows).meaningful =
          Rows(rows, LAMBDA r : MovementCategory(RankChange(r)) # "unchanged")
     /\ \A up \in BOOLEAN :
          Cardinality(TopMovers(rows, up, 5)) = Least(5, IF up THEN ranks.up ELSE ranks.down)

\* The sections of an analysis, computed apart, tell one story of any two configurations.
\* (The rows are bound by a quantifier over one value, which TLC evaluates once.)
ImpactAddsUp ==
  Is("simulation") =>
    \A rows \in {ResultRows(subject.candidates, subject.baseline, subject.simulation)} :
      /\ RanksBalance(rows)
      /\ EveryoneIsPlaced(rows)
      /\ CorrelationFits(rows)
      /\ ShortlistAddsUp(rows, subject.baseline.shortlist, subject.simulation.shortlist)
      /\ QualifiedAddUp(rows)
      /\ MoversAgree(rows)
=============================================================================
