------------------------------ MODULE Sampling ------------------------------
(***************************************************************************)
(* internal/collect: how the subscription samples of a run are chosen.     *)
(* The budget is dealt to the panels round by round, then every panel      *)
(* draws its share from its candidates in two passes.  Both are            *)
(* deterministic: the same candidates give the same samples, which is what *)
(* makes the samples of two runs comparable.                               *)
(***************************************************************************)
EXTENDS SequencesExt

\* The members of a set of numbers in increasing order.
Ascending(S) == [k \in 1..Cardinality(S) |-> CHOOSE i \in S : Cardinality({j \in S : j <= i}) = k]

\* What is left of a sequence without the values that are not in S.
Those(s, S) == LET kept == Ascending({i \in DOMAIN s : s[i] \in S})
               IN [k \in DOMAIN kept |-> s[kept[k]]]

Total(b) == MapThenSumSet(LAMBDA p : b[p], DOMAIN b)

\* Mutant: the first panel is served to the end before the next one.
TurnOf_DepthFirst(order, t, cap) == order[((t - 1) \div cap) + 1]

TurnOf(order, t, cap) == order[((t - 1) % Len(order)) + 1]

\* The round robin: each turn offers one unit to the next panel of `order`, round
\* after round, until the cap is reached or nobody can take one.
Deal(order, eligible, cap) ==
  LET turns == Len(order) * cap
      dealt[t \in 0..turns] ==
        IF t = 0 THEN [p \in DOMAIN eligible |-> 0]
        ELSE LET b == dealt[t - 1]
                 p == TurnOf(order, t, cap)
             IN IF Total(b) < cap /\ b[p] < eligible[p] THEN [b EXCEPT ![p] = @ + 1] ELSE b
  IN dealt[turns]

\* A candidate is [stratum, rank, ...].  The first ones with each value of a field
\* that is not among the `known` ones, in order.
FirstOfEach(candidates, field, known) ==
  LET new == {i \in DOMAIN candidates :
                /\ candidates[i][field] \notin known
                /\ \A j \in 1..(i - 1) : candidates[j][field] # candidates[i][field]}
      positions == Ascending(new)
  IN [k \in DOMAIN positions |-> candidates[positions[k]]]

Truncated(s, n) == SubSeq(s, 1, Min({n, Len(s)}))

\* Mutant: only the pass that fills the budget.
Select_OnePass(candidates, n) == Truncated(FirstOfEach(candidates, "rank", {}), n)

\* Mutant: the second pass has the budget of the first.
Select_OverCap(candidates, n) ==
  LET first == Truncated(FirstOfEach(candidates, "stratum", {}), n)
      ranks == {first[i].rank : i \in DOMAIN first}
  IN first \o Truncated(FirstOfEach(candidates, "rank", ranks), n)

\* One sample per stratum first, then whatever is left, no rank twice.
Select(candidates, n) ==
  LET first == Truncated(FirstOfEach(candidates, "stratum", {}), n)
      ranks == {first[i].rank : i \in DOMAIN first}
  IN first \o Truncated(FirstOfEach(candidates, "rank", ranks), n - Len(first))
=============================================================================
