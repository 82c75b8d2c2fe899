------------------------------- MODULE Metrics -------------------------------
(***************************************************************************)
(* The numbers of an evaluation: recall, ranks and percentiles of one      *)
(* query's list, and what is summed up over the queries.                   *)
(*                                                                         *)
(* A share is a pair <<hits, total>>, the fraction the code divides: of    *)
(* floats only Mean adds them up, and here it adds fractions.              *)
(***************************************************************************)
EXTENDS Integers, Sequences, FiniteSets, SequencesExt, FiniteSetsExt

CONSTANTS
  Unranked,      \* nil: not among the rows listed
  KValues,       \* the k of recall@k
  LongerThan,    \* GoldLengthThreshold
  LongGoldKeys,  \* the keys that are followed by name
  Inputs,        \* what is summed up: queries, a list of keys for each, runes by key
  Samples        \* the latencies that are measured

Query == [relevant : Seq(STRING), tags : Seq(STRING)]

\* LoadDataset refuses a query without relevant keys, and one that has a key twice.
ASSUME MetricsAssumption ==
  /\ Unranked \notin Nat
  /\ KValues \subseteq Nat \ {0} /\ KValues # {} /\ IsFiniteSet(KValues)
  /\ IsFiniteSet(LongGoldKeys)
  /\ \A input \in Inputs :
       /\ input.queries \in Seq(Query) /\ input.lists \in Seq(Seq(STRING))
       /\ Len(input.lists) = Len(input.queries)
       /\ \A i \in DOMAIN input.queries :
            input.queries[i].relevant # <<>> /\ IsInjective(input.queries[i].relevant)
  /\ Samples \subseteq Seq(Nat)

-----------------------------------------------------------------------------
(* One list of keys, the best first, and the keys that are relevant.        *)

RecallAt(ranked, relevant, k) ==
  IF relevant = <<>> \/ k < 1 THEN <<0, 1>>
  ELSE LET top == SubSeq(ranked, 1, Min({k, Len(ranked)}))
       IN  <<Quantify(DOMAIN relevant, LAMBDA i : relevant[i] \in ToSet(top)),
             Len(relevant)>>

\* slices.Index, and nil.
RankOf(ranked, key) ==
  LET at == {i \in DOMAIN ranked : ranked[i] = key}
  IN  IF at = {} THEN Unranked ELSE Min(at)

FirstRelevantRank(ranked, relevant) ==
  LET at == {i \in DOMAIN ranked : ranked[i] \in ToSet(relevant)}
  IN  IF at = {} THEN Unranked ELSE Min(at)

ReciprocalRank(ranked, relevant) ==
  LET first == FirstRelevantRank(ranked, relevant)
  IN  IF first = Unranked THEN <<0, 1>> ELSE <<1, first>>

-----------------------------------------------------------------------------
(* Samples.                                                                 *)

\* Mutant: the rank is rounded down.
PercentileRank_Floor(p, n) == Max({1, Min({n, (p * n) \div 100})})

\* ceil(p / 100 * n), at least 1 and at most n.
PercentileRank(p, n) == Max({1, Min({n, (p * n + 99) \div 100})})

\* slices.Sort: at place n is the sample that n - 1 others go before.
Sorted(samples) ==
  LET ahead(i) == {j \in DOMAIN samples :
                     samples[j] < samples[i] \/ (samples[j] = samples[i] /\ j < i)}
  IN  [n \in DOMAIN samples |->
         samples[CHOOSE i \in DOMAIN samples : Cardinality(ahead(i)) = n - 1]]

\* Nearest rank: one of the samples, and 0 without any.
Percentile(samples, p) ==
  IF samples = <<>> THEN 0
  ELSE Sorted(samples)[PercentileRank(p, Len(samples))]

LatencyStats(samples) ==
  [samples |-> Len(samples), min |-> Percentile(samples, 0), p50 |-> Percentile(samples, 50),
   p95 |-> Percentile(samples, 95), max |-> Percentile(samples, 100)]

Plus(a, b) == <<a[1] * b[2] + b[1] * a[2], a[2] * b[2]>>

\* The arithmetic mean of fractions, and 0 without any.
Mean(values) ==
  IF DOMAIN values = {} THEN <<0, 1>>
  ELSE LET sum == FoldFunction(Plus, <<0, 1>>, values)
       IN  <<sum[1], sum[2] * Cardinality(DOMAIN values)>>

-----------------------------------------------------------------------------
(* Reports of queries, and their summary.                                   *)

\* newQueryReport: everything of it is computed from the list.
QueryReport(query, ranked) ==
  [tags |-> query.tags,
   ranks |-> [i \in DOMAIN query.relevant |->
                [key |-> query.relevant[i], rank |-> RankOf(ranked, query.relevant[i])]],
   recall |-> [k \in KValues |-> RecallAt(ranked, query.relevant, k)],
   reciprocal |-> ReciprocalRank(ranked, query.relevant)]

MeanRecall(reports) ==
  [k \in KValues |-> Mean([i \in DOMAIN reports |-> reports[i].recall[k]])]

MeanReciprocalRank(reports) == Mean([i \in DOMAIN reports |-> reports[i].reciprocal])

\* groupByTag: a query may have several tags, and is in a group as often as it has
\* the tag.
TagRecall(reports) ==
  LET entries == UNION {{i} \X DOMAIN reports[i].tags : i \in DOMAIN reports}
      tagOf(e) == reports[e[1]].tags[e[2]]
      uses(tag) == {e \in entries : tagOf(e) = tag}
  IN  [tag \in {tagOf(e) : e \in entries} |->
         [queries |-> Cardinality(uses(tag)),
          recall |-> MeanRecall([e \in uses(tag) |-> reports[e[1]]])]]

WithinCutoff(rank) == rank # Unranked /\ rank <= Max(KValues)

\* The relevant keys of all the queries: which query, which of its keys.
Golds(reports) == UNION {{i} \X DOMAIN reports[i].ranks : i \in DOMAIN reports}
GoldAt(reports, g) == reports[g[1]].ranks[g[2]]
GoldsOf(reports, keys) == {g \in Golds(reports) : GoldAt(reports, g).key \in keys}

Ratio(reports, golds) ==
  <<Quantify(golds, LAMBDA g : WithinCutoff(GoldAt(reports, g).rank)), Cardinality(golds)>>

MicroRecall(reports) == Ratio(reports, Golds(reports))

\* runes is the length of the passages by key; a key without one has length 0.
GoldLengthRecall(reports, runes) ==
  LET long == GoldsOf(reports, {key \in DOMAIN runes : runes[key] > LongerThan})
  IN  [short |-> Ratio(reports, Golds(reports) \ long), long |-> Ratio(reports, long)]

LongChunkRecall(reports) ==
  [keys |-> [key \in LongGoldKeys |-> Ratio(reports, GoldsOf(reports, {key}))],
   all  |-> Ratio(reports, GoldsOf(reports, LongGoldKeys))]

Summary(reports, runes) ==
  [queries |-> Len(reports), recall |-> MeanRecall(reports),
   mrr |-> MeanReciprocalRank(reports), tags |-> TagRecall(reports),
   micro |-> MicroRecall(reports), lengths |-> GoldLengthRecall(reports, runes),
   long |-> LongChunkRecall(reports)]
-----------------------------------------------------------------------------
(* What the numbers mean, by definitions that look at the lists as sets.    *)

Equal(a, b) == a[1] * b[2] = b[1] * a[2]

\* Recall never falls with k, is all there is when every relevant key is listed
\* that far, and can be had again from the ranks of the report, as can the
\* reciprocal rank (report.go: the summary is recomputed from the raw data).
ListAgrees(query, ranked) ==
  LET report == QueryReport(query, ranked)
      places == {r.rank : r \in ToSet(report.ranks)} \ {Unranked}
  IN  /\ \A k \in KValues :
           LET value == report.recall[k]
           IN  /\ value = <<Cardinality({n \in places : n <= k}), Len(query.relevant)>>
               /\ \A j \in KValues : j <= k => report.recall[j][1] <= value[1]
               /\ (value[1] = value[2]) <=>
                    ToSet(query.relevant) \subseteq ToSet(SubSeq(ranked, 1, Min({k, Len(ranked)})))
      /\ places = {} <=> report.reciprocal = <<0, 1>>
      /\ places # {} => report.reciprocal = <<1, Min(places)>>

\* The two lengths share out the relevant keys, as the keys followed by name do
\* theirs; with as many relevant keys in each query the mean of the recalls is the
\* recall of all; and a tag that every query has once tells what no tag tells.
SummaryAgrees(queries, lists, runes) ==
  LET reports == [i \in DOMAIN queries |-> QueryReport(queries[i], lists[i])]
      s == Summary(reports, runes)
      named == [i \in {1, 2} |-> MapThenSumSet(LAMBDA key : s.long.keys[key][i], LongGoldKeys)]
      once(tag, i) == \E j \in DOMAIN queries[i].tags :
        \A n \in DOMAIN queries[i].tags : queries[i].tags[n] = tag <=> n = j
  IN  /\ s.micro = [i \in {1, 2} |-> s.lengths.short[i] + s.lengths.long[i]]
      /\ s.long.all = named
      /\ (\A i, j \in DOMAIN queries : Len(queries[i].relevant) = Len(queries[j].relevant))
           => Equal(s.micro, s.recall[Max(KValues)])
      /\ \A tag \in DOMAIN s.tags : (\A i \in DOMAIN queries : once(tag, i)) =>
           /\ s.tags[tag].queries = s.queries
           /\ \A k \in KValues : Equal(s.tags[tag].recall[k], s.recall[k])

\* A percentile is a sample, the least that p in a hundred samples do not exceed.
PercentileAgrees(samples, p) ==
  LET enough(x) == 100 * Quantify(DOMAIN samples, LAMBDA i : samples[i] <= x) >= p * Len(samples)
  IN  Percentile(samples, p) = Min({x \in ToSet(samples) : enough(x)})

\* Every percentile is right, and those of a report are between the ends and in order.
LatencyAgrees(samples) ==
  LET stats == LatencyStats(samples)
  IN  samples # <<>> =>
        /\ \A p \in 0..100 : PercentileAgrees(samples, p)
        /\ stats.min = Min(ToSet(samples)) /\ stats.max = Max(ToSet(samples))
        /\ stats.min <= stats.p50 /\ stats.p50 <= stats.p95 /\ stats.p95 <= stats.max

NumbersAgree ==
  /\ \A input \in Inputs :
       /\ \A i \in DOMAIN input.queries : ListAgrees(input.queries[i], input.lists[i])
       /\ SummaryAgrees(input.queries, input.lists, input.runes)
  /\ \A samples \in Samples : LatencyAgrees(samples)
=============================================================================
