---------------------------- MODULE ResultsTally ----------------------------
(***************************************************************************)
(* The numbers of a results event, as functions of the vote documents that *)
(* the aggregation matched, of the groups its cursor gave before it ended  *)
(* (getVoteCountsForQuestion) and of the options the question has          *)
(* (calculateQuestionResults): e.votes and e.groups.  sel[v] is the array  *)
(* selected_options of document v: any non-empty sequence of integers, for *)
(* nothing checks that they are indices of options or differ.              *)
(***************************************************************************)
EXTENDS Integers, Sequences, FiniteSets, FiniteSetsExt

\* Mutant: a document counts once, however many options it selects.
FirstOnly(docs, sel) == docs \X {1}

\* $unwind: one document for each entry of selected_options.
Unwind(docs, sel) == UNION {{v} \X DOMAIN sel[v] : v \in docs}

\* The groups $group makes: the values that occur in the arrays.
Groups(docs, sel) == {sel[d[1]][d[2]] : d \in Unwind(docs, sel)}

\* The count of a group.
GroupCount(docs, sel, option) ==
  Cardinality({d \in Unwind(docs, sel) : sel[d[1]][d[2]] = option})

\* voteCounts: a Go map, which gives 0 for an option no group was read of.
OptionCount(e, sel, option) ==
  IF option \in e.groups THEN GroupCount(e.votes, sel, option) ELSE 0

\* totalVotes: the sum over all groups read, those of no option included.
TotalVotes(e, sel) ==
  MapThenSumSet(LAMBDA g : OptionCount(e, sel, g), e.groups)

\* The loop over question.Options: indices from 0.
OptionIndices(number) == 0..(number - 1)

\* OptionCount.Percentage, truncated; the code computes it in floating point.
Percentage(count, total) == IF total > 0 THEN (count * 100) \div total ELSE 0

\* The documents counted whose arrays name something else than an option.
OutOfRange(docs, sel, number) ==
  {v \in docs : \E n \in DOMAIN sel[v] : sel[v][n] \notin OptionIndices(number)}

\* The documents that name an option more than once.
Repeating(docs, sel) ==
  {v \in docs : \E m, n \in DOMAIN sel[v] : m # n /\ sel[v][m] = sel[v][n]}

\* Reference: how many options the documents select, each of them once.
Selected(docs, sel) == MapThenSumSet(LAMBDA v : Len(sel[v]), docs)

\* What the numbers of the options add up to.
SumOverOptions(e, sel, number) ==
  MapThenSumSet(LAMBDA i : OptionCount(e, sel, i), OptionIndices(number))
=============================================================================
