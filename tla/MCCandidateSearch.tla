-------------------------- MODULE MCCandidateSearch --------------------------
(* A small instance of CandidateSearch for TLC. *)
EXTENDS CandidateSearch, TLC

CONSTANTS p1, p2, t1, t2

\* A band of two planes, which tells the two people apart, and a band of one,
\* which does not.
Planes == << << <<1, -2>>, <<-2, 1>> >>, << <<1, 1>> >> >>

Enrolled == (p1 :> <<100, 0>>) @@ (p2 :> <<0, 100>>)

\* In turn: in a bucket of both people, again of both, of p1 alone, of nobody.
\* (Exchanging the people and the two coordinates changes nothing else, so one
\* that meets p2 alone would show no more.)
Live == {<<100, 0>>, <<0, 100>>, <<60, -80>>, <<-71, -71>>}

\* The tasks are alike; the people are not, for their faces differ.
Symmetry == Permutations({t1, t2})

\* Bound: a behaviour ends with the step that ends another call's transaction,
\* of which the properties say nothing more, and with the one that leaves a key
\* behind, which only makes that person's next enrollment fail.
Bounded == ~hist.stolen /\ ~hist.uncleaned
=============================================================================
