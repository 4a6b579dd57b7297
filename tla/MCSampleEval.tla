---------------------------- MODULE MCSampleEval ----------------------------
(* SampleEval on small files, and what its comments claim.                 *)
EXTENDS SampleEval

\* run_sample_eval.cc:98: num_public_tests is "used to find which solutions
\* passed all public tests".
PublicPassesFound ==
  testResults # <<>> /\ compiled /\ numPublic > 0 /\ PublicTests \subseteq truth
    => testResults[Len(testResults)].passed_public_tests

\* run_sample_eval.cc:496 prints number_passed_ten_at_k_problems over k as
\* "Alphacode 10@k": the exported ten_at_k is that number.
ExportsTenAtK == \A m \in metricsFile : m.ten_at_k = m.c_cluster

\* run_sample_eval.cc:237, of pass@k: "only 1 pass needed from the whole sample".
\* When problems were evaluated and none is passed, every estimate is zero.
EstimateNeedsPass ==
  \A m \in metricsFile : m.k > 0 /\ m.c = 0 => \A k \in Ks : m.codex[k].num = 0

=============================================================================
