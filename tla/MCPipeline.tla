----------------------------- MODULE MCPipeline -----------------------------
(* Small instances of Pipeline for TLC. *)
EXTENDS PipelineProperties, TLC

CONSTANTS w1, w2, a1, a2, a3, a4, f1, f2, fm, dev, prod

\* Both messengers' synthetic alerts: the fingerprints only have to differ
\* from those of webhook alerts.
SameMentionFp == [m \in Messenger |-> fm]

\* Workers run the same loop, and alert instances are told apart by nothing
\* but their data.
PipelineSymmetry == Permutations(Worker) \cup Permutations(Alert)
=============================================================================
