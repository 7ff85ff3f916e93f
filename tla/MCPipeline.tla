----------------------------- MODULE MCPipeline -----------------------------
(* DeliveryPipeline and the service it implements, for TLC. All properties *)
(* are safety properties, so that interchangeable workers are a sound      *)
(* symmetry; tokens are drawn with CHOOSE and are none.                    *)
EXTENDS PipelineRefinement, TLC

Interchangeable == Permutations(Worker)
=============================================================================
