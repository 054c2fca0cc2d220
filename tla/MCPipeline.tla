----------------------------- MODULE MCPipeline -----------------------------
(* Small instances of Pipeline: one channel and one chunk; two releases of  *)
(* equal size, so that a rewrite can leave the stamp as it was, and a       *)
(* content that is no release; a budget of three bytes, which a release and *)
(* the chunk fill and the third content alone exceeds.                      *)
EXTENDS Pipeline, TLC

CONSTANTS m1, c1, a, b, g, k

Sizes    == a :> 1 @@ b :> 1 @@ g :> 4 @@ k :> 2
OneChunk == c1 :> k
Sequence == a :> 1 @@ b :> 2
=============================================================================
