--------------------------- MODULE MCFilterBlock ---------------------------
(***************************************************************************)
(* TLC's instance of FilterBlock: three keys whose probes overlap in part, *)
(* and block offsets that share a window, touch its end and skip a window. *)
(***************************************************************************)
EXTENDS FilterBlock, TLC

CONSTANTS a, b, c

\* Double hashing: h grows by delta in every round.
MCHash ==
  LET h     == a :> 3 @@ b :> 3 @@ c :> 71
      delta == a :> 8 @@ b :> 5 @@ c :> 8
  IN  [key \in {a, b, c} |-> [j \in 0..29 |-> h[key] + j * delta[key]]]

=============================================================================
