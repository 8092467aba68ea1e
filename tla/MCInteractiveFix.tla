---------------------------- MODULE MCInteractiveFix ----------------------------
(* Instances of InteractiveFix for TLC: two short files of many kinds of line, one     *)
(* long file of the kinds the compact layout tells apart, and a longer one of fewer.   *)
EXTENDS InteractiveFix

CONSTANTS ShortKinds, ShortLines, LongKinds, LongLines, DeepKinds, DeepLines

Within(kinds, lines) == UNION {[1..n -> kinds] : n \in 0..lines}

TreesWithin ==
  (Within(ShortKinds, ShortLines) \X Within(ShortKinds, ShortLines))
    \cup (Within(LongKinds, LongLines) \X {<<>>})
    \cup (Within(DeepKinds, DeepLines) \X {<<>>})
=============================================================================
