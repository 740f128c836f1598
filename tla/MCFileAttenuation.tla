-------------------------- MODULE MCFileAttenuation --------------------------
(* Files of one to three entries (the rend() outcome differs with   *)
(* the tree's shape), with a first entry at time 0 and later, rising and  *)
(* falling, and granularities of one, two and 1.5 s (truncated to 1 s).   *)
EXTENDS FileAttenuation, TLC

MCFiles ==
    { 2 :> 8,
      1 :> 5 @@ 3 :> 11,
      0 :> 10 @@ 2 :> 20 @@ 5 :> 14,
      0 :> 3 @@ 1 :> 3 @@ 4 :> 0 }

MCGranularities == {1000, 1500, 2000}

==============================================================================
