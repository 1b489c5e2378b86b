------------------------------ MODULE MCRunStore ------------------------------
(* Two writers and a lock-free reader over three contents: s3 is terminal   *)
(* (it only accepts a copy of itself), s1 may return (the ABA case).        *)
EXTENDS RunStore

CONSTANTS s1, s2, s3

MCStates == {s1, s2, s3}

MCSteps == {<<s1, s2>>, <<s1, s3>>, <<s2, s1>>, <<s2, s3>>, <<s3, s3>>}
=============================================================================
