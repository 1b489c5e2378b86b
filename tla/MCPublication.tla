----------------------------- MODULE MCPublication -----------------------------
(* Two artifacts of the chain proposal -> specs -> ...                        *)
EXTENDS Publication
SomeArtifacts == {"proposal", "specs"}
SomeRequires == [a \in SomeArtifacts |-> IF a = "specs" THEN {"proposal"} ELSE {}]
=============================================================================
