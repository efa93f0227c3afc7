------------------------- MODULE MCIncrementalBuild -------------------------
(* TLC values for IncrementalBuild: two inputs that share one header.      *)
EXTENDS IncrementalBuildInv, TLC

CONSTANTS h, v1, v2

OneHeader == {h}
FirstInput == {1}
OneContent == {v1}
TwoContents == {v1, v2}

\* A same-size edit, "the common case for a C++ header tweak".
SameSize == [c \in {v1, v2} |-> 1]
OneSize == [c \in {v1} |-> 1]

\* Only one version of an input includes the header.
IncludesSome == [c \in {v1, v2} |-> IF c = v1 THEN {h} ELSE {}]
IncludesAlways == [c \in {v1} |-> {h}]

\* Configurations are interchangeable.
Alike == Permutations(ParseCfgs) \union Permutations(RenderCfgs)
=============================================================================
