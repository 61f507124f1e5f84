--------------------------- MODULE MCJavaRuntimes ---------------------------
(* Instances of JavaRuntimes for TLC: three installs, two of one release. *)
EXTENDS JavaRuntimesProperties

SameAndDifferent == {<<21, 21, 17>>}
=============================================================================
