------------------------------ MODULE MCFat32 ------------------------------
(* Small volumes for TLC: two names, absolute and relative paths. *)
EXTENDS Fat32

\* An absolute path that walks over ".." at the root, and relative ones whose
\* meaning depends on the current directory: "b" may be in the root, in "/a" or
\* in itself.
ShortPaths ==
  {Absolute(<<"..", "a">>), Relative(<<"b">>), Relative(<<"..">>)}

\* A cluster in the middle of the volume is bad.
BadCluster == {[read |-> none, data |-> 4]}

\* What the driver goes on to do after a harm is not explored.
WhileSound == Sound

=============================================================================
