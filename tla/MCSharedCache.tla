---------------------------- MODULE MCSharedCache ----------------------------
EXTENDS SharedCache, TLC

ScSymmetry == Permutations(Conn) \cup Permutations(Value)

\* Bound: while a connection reads uncommitted data, or is to read it, the other ones
\* only write.
Dirty(c) == readUncommitted[c] \/ vm[c]["read"].dirty
OneDirtyReader ==
  \A c, d \in Conn : c # d /\ Dirty(c) => ~Dirty(d) /\ vm[d]["read"].at = "idle"
=============================================================================
