------------------------------- MODULE MCCache -------------------------------
EXTENDS Cache, TLC

Config(policy, maxEntries) ==
  [MaxSize |-> 4, MaxEntries |-> maxEntries, MaxAge |-> 1, EvictionPolicy |-> policy]

\* Room for three keys in number, or for two.
Both == {Config(p, n) : p \in {"LRU", "FIFO"}, n \in {2, 3}}

Symmetry == Permutations(Key) \cup Permutations(Value)

=============================================================================
