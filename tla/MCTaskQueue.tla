----------------------------- MODULE MCTaskQueue -----------------------------
EXTENDS TaskQueue, TLC

\* Pods, tasks and goroutines are interchangeable.
Symmetry == Permutations(Pod) \cup Permutations(Task) \cup Permutations(Goroutine)

=============================================================================
