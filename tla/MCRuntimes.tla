----------------------------- MODULE MCRuntimes -----------------------------
\* A small instance of Runtimes: two versions, two trees of which one has a file more.
EXTENDS Runtimes, TLC

FoundOutside == {{}, {"path"}, {"bundled"}, {"override"}}
Symmetry == Permutations(Threads)
=============================================================================
