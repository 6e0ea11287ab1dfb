-------------------------- MODULE MCInstanceStore ---------------------------
\* A small instance of InstanceStore: three directories, two commands at a time, and a
\* package from elsewhere with a plugin and a skill the market lists.
EXTENDS InstanceStore, TLC

Symmetry == Permutations(Tasks)
=============================================================================
