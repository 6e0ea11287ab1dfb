-------------------------- MODULE MCInstanceProfile -------------------------
\* A small instance of InstanceProfile: a bundle that lost its built entry and a skin
\* whose live row has a name of its own.
EXTENDS InstanceProfile
=============================================================================
