-------------------------- MODULE MCManagedMember ---------------------------
EXTENDS ManagedMember
=============================================================================
