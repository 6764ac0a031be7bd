---------------------------- MODULE MCManagerDB -----------------------------
EXTENDS ManagerDB

\* The keys and values of the corpus databases, for TLC.
MCKey == [prog : Prog, hash : Hash]
MCVal == Prog \cup Hash
=============================================================================
