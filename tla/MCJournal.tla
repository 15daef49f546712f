----------------------------- MODULE MCJournal -----------------------------
\* A small instance of the journal for TLC: one viewer, since viewers share only
\* the journal and never act on it.
EXTENDS Journal
=============================================================================
