---- MODULE MCHungarian ----
\* Every connection matrix of three previous and four current boxes.  Smaller
\* ones appear as blocks of these: a block shares no row and no column with
\* the rest, and the search never looks across blocks.
EXTENDS Hungarian
MCLeft  == 3
MCRight == 4
====
