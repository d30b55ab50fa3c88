------------------------------ MODULE MCFiles ------------------------------
\* Files with one file, a name the host denies and one that is nowhere, and words
\* of two bits: 0, 1 and -1 for distances, a position that looks like a failure
\* and one beyond a word; a program that writes up to one byte more than there is
\* room for.
EXTENDS Files

MCTexts == {<< >>, <<1>>, <<1, 1>>, <<1, 1, 1>>}
=============================================================================
