---- MODULE MCHoleTracker ----
EXTENDS HoleTracker

\* Bound: a stream of five bytes, ranges of any length in it.
MCBytes == 0..5
====
