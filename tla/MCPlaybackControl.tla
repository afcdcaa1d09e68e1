-------------------------- MODULE MCPlaybackControl --------------------------
\* PlaybackControl on small instances: viewers are interchangeable.
EXTENDS PlaybackControl, TLC

Viewers == Permutations(User \ {Host})
=============================================================================
