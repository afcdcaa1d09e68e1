------------------------------ MODULE MCFileGate ------------------------------
\* FileGate on small instances: files are interchangeable.
EXTENDS FileGate, TLC

Files == Permutations(File)
=============================================================================
