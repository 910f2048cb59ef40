----------------------------- MODULE MCStreamRoute -----------------------------
\* Model-checking instances of StreamRoute: model values for sessions.
EXTENDS StreamRoute, TLC

CONSTANTS a, b

\* Session ids are interchangeable.
SessSymmetry == Permutations(Sess)
================================================================================
