--------------------------- MODULE MC_LegacyDeploy ---------------------------
(* Versions and builds for checking LegacyDeploy.                          *)
EXTENDS LegacyDeploy

\* The characters of a decimal number below 100.
Digits(n) == IF n < 10 THEN <<n>> ELSE <<n \div 10, n % 10>>

\* The version string "a.b.c", split at its dots.
V(a, b, c) == <<Digits(a), Digits(b), Digits(c)>>

\* CACHE_VERSION_AMOUNT unset: its default "-1".
KeepAll == -1

\* The release in the bucket, and a release candidate of the next that
\* CI builds twice.
Legacy180 == V(1, 8, 0)
RebuiltCandidate == <<V(1, 9, 0), V(1, 9, 0)>>
=============================================================================
