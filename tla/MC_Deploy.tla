------------------------------ MODULE MC_Deploy ------------------------------
(* Versions and builds for checking Deploy.                                *)
EXTENDS Deploy

\* The characters of a decimal number below 100.
Digits(n) == IF n < 10 THEN <<n>> ELSE <<n \div 10, n % 10>>

\* The version string "a.b.c", split at its dots.
V(a, b, c) == <<Digits(a), Digits(b), Digits(c)>>

Stable(v) == [v |-> v, ch |-> "stable", cv |-> NoCv]
Beta(v, n) == [v |-> v, ch |-> "beta", cv |-> n]

ChannelsMC == {"stable", "beta"}

\* CACHE_VERSION_AMOUNT unset: its default "-1".
KeepAll == -1

\* A first beta (a channel the manifest lacks), a stable release, then a
\* hotfix of the older line.
Release180 == Stable(V(1, 8, 0))
PassBuilds == <<Beta(V(1, 9, 0), 1), Stable(V(1, 9, 0)), Stable(V(1, 8, 1))>>

\* The next minor release after 1.9.0.
Release190 == Stable(V(1, 9, 0))
MinorTenBuilds == <<Stable(V(1, 10, 0))>>

\* Two stable releases, so that two zips of one channel can be left in
\* TEMP_DIR by failed jobs.
RerunBuilds == <<Stable(V(1, 9, 0)), Stable(V(1, 9, 1))>>
=============================================================================
