----------------------------- MODULE MCRequests -----------------------------
(* HugeLocation, with the modules it extends, for TLC: every request up to *)
(* the largest large one for which the program is right (see the README    *)
(* for the others); the largest for each number of pages, up to the last   *)
(* bin, and the one after it while there are at most two units of 64 KB;   *)
(* and one beyond the huge sizes.  The threads are alike.                  *)
EXTENDS HugeLocation, TLC

(* The largest request that is served with n pages.                        *)
LastOf(n) == n * HUGE_GRANULARITY - HUGE_HEADER_SIZE

Largest(n) == LastOf(n) .. IF n <= 32 THEN LastOf(n) + 1 ELSE LastOf(n)

MCRequests ==
  (0 .. MAX_SEGREGATED_SIZE) \cup (MAX_SMALL_SIZE + 1 .. 8096)
    \cup UNION {Largest(n) : n \in HUGE_START .. HUGE_BINS - 1}
    \cup {MAX_LARGE_SIZE + 1, MAX_HUGE_SIZE + 1}

Threads == Permutations(Thread)
=============================================================================
