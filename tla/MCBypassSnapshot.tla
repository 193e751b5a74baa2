-------------------------- MODULE MCBypassSnapshot --------------------------
(* Small instances of BypassSnapshot. *)
EXTENDS BypassSnapshot, TLC

CONSTANTS c1, c2, a1, t1, t2

TwoConfigs  == {c1, c2}
OneHandler  == {a1}
TwoSlots    == {t1, t2}

Symmetric == Permutations(TwoConfigs) \cup Permutations(TwoSlots)

\* live is written again before it is read while a goroutine runs, and box
\* before it is read while the container is down.
View == <<snaps, up, req, job, faults, IF up THEN box ELSE <<>>,
          IF Busy = {} THEN live ELSE "unknown">>
=============================================================================
