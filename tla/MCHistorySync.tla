--------------------------- MODULE MCHistorySync ---------------------------
(* Instances of HistorySync for TLC.                                        *)
EXTENDS HistorySync, TLC

CONSTANTS r1, r2

RunsSymmetry == Permutations({r1, r2})

\* What guards and effects depend on: everything but the history variable
\* upTo, the reported status and the row counters.
ControlView ==
    <<history, top, videos, photos, historyComplete, indexed, autoSync, entry,
      running, pc, chComplete, maxSeen, phase, offset, page, expired, clearing,
      rearming, importing, left>>

CountsView == <<ControlView, videoCount, photoCount>>

\* Two exports of parts of the history.
TwoExports == {{1}, {1, 2}}
=============================================================================
