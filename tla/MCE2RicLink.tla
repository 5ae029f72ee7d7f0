---------------------------- MODULE MCE2RicLink ----------------------------
(* Two request ids, KPM and RC, an admissible report and an admissible     *)
(* insert action, at most one pending indication before the next period.   *)
EXTENDS E2RicLink

CONSTANTS k0, k1, kpm, rc, report, insert

MCKeys == {k0, k1}
MCRanFunctions == {kpm, rc}
MCSupported == {kpm}
MCActions == {report, insert}
MCReportActions == {report}
=============================================================================
