---------------------- MODULE MCE2SubscriptionManager ----------------------
(* Two request ids (one of them the default id), KPM (supported) and RC    *)
(* (offered, but unknown to the subscription manager), a report action and *)
(* an insert action the service model admits and a report action it does   *)
(* not.                                                                    *)
EXTENDS E2SubscriptionManager

CONSTANTS k0, k1, kpm, rc, report, insert, other

MCKeys == {k0, k1}
MCRanFunctions == {kpm, rc}
MCSupported == {kpm}
MCActions == {report, insert, other}
MCReportActions == {report, other}
MCSupportedActions == {report, insert}

=============================================================================
