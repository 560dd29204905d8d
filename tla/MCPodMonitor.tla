----------------------------- MODULE MCPodMonitor -----------------------------
EXTENDS PodMonitor, TLC

CONSTANTS p1

Without == [Default EXCEPT !.ExcludedPods = {p1}]

\* Switched off, with a null list.
Off == [Default EXCEPT !.Enabled = FALSE, !.ExcludedPods = NoList]

\* Beyond the limits, and without the pod.
Wild == [Without EXCEPT !.LogScanIntervalSeconds = 86401, !.LogWindowSeconds = 59,
                        !.MetricsPollIntervalSeconds = 14]

MCInputs == {Wild, Off}
MCTwoInputs == {Default, Without}
MCOneInput == {Without}
MCCallers == SettingsRequests \cup Scans \cup Polls
=============================================================================
