----------------------------- MODULE MCSignals -----------------------------
EXTENDS Signals, TLC

\* The command line is empty, or asks for the monitoring or for help, or
\* overrides the file, which says nothing, or that the monitoring is not to
\* start, or cannot be accepted.
Given == {<<>>, "monitor" :> TRUE, "help" :> TRUE, "startup.monitor" :> TRUE}
Stored == {<<>>, "startup.monitor" :> FALSE, "monitor" :> TRUE}
=============================================================================
