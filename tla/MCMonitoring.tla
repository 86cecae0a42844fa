---------------------------- MODULE MCMonitoring ----------------------------
\* A connection of the monitor with few requests, chunks and live records.
EXTENDS Monitoring
=============================================================================
