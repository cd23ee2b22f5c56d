-------------------------- MODULE MCMetricsServer --------------------------
(* MetricsServer and CertWatcher for TLC. *)
EXTENDS MetricsServer

=============================================================================
