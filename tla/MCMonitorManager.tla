-------------------------- MODULE MCMonitorManager --------------------------
(* Small instances of MonitorManager for TLC. *)
EXTENDS MonitorManager, TLC

\* Writers are interchangeable in the safety runs.
WriterSymmetry == Permutations(Writers)

=============================================================================
