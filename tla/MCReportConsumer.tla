--------------------------- MODULE MCReportConsumer ---------------------------
(* Instances of ReportConsumer for TLC. *)
EXTENDS ReportConsumer
==============================================================================
