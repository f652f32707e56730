-------------------------- MODULE MCReportContent --------------------------
EXTENDS ReportContent

MCEvents == 1 .. 2

(* The last report is checked when it is made, and not edited any more.    *)
HasRoom == Len(reports) < MaxReports
=============================================================================
