--------------------------- MODULE MCReportStore ---------------------------
(* Instances of ReportStore for TLC: two files, which is enough for one    *)
(* flusher to hold a batch while the other record moves, and one live-CSV  *)
(* request.                                                                *)
EXTENDS ReportStore, TLC

CONSTANTS f1, f2

FilesSymmetry == Permutations({f1, f2})
=============================================================================
