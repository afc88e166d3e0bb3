----------------------------- MODULE MCExportFs -----------------------------
(* exportfs with small numbers of tags and slaves.                         *)
EXTENDS ExportFs
=============================================================================
