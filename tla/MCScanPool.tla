----------------------------- MODULE MCScanPool -----------------------------
(* Three files through two workers, with two detectors each.              *)
EXTENDS ScanPool
=============================================================================
