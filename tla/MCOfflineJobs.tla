---------------------------- MODULE MCOfflineJobs ----------------------------
(* TLC's view of OfflineJobs: watch folder entries and their titles.        *)
EXTENDS OfflineJobs, TLC

CONSTANTS p1, p2, t1, t2

OwnTitles == (p1 :> t1) @@ (p2 :> t2)
=============================================================================
