---------------------------- MODULE MCAdsJobs ----------------------------
(* AdsJobs on small instances; two upstream jobs let one be adopted wrongly. *)
EXTENDS AdsJobs
===========================================================================
