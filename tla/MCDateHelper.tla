---------------------------- MODULE MCDateHelper ----------------------------
(* Every day of the last year of the nineteenth century, a leap year and a     *)
(* century that is no leap year, weeks that begin on Monday, Saturday and      *)
(* Sunday, offsets of more than a year both ways.                              *)
EXTENDS DateHelper
=============================================================================
