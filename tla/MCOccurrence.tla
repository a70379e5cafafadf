------------------------------ MODULE MCOccurrence ------------------------------
(* The plan, its daemons and their properties for TLC; every constant is given *)
(* in the configuration.                                                       *)
EXTENDS OccurrenceProperties
===============================================================================
