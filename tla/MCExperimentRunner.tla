------------------------- MODULE MCExperimentRunner -------------------------
(***************************************************************************)
(* Configurations of up to four lines: two sections with a key each, or    *)
(* one with several, keys before the first section, a repeated section.    *)
(***************************************************************************)
EXTENDS ExperimentRunner

MCModeLists == {<< >>, <<"full", "baseline">>}
=============================================================================
