---------------------------- MODULE MCCaseCatalog ----------------------------
(* All registered cases.                                                   *)
EXTENDS CaseRules

MCCases == DOMAIN Workflow
=============================================================================
