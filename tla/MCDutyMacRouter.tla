-------------------------- MODULE MCDutyMacRouter ---------------------------
(***************************************************************************)
(* Model-checking instance of DutyMacRouter: small address set and queues, *)
(* the bounds themselves are given in each .cfg.                           *)
(***************************************************************************)
EXTENDS DutyMacRouter

MCAddr == {1, 2}

=============================================================================
