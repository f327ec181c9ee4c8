---------------------------- MODULE MCOnboarding ----------------------------
(* Onboarding alone, for TLC: submissions without failures or deletions. *)
EXTENDS Onboarding
=============================================================================
