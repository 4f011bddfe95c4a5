----------------------------- MODULE Identities -----------------------------
(***************************************************************************)
(* What the agents and the framework manager have in common: the uid each  *)
(* agent makes up for itself.  An agent draws it as its host name and a    *)
(* random number; the modules take it to be the agent's alone.             *)
(***************************************************************************)
CONSTANT Uids
=============================================================================
