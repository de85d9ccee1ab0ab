------------------------------ MODULE MCManager ------------------------------
(* An instance of Manager for model checking.                               *)
EXTENDS Manager

MCProfiles == {"Intermediate", "Modern", "Old"}
MCPolicies == {"NoOpinion", "Strict"}
=============================================================================
