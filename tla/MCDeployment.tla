---------------------------- MODULE MCDeployment ----------------------------
(* Instances of Deployment. *)
EXTENDS Deployment

\* A large build between two smaller ones; the last has one document.
MCMetadataSize == <<20, 30, 10>>
MCFieldSum == <<7, 12, 5>>
MCFieldDocs == <<2, 4, 1>>
=============================================================================
