----------------------------- MODULE MCDelivery -----------------------------
(***************************************************************************)
(* Small instances of Delivery for TLC.  The gate's commands are those of  *)
(* a configured repository.                                                *)
(***************************************************************************)
EXTENDS Delivery, Config

Repositories ==
  <<[name |-> "service", padded |-> FALSE, ownerAndRepo |-> TRUE, branch |-> "",
     commands |-> <<"lint", "test">>, timeout |-> 0]>>

\* The repository is accepted, with the default branch and timeout filled in.
ASSUME RepositoryAccepted ==
  /\ ValidRepos(Repositories)
  /\ Completed(Repositories[1]).branch = "main"
  /\ Completed(Repositories[1]).timeout = 5 * Minute

ConfiguredCommands == Len(LookUp(Repositories, "service"))
=============================================================================
