------------------------ MODULE IngestionRefinement ------------------------
(***************************************************************************)
(* Concurrent ingestion implements the register of SourceRegister: the     *)
(* transaction that closes a job is where its operation takes effect.      *)
(***************************************************************************)
EXTENDS IngestionLifecycle

SR == INSTANCE SourceRegister WITH
    current    <- active,
    generation <- Generation,
    revision   <- corpusRev,
    asked      <- plan,
    submitted  <- {j \in Jobs : status[j] # "ABSENT"},
    done       <- {j \in Jobs : status[j] \in Finished}

(* Every step of a call, of a crash, of a retry and of retirement is one   *)
(* compare-and-swap of the register or leaves it alone.                    *)
ImplementsRegister == SR!RegisterSpec

=============================================================================
