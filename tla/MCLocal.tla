------------------------------ MODULE MCLocal ------------------------------
(***************************************************************************)
(* The parts of the client that keep data in the browser and exchange it,  *)
(* checked together as in MCClient: one behaviour exercises one part, the  *)
(* others keep an initial state.  The module extends the parts, so that    *)
(* the run checks their properties as they are proved.                     *)
(***************************************************************************)
EXTENDS RecordScans, StorageSpaces, CredentialExchange, TrafficLog, UserDatabase, ContentPublishing

VARIABLE focus \* the part that moves

(* The parts that do not move start in one of their initial states.        *)
LocalInit ==
  /\ focus \in {"scans", "publishing", "database", "storage", "credentials", "traffic"}
  /\ Init /\ StorageInit /\ CredentialInit /\ PublishInit /\ DatabaseInit /\ TrafficInit
  /\ focus # "scans" => table = {} /\ kind = "page"
  /\ focus # "publishing" => atPeer = {CHOOSE s \in Peers : TRUE} /\ direct
  /\ focus # "database" => keys = "absent"
  /\ focus # "credentials" => held = 0

LocalNext ==
  \/ focus = "scans" /\ Next /\ UNCHANGED <<focus, publishVars, databaseVars, storageVars, credentialVars, trafficVars>>
  \/ focus = "publishing" /\ PublishNext /\ UNCHANGED <<focus, scanVars, databaseVars, storageVars, credentialVars, trafficVars>>
  \/ focus = "database" /\ DatabaseNext /\ UNCHANGED <<focus, scanVars, publishVars, storageVars, credentialVars, trafficVars>>
  \/ focus = "storage" /\ StorageNext /\ UNCHANGED <<focus, scanVars, publishVars, databaseVars, credentialVars, trafficVars>>
  \/ focus = "credentials" /\ CredentialNext /\ UNCHANGED <<focus, scanVars, publishVars, databaseVars, storageVars, trafficVars>>
  \/ focus = "traffic" /\ TrafficNext /\ UNCHANGED <<focus, scanVars, publishVars, databaseVars, storageVars, credentialVars>>

LocalSpec ==
  LocalInit /\ [][LocalNext]_<<focus, scanVars, publishVars, databaseVars, storageVars, credentialVars, trafficVars>>

(* Every part keeps its types.                                             *)
TypesOK ==
  CASE focus = "scans" -> TypeOK
    [] focus = "publishing" -> PublishTypeOK
    [] focus = "database" -> DatabaseTypeOK
    [] focus = "storage" -> StorageTypeOK
    [] focus = "credentials" -> CredentialTypeOK
    [] focus = "traffic" -> TrafficTypeOK
=============================================================================
