------------------------------ MODULE Metadata ------------------------------
(***************************************************************************)
(* The metadata of an operation, and one list of it on its way through a   *)
(* message.  What a list holds does not matter to where it is stored, nor  *)
(* the other way round: each behaviour is one of either, while the other   *)
(* rests in a state of its own.                                            *)
(***************************************************************************)
EXTENDS MetadataStorage, MetadataPayload

VARIABLE active

AnyOperation == CHOOSE x \in Operations : TRUE

MetadataInit ==
    /\ active \in {"storage", "payload"}
    /\ \E x \in Operations :
          /\ active # "storage" => x = AnyOperation
          /\ shape = x.shape /\ attrs = x.storage
    /\ called = NoCall /\ failed = FALSE
    /\ IF active = "payload" THEN PayloadInit ELSE InitStored /\ entries = <<>> /\ framed = FALSE

StorageStep == active = "storage" /\ Next /\ UNCHANGED <<active, payloadVars>>
PayloadStep == active = "payload" /\ PayloadNext /\ UNCHANGED <<active, vars>>

MetadataSpec ==
    MetadataInit /\ [][StorageStep \/ PayloadStep]_<<active, vars, payloadVars>>

\* Attributes keep their form, lists of rows and tables of rows, and lists of a message are lists
\* of what such a list holds.
MetadataTypeOK == TypeOK /\ PayloadTypeOK
=============================================================================
