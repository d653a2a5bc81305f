------------------------------ MODULE Exchange ------------------------------
(***************************************************************************)
(* What serialize and deserialize promise together: a module that is       *)
(* handed over arrives as it was sent, and only a flawed module is kept    *)
(* back.  The CHANGELOG states it of metadata, the tests of whole modules. *)
(***************************************************************************)
CONSTANTS
    Nothing     (* no module                                                *)

VARIABLES
    sent,       (* the module handed to serialize, once it was walked       *)
    received,   (* the module deserialize returned                          *)
    outcome     (* "pending", "sent", "refused", "delivered"                *)

exchangeVars == <<sent, received, outcome>>

ExchangeInit == sent = Nothing /\ received = Nothing /\ outcome = "pending"

\* The message is complete.
Send ==
    /\ outcome = "pending"
    /\ outcome' = "sent"
    /\ sent' # Nothing
    /\ UNCHANGED received

\* No message: the module cannot be encoded.
Refuse ==
    /\ outcome = "pending"
    /\ outcome' = "refused"
    /\ UNCHANGED <<sent, received>>

\* The module that arrives is the module that was sent.
Deliver ==
    /\ outcome = "sent"
    /\ outcome' = "delivered"
    /\ received' = sent
    /\ UNCHANGED sent

ExchangeSafety == ExchangeInit /\ [][Send \/ Refuse \/ Deliver]_exchangeVars

\* What was sent is delivered: the reader accepts every message of the writer.
ExchangeSpec == ExchangeSafety /\ WF_exchangeVars(Deliver)
=============================================================================
