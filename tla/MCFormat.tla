------------------------------ MODULE MCFormat ------------------------------
(***************************************************************************)
(* What travels in a message and how it is kept: a gate, a block of        *)
(* instructions, a type, a file.  The four components share no state; each *)
(* behaviour is one of one component, while the others rest in a state of  *)
(* their own.                                                              *)
(***************************************************************************)
EXTENDS MCGates, MCInstructions, MCTypeEncoding, MCFileExchange

VARIABLE active

allVars == <<active, vars, blockVars, tripVars, fileVars>>

AnyGate == CHOOSE g \in Gates : TRUE
AnyType == CHOOSE t \in Types : TRUE

FormatInit ==
    /\ active \in {"gate", "block", "type", "file"}
    /\ gate \in (IF active = "gate" THEN Gates ELSE {AnyGate}) /\ Init
    /\ BlockInit
    /\ type \in (IF active = "type" THEN Types ELSE {AnyType}) /\ TripInit
    /\ (active # "file" => file = Absent) /\ FileInit

GateStep  == active = "gate"  /\ Next      /\ UNCHANGED <<active, blockVars, tripVars, fileVars>>
BlockStep == active = "block" /\ BlockNext /\ UNCHANGED <<active, vars, tripVars, fileVars>>
TypeStep  == active = "type"  /\ TripNext  /\ UNCHANGED <<active, vars, blockVars, fileVars>>
FileStep  == active = "file"  /\ FileNext  /\ UNCHANGED <<active, vars, blockVars, tripVars>>

FormatSpec ==
    /\ FormatInit
    /\ [][GateStep \/ BlockStep \/ TypeStep \/ FileStep]_allVars
    /\ WF_vars(GateStep)
    /\ WF_fileVars(active = "file" /\ SerializeToFile)
=============================================================================
