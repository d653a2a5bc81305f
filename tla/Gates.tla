------------------------------- MODULE Gates -------------------------------
(***************************************************************************)
(* One gate through the writer and the reader.  The operands of a gate are *)
(* three groups, its targets, its controls and its parameters; the message *)
(* holds them in one list, and the handlers of Deserialize.cpp find the    *)
(* groups again by counting.  The handlers of the well-known gates count   *)
(* controls in a uint8_t, the others in a uint32_t.                        *)
(*                                                                         *)
(* An operand is named by its group and its place in it.                   *)
(***************************************************************************)
EXTENDS Integers, Sequences

CONSTANTS
    Gates,      (* the gates a run starts from                              *)
    U8,         (* bound: 2^8 in the code, the range of a control count     *)
    Memory      (* bound: values a vector can hold before memory is used up *)

WellKnown == {"oneTarget", "rotation", "u", "swap", "gphase"}
Kinds == WellKnown \cup {"custom", "ppr"}

\* Qubits a well-known gate acts on, and its angles.
FixedTargets(kind) ==
    CASE kind = "swap" -> 2 [] kind = "gphase" -> 0 [] OTHER -> 1
FixedParams(kind) ==
    CASE kind \in {"rotation", "gphase"} -> 1 [] kind = "u" -> 3 [] OTHER -> 0

\* A gate the verifier accepts: the counts agree with the operands.  The paulis
\* of a ppr are numbers, which it does not look at.
Gate == [kind : Kinds, targets : Nat, controls : 0 .. U8 - 1, params : Nat,
         adjoint : BOOLEAN, power : 0 .. U8 - 1, paulis : Seq(Int)]
Verified(g) ==
    /\ g.kind \in WellKnown =>
         g.targets = FixedTargets(g.kind) /\ g.params = FixedParams(g.kind)
    /\ g.kind = "ppr" => g.targets = Len(g.paulis) /\ g.params = 1
    /\ g.kind # "ppr" => g.paulis = <<>>

ASSUME GatesAssumption ==
    /\ U8 \in Nat \ {0, 1, 2}
    /\ Gates \subseteq Gate
    /\ \A g \in Gates : Verified(g)
    /\ Memory \in Nat /\ Memory >= U8

VARIABLES
    gate,       (* the operation the writer is given                        *)
    msg,        (* the message: the counts and the two lists                *)
    phase,      (* where writer and reader are, or how they ended           *)
    next,       (* i, the counter of the reader's loops                     *)
    controls,   (* the controls the reader has collected                    *)
    rebuilt,    (* the operation the reader created                         *)
    bound       (* the indices bound to results: output -> result           *)

vars == <<gate, msg, phase, next, controls, rebuilt, bound>>

----------------------------------------------------------------------------
(* The writer.                                                             *)

\* Place k of the inputs; the outputs are the places of the qubits.
Operand(g, k) ==
    IF k <= g.targets THEN <<"target", k>>
    ELSE IF k <= g.targets + g.controls THEN <<"control", k - g.targets>>
    ELSE <<"param", k - g.targets - g.controls>>

Letter(n) == CASE n = 0 -> "I" [] n = 1 -> "X" [] n = 2 -> "Y" [] OTHER -> "Z"
Encode(g) ==
    [kind |-> g.kind, controlQubits |-> g.controls, numQubits |-> g.targets,
     numParams |-> g.params, adjoint |-> g.adjoint, power |-> g.power,
     pauliString |-> [k \in DOMAIN g.paulis |-> Letter(g.paulis[k])],
     ins |-> [k \in 1 .. g.targets + g.controls + g.params |-> Operand(g, k)],
     outs |-> [k \in 1 .. g.targets + g.controls |-> Operand(g, k)]]

WriteKind(kinds) ==
    /\ phase = "write"
    /\ gate.kind \in kinds
    /\ msg' = Encode(gate)
    /\ phase' = "written"
    /\ UNCHANGED <<gate, next, controls, rebuilt, bound>>

\* serializeWellKnownGate and its handlers.
SerializeWellKnownGate == WriteKind(WellKnown)

\* serializeCustom.
SerializeCustom == WriteKind({"custom"})

\* serializePpr.
SerializePpr ==
    /\ \A k \in DOMAIN gate.paulis : gate.paulis[k] \in 0 .. 3
    /\ WriteKind({"ppr"})

\* A pauli that is not one of the four: report_fatal_error.
UnknownPauli ==
    /\ phase = "write"
    /\ \E k \in DOMAIN gate.paulis : gate.paulis[k] \notin 0 .. 3
    /\ phase' = "fatal"
    /\ UNCHANGED <<gate, msg, next, controls, rebuilt, bound>>

----------------------------------------------------------------------------
(* The reader.                                                             *)

\* The place of the first control, counted from 0.
First == IF msg.kind \in WellKnown THEN FixedTargets(msg.kind)
         ELSE IF msg.kind = "custom" THEN msg.numQubits ELSE Len(msg.pauliString)
Angles == IF msg.kind \in WellKnown THEN FixedParams(msg.kind)
          ELSE IF msg.kind = "custom" THEN msg.numParams ELSE 1

\* The loop condition of the reader; i < first + numControls is a comparison of
\* ints.
More == next < First + msg.controlQubits

\* ++i, in the type of the counter.
IncrementNarrow(n) == (n + 1) % U8
Increment(n) == IF msg.kind \in WellKnown THEN (n + 1) % U8 ELSE n + 1

\* deserializeWellKnown, deserializeCustom or deserializePpr is entered: the
\* loop over the controls starts.
BeginGate ==
    /\ phase = "written"
    /\ next' = First
    /\ phase' = "controls"
    /\ UNCHANGED <<gate, msg, controls, rebuilt, bound>>

\* controls.push_back(ctx.getValue(inputs[i])).
ReadControl ==
    /\ phase = "controls" /\ More
    /\ Len(controls) < Memory
    /\ controls' = Append(controls, msg.ins[next + 1])
    /\ next' = Increment(next)
    /\ UNCHANGED <<gate, msg, phase, rebuilt, bound>>

\* The vector cannot grow: the process ends.
MemoryUsedUp ==
    /\ phase = "controls" /\ More
    /\ Len(controls) = Memory
    /\ phase' = "exhausted"
    /\ UNCHANGED <<gate, msg, next, controls, rebuilt, bound>>

\* The place of angle k, counted from 0.
AngleAfterTargets(k) == First + k - 1
AngleAt(k) == First + msg.controlQubits + k - 1

\* The operation is created from the groups; the target results are bound.
PauliNumber(letter) ==
    CASE letter = "I" -> 0 [] letter = "X" -> 1 [] letter = "Y" -> 2 [] OTHER -> 3
CreateGate ==
    /\ phase = "controls" /\ ~More
    /\ rebuilt' =
         [kind |-> msg.kind, adjoint |-> msg.adjoint, power |-> msg.power,
          numCtrls |-> IF msg.kind \in WellKnown THEN Len(controls) % U8
                       ELSE msg.controlQubits,
          targets |-> [k \in 1 .. First |-> msg.ins[k]],
          controls |-> controls,
          params |-> [k \in 1 .. Angles |-> msg.ins[AngleAt(k) + 1]],
          paulis |-> [k \in DOMAIN msg.pauliString |-> PauliNumber(msg.pauliString[k])]]
    /\ bound' = [o \in {msg.outs[k] : k \in 1 .. First} |->
                    <<"target", CHOOSE k \in 1 .. First : msg.outs[k] = o>>]
    /\ next' = First
    /\ phase' = "results"
    /\ UNCHANGED <<gate, msg, controls>>

\* ctx.setValue(outputs[i], op.getOutCtrlQubits()[i - first]).
BindControl ==
    /\ phase = "results" /\ More
    /\ bound' = [o \in DOMAIN bound \cup {msg.outs[next + 1]} |->
                    IF o = msg.outs[next + 1] THEN <<"control", next - First + 1>>
                    ELSE bound[o]]
    /\ next' = Increment(next)
    /\ UNCHANGED <<gate, msg, phase, controls, rebuilt>>

GateDone ==
    /\ phase = "results" /\ ~More
    /\ phase' = "done"
    /\ UNCHANGED <<gate, msg, next, controls, rebuilt, bound>>

----------------------------------------------------------------------------

Init ==
    /\ gate \in Gates
    /\ msg = <<>>
    /\ phase = "write"
    /\ next = 0
    /\ controls = <<>>
    /\ rebuilt = <<>>
    /\ bound = [o \in {} |-> <<>>]

Next ==
    \/ SerializeWellKnownGate \/ SerializeCustom \/ SerializePpr \/ UnknownPauli
    \/ BeginGate \/ ReadControl \/ MemoryUsedUp \/ CreateGate
    \/ BindControl \/ GateDone

\* Writing and reading are calls that run to their end.
Spec == Init /\ [][Next]_vars /\ WF_vars(Next)

----------------------------------------------------------------------------
(* Properties.                                                             *)

\* The gate that is created is the gate that was written: each group has the
\* operands it had, in their order, and the index of each output is bound to
\* the result at the same place; also when the counter of controls wraps (the
\* loop is then not left at all).
GateRestored ==
    phase = "done" =>
        /\ rebuilt = [kind |-> gate.kind, adjoint |-> gate.adjoint, power |-> gate.power,
                      numCtrls |-> gate.controls,
                      targets |-> [k \in 1 .. gate.targets |-> <<"target", k>>],
                      controls |-> [k \in 1 .. gate.controls |-> <<"control", k>>],
                      params |-> [k \in 1 .. gate.params |-> <<"param", k>>],
                      paulis |-> gate.paulis]
        /\ \A k \in 1 .. gate.targets + gate.controls :
              bound[Operand(gate, k)] = Operand(gate, k)

\* What Deserialize.hpp:13 says of deserialize: it returns a module, or null
\* after an error has been diagnosed, whatever the number of controls; it does
\* not use up memory.
ImportReturns == phase # "exhausted"

\* The counter of a well-known gate has room for the places of its controls.
ControlsFit(g) == g.kind \in WellKnown /\ g.kind # "gphase" => g.targets + g.controls < U8

\* Every gate that was written is read to its end, if its counter has room.
GateRead == (phase = "written" /\ ControlsFit(gate)) ~> (phase = "done")
=============================================================================
