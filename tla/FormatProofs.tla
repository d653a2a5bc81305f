---------------------------- MODULE FormatProofs ----------------------------
(***************************************************************************)
(* Proofs about what travels in a message and how it is kept: a gate, a    *)
(* type, an operation of a block, a file.  The components share no state,  *)
(* so each has its own invariant and its own theorems:                     *)
(*   - Gates: the gate handlers restore a gate, for every width of the     *)
(*     counter, every number of targets, controls and parameters;          *)
(*   - TypeEncoding: only the first trip of a type can change it, for      *)
(*     every set of types and every width of the fields of a file; what    *)
(*     the reader makes of a record fits the fields it is written to, the  *)
(*     writer takes it, and the reader reads it as itself;                 *)
(*   - FileExchange: it implements FileStore, and a module that cannot be  *)
(*     encoded leaves the file alone, for any programs, sizes, contents.   *)
(*   - Instructions: a block whose results follow from its operands comes  *)
(*     back with the types it was written with, for any types, widths,     *)
(*     lengths and any number of operations, and any other block with      *)
(*     types of the classes it was written with.                           *)
(***************************************************************************)
EXTENDS Gates, TypeEncoding, FileExchange, Instructions, TLAPS

----------------------------------------------------------------------------
(* Gates.                                                                  *)

\* Where the operands of a gate are in the message.
Places(g) == 1 .. g.targets + g.controls + g.params
QubitPlaces(g) == 1 .. g.targets + g.controls

RestoredGate ==
    [kind |-> gate.kind, adjoint |-> gate.adjoint, power |-> gate.power,
     numCtrls |-> gate.controls,
     targets |-> [k \in 1 .. gate.targets |-> <<"target", k>>],
     controls |-> [k \in 1 .. gate.controls |-> <<"control", k>>],
     params |-> [k \in 1 .. gate.params |-> <<"param", k>>],
     paulis |-> gate.paulis]

\* What the reader has is what it has counted: the counter is at the control
\* after the last one collected, or bound.  If the counter has no room for the
\* places of the controls, the first loop is never left.
GateWritten == msg = Encode(gate) /\ \A k \in DOMAIN gate.paulis : gate.paulis[k] \in 0 .. 3
Collecting ==
    IF ControlsFit(gate)
    THEN /\ controls = [k \in 1 .. next - gate.targets |-> <<"control", k>>]
         /\ next \in gate.targets .. gate.targets + gate.controls
    ELSE next \in 0 .. U8 - 1
Binding ==
    /\ ControlsFit(gate)
    /\ rebuilt = RestoredGate
    /\ next \in gate.targets .. gate.targets + gate.controls
    /\ \A k \in 1 .. next : Operand(gate, k) \in DOMAIN bound /\ bound[Operand(gate, k)] = Operand(gate, k)
GateInv ==
    /\ gate \in Gates
    /\ phase \in {"write", "fatal", "written", "controls", "exhausted", "results", "done"}
    /\ phase \in {"write", "written"} => controls = <<>>
    /\ phase \in {"written", "controls", "results", "done"} => GateWritten
    /\ phase = "controls" => Collecting
    /\ phase \in {"results", "done"} => Binding
    /\ phase = "done" => next = gate.targets + gate.controls
    /\ phase = "exhausted" => ~ControlsFit(gate)

\* What is below the width is not changed by cutting it.
LEMMA ModSmall == ASSUME NEW w \in Nat \ {0}, NEW x \in Nat, x < w PROVE x % w = x
  BY SMT

\* What is cut to the width is below it.
LEMMA ModRange == ASSUME NEW w \in Nat \ {0}, NEW x \in Nat PROVE x % w \in 0 .. w - 1
  BY SMT

\* The shape of a gate that satisfies the verifier.
LEMMA GateShape ==
  ASSUME NEW g \in Gates
  PROVE  /\ g.kind \in Kinds /\ g.targets \in Nat /\ g.controls \in 0 .. U8 - 1
         /\ g.params \in Nat /\ g.paulis \in Seq(Int)
         /\ U8 \in Nat \ {0} /\ U8 > 2 /\ Memory \in Nat /\ Memory >= U8
         /\ g.kind \in WellKnown => /\ g.targets = FixedTargets(g.kind)
                                    /\ g.params = FixedParams(g.kind)
                                    /\ g.targets <= 2
         /\ g.kind = "ppr" => g.targets = Len(g.paulis) /\ g.params = 1
         /\ g.kind = "gphase" => g.targets = 0
  BY GatesAssumption DEF Gate, Verified, WellKnown, Kinds, FixedTargets, FixedParams

\* The place of a control.
LEMMA ControlPlace ==
  ASSUME NEW g \in Gates, NEW k \in 1 .. g.controls
  PROVE  /\ g.targets + k \in QubitPlaces(g) /\ g.targets + k \in Places(g)
         /\ Operand(g, g.targets + k) = <<"control", k>>
  <1>1. g.targets \in Nat /\ g.controls \in Nat /\ g.params \in Nat /\ k \in Nat
    BY GateShape
  <1>2. g.targets + k - g.targets = k /\ g.targets + k <= g.targets + g.controls
        /\ ~(g.targets + k <= g.targets)
    BY <1>1
  <1> QED  BY <1>1, <1>2 DEF QubitPlaces, Places, Operand

\* The reader finds the groups where the writer put them.
LEMMA ReaderCounts ==
  ASSUME gate \in Gates, GateWritten
  PROVE  /\ First = gate.targets /\ Angles = gate.params
         /\ msg.controlQubits = gate.controls /\ msg.kind = gate.kind
         /\ msg.adjoint = gate.adjoint /\ msg.power = gate.power
         /\ msg.ins = [k \in Places(gate) |-> Operand(gate, k)]
         /\ msg.outs = [k \in QubitPlaces(gate) |-> Operand(gate, k)]
         /\ More <=> next < gate.targets + gate.controls
  <1>1. msg = Encode(gate)  BY DEF GateWritten
  <1>2. Len(msg.pauliString) = Len(gate.paulis)
    BY <1>1, GateShape DEF Encode
  <1>3. First = gate.targets /\ Angles = gate.params
    BY <1>1, <1>2, GateShape DEF Encode, First, Angles, Kinds, WellKnown
  <1> QED  BY <1>1, <1>3 DEF Encode, Places, QubitPlaces, More

\* Counting on while there is room.
LEMMA Counting ==
  ASSUME gate \in Gates, GateWritten, ControlsFit(gate), More,
         next \in gate.targets .. gate.targets + gate.controls
  PROVE  Increment(next) = next + 1 /\ next + 1 \in gate.targets .. gate.targets + gate.controls
  <1>1. next + 1 \in gate.targets .. gate.targets + gate.controls /\ next + 1 \in Nat
    BY ReaderCounts, GateShape
  <1>2. CASE gate.kind \in WellKnown
    <2>1. next + 1 < U8
      BY <1>1, <1>2, GateShape DEF ControlsFit
    <2> QED  BY <1>1, <1>2, <2>1, ModSmall, GateShape, ReaderCounts DEF Increment
  <1>3. CASE gate.kind \notin WellKnown
    BY <1>1, <1>3, ReaderCounts DEF Increment
  <1> QED  BY <1>2, <1>3

\* A counter without room stays below the end of the loop.
LEMMA NeverLeft ==
  ASSUME gate \in Gates, GateWritten, ~ControlsFit(gate), next \in 0 .. U8 - 1
  PROVE  More /\ Increment(next) \in 0 .. U8 - 1
  <1>1. gate.kind \in WellKnown /\ gate.targets + gate.controls >= U8
    BY GateShape DEF ControlsFit
  <1>2. More  BY <1>1, ReaderCounts, GateShape
  <1>3. Increment(next) = (next + 1) % U8  BY <1>1, ReaderCounts DEF Increment
  <1>4. U8 \in Nat \ {0} /\ next + 1 \in Nat  BY GateShape
  <1>5. (next + 1) % U8 \in 0 .. U8 - 1  BY <1>4, ModRange
  <1> QED  BY <1>2, <1>3, <1>5

\* The invariant holds before the gate is written.
LEMMA GateInvInit == Init => GateInv
  BY DEF Init, GateInv

\* No step of writing or reading breaks the invariant.
LEMMA GateInvNext == GateInv /\ [Next]_vars => GateInv'
  <1> SUFFICES ASSUME GateInv, [Next]_vars PROVE GateInv'
    OBVIOUS
  <1> USE DEF GateInv
  <1>1. CASE SerializeWellKnownGate
    <2>1. gate.paulis = <<>>
      BY <1>1, GatesAssumption DEF SerializeWellKnownGate, WriteKind, Verified, WellKnown
    <2> QED  BY <1>1, <2>1 DEF SerializeWellKnownGate, WriteKind, GateWritten
  <1>2. CASE SerializeCustom
    <2>1. gate.paulis = <<>>
      BY <1>2, GatesAssumption DEF SerializeCustom, WriteKind, Verified
    <2> QED  BY <1>2, <2>1 DEF SerializeCustom, WriteKind, GateWritten
  <1>3. CASE SerializePpr
    BY <1>3 DEF SerializePpr, WriteKind, GateWritten
  <1>4. CASE UnknownPauli
    BY <1>4 DEF UnknownPauli
  <1>5. CASE BeginGate
    <2>1. GateWritten /\ GateWritten' /\ next' = gate.targets /\ controls' = <<>> /\ gate' = gate
      BY <1>5, ReaderCounts DEF BeginGate, GateWritten
    <2>2. Collecting'
      <3>1. CASE ControlsFit(gate)
        BY <2>1, <3>1, GateShape DEF Collecting, ControlsFit
      <3>2. CASE ~ControlsFit(gate)
        BY <2>1, <3>2, GateShape DEF Collecting, ControlsFit
      <3> QED  BY <3>1, <3>2
    <2> QED  BY <1>5, <2>1, <2>2 DEF BeginGate
  <1>6. CASE ReadControl
    <2>1. GateWritten /\ GateWritten' /\ gate' = gate /\ Collecting /\ More
      BY <1>6 DEF ReadControl, GateWritten
    <2>2. Collecting'
      <3>1. CASE ControlsFit(gate)
        <4>1. next' = next + 1 /\ next' \in gate.targets .. gate.targets + gate.controls
          BY <1>6, <2>1, <3>1, Counting DEF ReadControl, Collecting
        <4>2. msg.ins[next + 1] = <<"control", next + 1 - gate.targets>>
          <5> DEFINE n == next + 1 - gate.targets
          <5>1. n \in 1 .. gate.controls /\ next + 1 = gate.targets + n
            BY <2>1, <3>1, <4>1, GateShape DEF Collecting
          <5> HIDE DEF n
          <5>2. Operand(gate, next + 1) = <<"control", n>> /\ next + 1 \in Places(gate)
            BY <5>1, ControlPlace
          <5>3. msg.ins[next + 1] = Operand(gate, next + 1)
            BY <2>1, <5>2, ReaderCounts
          <5> QED  BY <5>2, <5>3 DEF n
        <4>3. controls' = [k \in 1 .. next' - gate.targets |-> <<"control", k>>]
          <5> DEFINE n == next - gate.targets
          <5>1. n \in Nat /\ next' - gate.targets = n + 1 /\ next + 1 - gate.targets = n + 1
            BY <2>1, <3>1, <4>1, GateShape DEF Collecting
          <5>2. controls = [k \in 1 .. n |-> <<"control", k>>]
            BY <2>1, <3>1 DEF Collecting
          <5>3. controls' = Append(controls, <<"control", n + 1>>)
            BY <1>6, <4>2, <5>1 DEF ReadControl
          <5> HIDE DEF n
          <5>4. Append([k \in 1 .. n |-> <<"control", k>>], <<"control", n + 1>>)
                  = [k \in 1 .. n + 1 |-> <<"control", k>>]
            BY <5>1
          <5> QED  BY <5>1, <5>2, <5>3, <5>4
        <4> QED  BY <2>1, <3>1, <4>1, <4>3 DEF Collecting, ControlsFit
      <3>2. CASE ~ControlsFit(gate)
        BY <1>6, <2>1, <3>2, NeverLeft DEF ReadControl, Collecting, ControlsFit
      <3> QED  BY <3>1, <3>2
    <2> QED  BY <1>6, <2>1, <2>2 DEF ReadControl
  <1>7. CASE MemoryUsedUp
    <2>1. GateWritten /\ Collecting /\ More /\ Len(controls) = Memory
      BY <1>7 DEF MemoryUsedUp
    <2>2. ASSUME ControlsFit(gate) PROVE FALSE
      <3>1. Len(controls) = next - gate.targets
        BY <2>1, <2>2, GateShape DEF Collecting
      <3> QED  BY <2>1, <2>2, <3>1, GateShape, ReaderCounts DEF Collecting
    <2> QED  BY <1>7, <2>2 DEF MemoryUsedUp, ControlsFit
  <1>8. CASE CreateGate
    <2>1. GateWritten /\ GateWritten' /\ gate' = gate /\ Collecting /\ ~More
      BY <1>8 DEF CreateGate, GateWritten
    <2>2. ControlsFit(gate)
      BY <2>1, NeverLeft DEF Collecting
    <2>3. controls = [k \in 1 .. gate.controls |-> <<"control", k>>]
      BY <2>1, <2>2, ReaderCounts, GateShape DEF Collecting
    <2>4. Len(controls) % U8 = gate.controls
      BY <2>3, ModSmall, GateShape
    <2>5. [k \in 1 .. First |-> msg.ins[k]] = [k \in 1 .. gate.targets |-> <<"target", k>>]
      <3>1. First = gate.targets /\ gate.targets \in Nat
        BY <2>1, ReaderCounts, GateShape
      <3>2. ASSUME NEW k \in 1 .. gate.targets PROVE msg.ins[k] = <<"target", k>>
        <4>1. k \in Places(gate) /\ msg.ins[k] = Operand(gate, k)
          BY <2>1, ReaderCounts, GateShape DEF Places
        <4> QED  BY <4>1, <3>1 DEF Operand
      <3> QED  BY <3>1, <3>2
    <2>6. [k \in 1 .. Angles |-> msg.ins[AngleAt(k) + 1]]
            = [k \in 1 .. gate.params |-> <<"param", k>>]
      <3> SUFFICES ASSUME NEW k \in 1 .. gate.params
                   PROVE  msg.ins[AngleAt(k) + 1] = <<"param", k>>
        BY <2>1, ReaderCounts
      <3>1. AngleAt(k) + 1 = gate.targets + gate.controls + k
        BY <2>1, ReaderCounts, GateShape DEF AngleAt
      <3>2. gate.targets + gate.controls + k \in Places(gate)
        BY GateShape DEF Places
      <3>3. Operand(gate, gate.targets + gate.controls + k) = <<"param", k>>
        BY GateShape DEF Operand
      <3> QED  BY <2>1, <3>1, <3>2, <3>3, ReaderCounts
    <2>7. [k \in DOMAIN msg.pauliString |-> PauliNumber(msg.pauliString[k])] = gate.paulis
      <3>1. msg.pauliString = [k \in DOMAIN gate.paulis |-> Letter(gate.paulis[k])]
        BY <2>1 DEF GateWritten, Encode
      <3>2. \A k \in DOMAIN gate.paulis : PauliNumber(Letter(gate.paulis[k])) = gate.paulis[k]
        BY <2>1 DEF GateWritten, PauliNumber, Letter
      <3>3. gate.paulis = [k \in DOMAIN gate.paulis |-> gate.paulis[k]]
        BY GateShape
      <3> QED  BY <3>1, <3>2, <3>3
    <2>8. rebuilt' = RestoredGate
      BY <1>8, <2>1, <2>3, <2>4, <2>5, <2>6, <2>7, ReaderCounts DEF CreateGate, RestoredGate
    <2>9. next' = gate.targets
      BY <1>8, <2>1, ReaderCounts DEF CreateGate
    <2>10. \A k \in 1 .. gate.targets :
              Operand(gate, k) \in DOMAIN bound' /\ bound'[Operand(gate, k)] = Operand(gate, k)
      <3> SUFFICES ASSUME NEW k \in 1 .. gate.targets
                   PROVE  Operand(gate, k) \in DOMAIN bound'
                          /\ bound'[Operand(gate, k)] = Operand(gate, k)
        OBVIOUS
      <3>1. First = gate.targets /\ \A j \in 1 .. gate.targets : msg.outs[j] = <<"target", j>>
        BY <2>1, ReaderCounts, GateShape DEF QubitPlaces, Operand
      <3>2. Operand(gate, k) = <<"target", k>>
        BY GateShape DEF Operand
      <3>3. bound' = [o \in {msg.outs[j] : j \in 1 .. First} |->
                        <<"target", CHOOSE j \in 1 .. First : msg.outs[j] = o>>]
        BY <1>8 DEF CreateGate
      <3>4. (CHOOSE j \in 1 .. First : msg.outs[j] = <<"target", k>>) = k
        BY <3>1
      <3> QED  BY <3>1, <3>2, <3>3, <3>4
    <2>11. Binding'
      <3>1. RestoredGate' = RestoredGate  BY <2>1 DEF RestoredGate
      <3>2. ControlsFit(gate')  BY <2>1, <2>2
      <3>3. next' \in gate'.targets .. gate'.targets + gate'.controls
        BY <2>1, <2>9, GateShape
      <3>4. \A k \in 1 .. next' :
               Operand(gate', k) \in DOMAIN bound' /\ bound'[Operand(gate', k)] = Operand(gate', k)
        BY <2>1, <2>9, <2>10
      <3> QED  BY <2>8, <3>1, <3>2, <3>3, <3>4 DEF Binding
    <2> QED  BY <1>8, <2>1, <2>11 DEF CreateGate
  <1>9. CASE BindControl
    <2>1. GateWritten /\ GateWritten' /\ gate' = gate /\ Binding /\ More
      BY <1>9 DEF BindControl, GateWritten
    <2>2. next' = next + 1 /\ next' \in gate.targets .. gate.targets + gate.controls
      BY <1>9, <2>1, Counting DEF BindControl, Binding
    <2>3. /\ First = gate.targets
          /\ msg.outs[next + 1] = <<"control", next - gate.targets + 1>>
          /\ Operand(gate, next + 1) = <<"control", next - gate.targets + 1>>
      <3> DEFINE n == next - gate.targets + 1
      <3>1. n \in 1 .. gate.controls /\ next + 1 = gate.targets + n
        BY <2>1, <2>2, GateShape DEF Binding
      <3> HIDE DEF n
      <3>2. Operand(gate, next + 1) = <<"control", n>> /\ next + 1 \in QubitPlaces(gate)
        BY <3>1, ControlPlace
      <3>3. First = gate.targets /\ msg.outs[next + 1] = Operand(gate, next + 1)
        BY <2>1, <3>2, ReaderCounts
      <3> QED  BY <3>2, <3>3 DEF n
    <2>4. \A k \in 1 .. next + 1 :
             Operand(gate, k) \in DOMAIN bound' /\ bound'[Operand(gate, k)] = Operand(gate, k)
      <3> SUFFICES ASSUME NEW k \in 1 .. next + 1
                   PROVE  Operand(gate, k) \in DOMAIN bound'
                          /\ bound'[Operand(gate, k)] = Operand(gate, k)
        OBVIOUS
      <3>1. k \in 1 .. next \/ k = next + 1
        BY <2>1, GateShape DEF Binding
      <3> QED  BY <1>9, <2>1, <2>3, <3>1 DEF BindControl, Binding
    <2>5. Binding'
      BY <1>9, <2>1, <2>2, <2>4 DEF BindControl, Binding, RestoredGate, ControlsFit, Operand
    <2> QED  BY <1>9, <2>1, <2>5 DEF BindControl
  <1>10. CASE GateDone
    <2>1. GateWritten /\ Binding /\ ~More
      BY <1>10 DEF GateDone
    <2>2. next = gate.targets + gate.controls
      BY <2>1, ReaderCounts, GateShape DEF Binding
    <2> QED
      BY <1>10, <2>1, <2>2 DEF GateDone, GateWritten, Binding, RestoredGate, ControlsFit, Operand
  <1>11. CASE UNCHANGED vars
    BY <1>11 DEF vars, GateWritten, Collecting, Binding, RestoredGate, ControlsFit, Operand
  <1> QED
    BY <1>1, <1>2, <1>3, <1>4, <1>5, <1>6, <1>7, <1>8, <1>9, <1>10, <1>11 DEF Next

\* The gate handlers of the reader restore what those of the writer wrote, for
\* every gate the verifier accepts.
THEOREM GatesRestored == Spec => []GateRestored
  <1>1. GateInv => GateRestored
    BY GateShape DEF GateInv, Binding, RestoredGate, GateRestored
  <1> QED  BY <1>1, GateInvInit, GateInvNext, PTL DEF Spec

\* Reading ends without using up memory as long as the counter has room for
\* the places of the controls.
THEOREM FittingImportsReturn ==
  ASSUME \A g \in Gates : ControlsFit(g)
  PROVE  Spec => []ImportReturns
  <1>1. GateInv => ImportReturns
    BY DEF GateInv, ImportReturns
  <1> QED  BY <1>1, GateInvInit, GateInvNext, PTL DEF Spec

----------------------------------------------------------------------------
(* Types.                                                                  *)

\* A type that goes through the file unchanged.
Stable(t) == IsType(t) /\ Fits(t) /\ Writable(t) /\ Known(WrittenType(t))

\* Until it is stable the type is the one that was sent; what is on its way is what the writer or
\* the printer makes of it.
TypeInv ==
    /\ IsType(sent)
    /\ type = sent \/ (~Fits(sent) /\ Stable(type))
    /\ place = "file" => Writable(type) /\ wire = WrittenType(type)
    /\ place = "text" => /\ type.kind = "qureg"
                         /\ wire = <<"<", PrintedLength(type.shape[1]), ">">>

----------------------------------------------------------------------------
(* Types: one trip.                                                        *)

\* A sequence of one element is the tuple of its first.
LEMMA SingleElement ==
    ASSUME NEW s \in Seq(Int), Len(s) = 1
    PROVE  s = <<s[1]>> /\ s[1] \in Int
OBVIOUS

\* A length the field has room for is read as it was.
LEMMA LengthKept ==
    ASSUME NEW l, l \in {DynamicLength} \cup 0 .. (LengthLimit - 1)
    PROVE  ReadLength(WrittenLength(l)) = l
<1> USE TypesAssumption DEF ReadLength, WrittenLength
<1>1. CASE l = DynamicLength
  BY <1>1
<1>2. CASE l \in 0 .. (LengthLimit - 1)
  <2>1. l # DynamicLength
    BY <1>2
  <2>2. l % LengthLimit = l
    BY <1>2
  <2> QED
    BY <2>1, <2>2
<1> QED
  BY <1>1, <1>2

\* Whatever length was written, what is read is a length the field has room for.
LEMMA LengthFits ==
    ASSUME NEW l \in Int
    PROVE  ReadLength(WrittenLength(l)) \in {DynamicLength} \cup 0 .. (LengthLimit - 1)
BY TypesAssumption DEF ReadLength, WrittenLength

\* A width of the dialect is written as it is.
LEMMA WidthKept ==
    ASSUME NEW w \in Nat, w < WidthLimit
    PROVE  WrittenWidth(w) = w
BY TypesAssumption DEF WrittenWidth

\* A type that fits comes back from the file as it was.
LEMMA FittingKept ==
    ASSUME NEW t, IsType(t), Fits(t), Writable(t)
    PROVE  Read(WrittenType(t)) = t
<1> USE DEF MakeType, Wire, NoLength
<1>1. CASE t.kind = "qubit"
  BY <1>1 DEF IsType, Read, WrittenType
<1>2. CASE t.kind = "qureg"
  <2>1. t.shape[1] \in {DynamicLength} \cup 0 .. (LengthLimit - 1)
    BY <1>2 DEF IsType, Fits
  <2>2. ReadLength(WrittenLength(t.shape[1])) = t.shape[1]
    BY <2>1, LengthKept
  <2> QED
    BY <1>2, <2>2 DEF IsType, Read, WrittenType
<1>3. CASE t.kind = "int"
  <2>1. WrittenWidth(t.width) = t.width
    BY <1>3, WidthKept DEF IsType, Fits
  <2> QED
    BY <1>3, <2>1 DEF IsType, Read, WrittenType
<1>4. CASE t.kind = "float"
  BY <1>4 DEF IsType, Read, WrittenType, ReadPrecision
<1>5. CASE t.kind = "tensor"
  <2>1. /\ t.shape = <<t.shape[1]>>
        /\ t.shape[1] \in {DynamicLength} \cup 0 .. (LengthLimit - 1)
    BY <1>5, SingleElement DEF IsType, Writable, Fits
  <2>2. ReadLength(WrittenLength(t.shape[1])) = t.shape[1]
    BY <2>1, LengthKept
  <2>3. t = [kind |-> "tensor", width |-> t.width, element |-> t.element, shape |-> t.shape]
    BY <1>5 DEF IsType
  <2>4. CASE t.element = "int"
    <3>1. WrittenWidth(t.width) = t.width
      BY <2>4, WidthKept DEF IsType, Fits
    <3>2. WrittenType(t) = [kind |-> "intArray", width |-> t.width,
                            length |-> WrittenLength(t.shape[1])]
      BY <1>5, <2>4, <3>1 DEF WrittenType
    <3>3. Read(WrittenType(t)) = [kind |-> "tensor", width |-> t.width, element |-> "int",
                                  shape |-> <<ReadLength(WrittenLength(t.shape[1]))>>]
      BY <3>2 DEF Read
    <3> QED
      BY <2>1, <2>2, <2>3, <2>4, <3>3
  <2>5. CASE t.element = "float"
    <3>1. WrittenType(t) = [kind |-> "floatArray", width |-> t.width,
                            length |-> WrittenLength(t.shape[1])]
      BY <1>5, <2>5 DEF WrittenType
    <3> QED
      BY <2>1, <2>2, <2>3, <2>5, <3>1 DEF Read, ReadPrecision
  <2> QED
    BY <1>5, <2>4, <2>5 DEF Writable
<1> QED
  BY <1>1, <1>2, <1>3, <1>4, <1>5 DEF IsType, TypeKinds

\* Lengths that fit their field.
FieldLengths == {DynamicLength} \cup 0 .. (LengthLimit - 1)

\* The types the reader makes are stable, kind by kind.
LEMMA StableQubit == Stable(MakeType("qubit", 0, "other", <<>>))
BY DEF MakeType, Stable, IsType, Fits, Writable, Known, WrittenType, Wire, TypeKinds, ElementKinds

\* A register whose length fits.
LEMMA StableQureg ==
    ASSUME NEW l \in FieldLengths
    PROVE  Stable(MakeType("qureg", 0, "other", <<l>>))
BY TypesAssumption
  DEF FieldLengths, MakeType, Stable, IsType, Fits, Writable, Known, WrittenType, Wire, TypeKinds,
      ElementKinds

\* An integer of a width of the dialect.
LEMMA StableInt ==
    ASSUME NEW w \in Widths
    PROVE  Stable(MakeType("int", w, "other", <<>>))
<1>1. w \in Nat /\ w < WidthLimit /\ WrittenWidth(w) = w
  BY TypesAssumption, WidthKept DEF Widths
<1> QED
  BY <1>1
    DEF MakeType, Stable, IsType, Fits, Writable, Known, WrittenType, Wire, TypeKinds, ElementKinds

\* A float of a precision of the dialect.
LEMMA StableFloat ==
    ASSUME NEW p \in Precisions
    PROVE  Stable(MakeType("float", p, "other", <<>>))
BY DEF Precisions, MakeType, Stable, IsType, Fits, Writable, Known, WrittenType, Wire, TypeKinds,
       ElementKinds

\* An array of either, of a length that fits.
LEMMA StableArray ==
    ASSUME NEW l \in FieldLengths, NEW w, NEW element,
           \/ element = "int" /\ w \in Widths
           \/ element = "float" /\ w \in Precisions
    PROVE  Stable(MakeType("tensor", w, element, <<l>>))
<1> DEFINE t == [kind |-> "tensor", width |-> w, element |-> element, shape |-> <<l>>]
<1>1. w \in Nat /\ w < WidthLimit /\ l \in Int
  BY TypesAssumption DEF Widths, Precisions, FieldLengths
<1>2. IsType(t) /\ Fits(t) /\ Writable(t)
  BY <1>1 DEF IsType, Fits, Writable, FieldLengths, TypeKinds, ElementKinds
<1>3. Known(WrittenType(t))
  <2>1. CASE element = "int"
    BY <1>1, <2>1, WidthKept DEF Known, WrittenType, Wire
  <2>2. CASE element = "float"
    BY <2>2 DEF Known, WrittenType, Wire
  <2> QED
    BY <2>1, <2>2
<1> QED
  BY <1>2, <1>3 DEF Stable, MakeType

\* What the reader makes of any record of the writer is stable.
LEMMA ReadStable ==
    ASSUME NEW t, IsType(t), Writable(t), Known(WrittenType(t))
    PROVE  Stable(Read(WrittenType(t)))
<1> DEFINE l == ReadLength(WrittenLength(t.shape[1]))
<1> USE DEF Wire, NoLength
<1>1. CASE t.kind = "qubit"
  <2>1. Read(WrittenType(t)) = MakeType("qubit", 0, "other", <<>>)
    BY <1>1 DEF Read, WrittenType
  <2> QED
    BY <2>1, StableQubit
<1>2. CASE t.kind = "qureg"
  <2>1. Read(WrittenType(t)) = MakeType("qureg", 0, "other", <<l>>)
    BY <1>2 DEF Read, WrittenType
  <2>2. l \in FieldLengths
    BY <1>2, LengthFits DEF IsType, FieldLengths
  <2> QED
    BY <2>1, <2>2, StableQureg
<1>3. CASE t.kind = "int"
  <2>1. /\ Read(WrittenType(t)) = MakeType("int", WrittenWidth(t.width), "other", <<>>)
        /\ WrittenWidth(t.width) \in Widths
    BY <1>3 DEF Read, WrittenType, Known
  <2> QED
    BY <2>1, StableInt
<1>4. CASE t.kind = "float"
  <2>1. /\ Read(WrittenType(t)) = MakeType("float", t.width, "other", <<>>)
        /\ t.width \in Precisions
    BY <1>4 DEF Read, WrittenType, ReadPrecision, Writable
  <2> QED
    BY <2>1, StableFloat
<1>5. CASE t.kind = "tensor"
  <2>1. l \in FieldLengths
    BY <1>5, LengthFits, SingleElement DEF IsType, Writable, FieldLengths
  <2>2. CASE t.element = "int"
    <3>1. /\ Read(WrittenType(t)) = MakeType("tensor", WrittenWidth(t.width), "int", <<l>>)
          /\ WrittenWidth(t.width) \in Widths
      BY <1>5, <2>2 DEF Read, WrittenType, Known
    <3> QED
      BY <2>1, <3>1, StableArray
  <2>3. CASE t.element = "float"
    <3>1. /\ Read(WrittenType(t)) = MakeType("tensor", t.width, "float", <<l>>)
          /\ t.width \in Precisions
      BY <1>5, <2>3 DEF Read, WrittenType, ReadPrecision, Writable
    <3> QED
      BY <2>1, <3>1, StableArray
  <2> QED
    BY <1>5, <2>2, <2>3 DEF Writable
<1> QED
  BY <1>1, <1>2, <1>3, <1>4, <1>5 DEF IsType, TypeKinds

\* The text of a register type is read as the type.
LEMMA TextKept ==
    ASSUME IsType(type), type.kind = "qureg"
    PROVE  MakeType("qureg", 0, "other", <<ParsedLength(PrintedLength(type.shape[1]))>>) = type
<1>1. type.shape[1] \in Int
  BY DEF IsType
<1>2. ParsedLength(PrintedLength(type.shape[1])) = type.shape[1]
  BY <1>1, TypesAssumption DEF ParsedLength, PrintedLength
<1> QED
  BY <1>2 DEF IsType

----------------------------------------------------------------------------
(* Types: any number of trips.                                             *)

\* The first type is sent as it is.
LEMMA TypeInvInit == TripInit => TypeInv
BY TypesAssumption DEF TripInit, TypeInv

\* A type in the program is a type, whichever of the two it is.
LEMMA AlwaysType == TypeInv => IsType(type)
BY DEF TypeInv, Stable

\* Reading a record leaves the type as it is, unless it was sent and did not fit.
LEMMA ReadKeeps ==
    ASSUME TypeInv, DeserializeType, type' # type
    PROVE  type = sent /\ ~Fits(sent) /\ Stable(type')
<1>1. Writable(type) /\ wire = WrittenType(type) /\ IsType(type)
  BY AlwaysType DEF TypeInv, DeserializeType
<1>2. Known(wire) /\ type' = Read(wire)
  BY DEF DeserializeType
<1>3. Stable(type')
  BY <1>1, <1>2, ReadStable
<1>4. ~Fits(type)
  BY <1>1, <1>2, FittingKept
<1> QED
  BY <1>3, <1>4 DEF TypeInv, Stable

\* Every step keeps the invariant.
LEMMA TypeInvNext == TypeInv /\ [TripNext]_tripVars => TypeInv'
<1> SUFFICES ASSUME TypeInv, [TripNext]_tripVars
             PROVE  TypeInv'
  OBVIOUS
<1>1. CASE SerializeType
  BY <1>1 DEF SerializeType, TypeInv, Stable, WrittenType, Writable
<1>2. CASE DeserializeType
  <2>1. CASE type' = type
    BY <1>2, <2>1 DEF DeserializeType, TypeInv
  <2>2. CASE type' # type
    BY <1>2, <2>2, ReadKeeps DEF DeserializeType, TypeInv
  <2> QED
    BY <2>1, <2>2
<1>3. CASE PrintQureg
  BY <1>3 DEF PrintQureg, TypeInv
<1>4. CASE ParseQureg
  <2>1. wire[2] = PrintedLength(type.shape[1]) /\ type.kind = "qureg"
    BY <1>4 DEF ParseQureg, TypeInv
  <2>2. type' = type
    BY <1>4, <2>1, TextKept, AlwaysType DEF ParseQureg
  <2> QED
    BY <1>4, <2>2 DEF ParseQureg, TypeInv
<1>5. CASE UNCHANGED tripVars
  BY <1>5 DEF tripVars, TypeInv
<1> QED
  BY <1>1, <1>2, <1>3, <1>4, <1>5 DEF TripNext

\* A type that fits its fields is the same after any number of trips through file and text.
THEOREM FittingKeeps == TripSpec => []FittingTypesKept
<1>1. TypeInv => FittingTypesKept
  BY DEF TypeInv, FittingTypesKept
<1> QED
  BY TypeInvInit, TypeInvNext, <1>1, PTL DEF TripSpec

\* No trip but the first changes a type, refuses it or aborts.
THEOREM TypesDoSettle == TripSpec => TypesSettle
<1>1. TypeInv /\ [TripNext]_tripVars
        => [type' # type \/ place' \in {"aborted", "refused"} => type = sent]_tripVars
  <2> SUFFICES ASSUME TypeInv, TripNext, type # sent
               PROVE  type' = type /\ place' \notin {"aborted", "refused"}
    OBVIOUS
  <2>1. Stable(type)
    BY DEF TypeInv
  <2>2. CASE SerializeType
    BY <2>1, <2>2 DEF SerializeType, Stable
  <2>3. CASE DeserializeType
    <3>1. Known(wire)
      BY <2>1, <2>3 DEF DeserializeType, TypeInv, Stable
    <3>2. type' = type
      BY <2>3, ReadKeeps
    <3> QED
      BY <2>3, <3>1, <3>2 DEF DeserializeType
  <2>4. CASE PrintQureg
    BY <2>4 DEF PrintQureg
  <2>5. CASE ParseQureg
    <3>1. wire[2] = PrintedLength(type.shape[1]) /\ type.kind = "qureg"
      BY <2>5 DEF ParseQureg, TypeInv
    <3> QED
      BY <2>5, <3>1, TextKept, AlwaysType DEF ParseQureg
  <2> QED
    BY <2>2, <2>3, <2>4, <2>5 DEF TripNext
<1> QED
  BY TypeInvInit, TypeInvNext, <1>1, PTL DEF TripSpec, TypesSettle

----------------------------------------------------------------------------
(* Files.                                                                  *)

Size(p) == Words(p) * WordBytes

\* The first n bytes of the message of p.
Part(p, n) == [k \in 1..n |-> <<p, k>>]

----------------------------------------------------------------------------
(* Files: what bytes hold.                                                 *)

\* A message has at least a byte.
LEMMA SizePositive == ASSUME NEW p \in Encodable PROVE Size(p) \in Nat \ {0}
BY ProgramsAssumption DEF Size

\* A message is a whole number of words, so the reader's check of the length lets it pass.
LEMMA WholeWords == ASSUME NEW w \in Nat, NEW b \in Nat \ {0} PROVE (w * b) % b = 0
  OBVIOUS

\* The message of p is all of its bytes.
LEMMA BytesArePart == ASSUME NEW p \in Encodable
                      PROVE  /\ Bytes(p) = Part(p, Size(p))
                             /\ Len(Bytes(p)) = Size(p)
BY SizePositive DEF Bytes, Part, Size

\* A part of a message is the message of another program, or its own, only if it is all of it.
LEMMA PartIsMessage ==
    ASSUME NEW p \in Encodable, NEW q \in Encodable, NEW n \in 0..Size(p)
    PROVE  Part(p, n) = Bytes(q) <=> q = p /\ n = Size(p)
<1>1. 1 \in 1..Size(q) /\ Bytes(q)[1] = <<q, 1>>
  BY SizePositive, BytesArePart DEF Part
<1>2. DOMAIN Part(p, n) = 1..n /\ DOMAIN Bytes(q) = 1..Size(q)
  BY BytesArePart DEF Part
<1>3. ASSUME Part(p, n) = Bytes(q) PROVE q = p /\ n = Size(p)
  <2>1. 1 \in 1..n /\ Part(p, n)[1] = <<p, 1>>
    BY <1>1, <1>2, <1>3 DEF Part
  <2>2. q = p
    BY <1>1, <1>3, <2>1
  <2>3. 1..n = 1..Size(p)
    BY <1>2, <1>3, <2>2
  <2> QED
    BY <2>2, <2>3, SizePositive
<1> QED
  BY <1>3, BytesArePart

\* What a part of a message holds, as a program.
LEMMA ProgramOfPart ==
    ASSUME NEW p \in Encodable, NEW n \in 0..Size(p)
    PROVE  Program(Part(p, n)) = IF n = Size(p) THEN p ELSE NoProgram
BY PartIsMessage DEF Program

\* What a reader finds in it.
LEMMA MessageInPart ==
    ASSUME NEW p \in Encodable, NEW n \in 0..Size(p)
    PROVE  MessageIn(Part(p, n)) = IF n = Size(p) THEN p ELSE NoProgram
<1>1. ASSUME NEW q \in Encodable, IsPrefix(Bytes(q), Part(p, n))
      PROVE  q = p /\ n = Size(p)
  <2>1. Size(q) \in Nat \ {0} /\ Len(Bytes(q)) = Size(q)
    BY SizePositive, BytesArePart
  <2>2. Part(p, n) \in Seq({p} \X (1..n)) /\ Len(Part(p, n)) = n
    BY SizePositive DEF Part
  <2>3. /\ Size(q) <= n
        /\ SubSeq(Bytes(q), 1, Size(q)) = SubSeq(Part(p, n), 1, Size(q))
    BY <1>1, <2>1, <2>2 DEF IsPrefix
  <2>4. SubSeq(Part(p, n), 1, Size(q))[1] = <<p, 1>>
    BY <2>1, <2>2, <2>3 DEF Part
  <2>5. SubSeq(Bytes(q), 1, Size(q))[1] = <<q, 1>>
    BY <2>1, BytesArePart DEF Part
  <2>6. <<q, 1>> = <<p, 1>>
    BY <2>3, <2>4, <2>5, Zenon
  <2>7. q = p
    BY <2>6
  <2> QED
    BY <2>3, <2>7, SizePositive
<1>2. ASSUME n = Size(p) PROVE IsPrefix(Bytes(p), Part(p, n))
  <2>1. Part(p, n) = Bytes(p) /\ Len(Bytes(p)) = n
    BY <1>2, BytesArePart
  <2>2. SubSeq(Bytes(p), 1, n) = Bytes(p)
    BY <2>1, SizePositive DEF Part
  <2> QED
    BY <2>1, <2>2, SizePositive DEF IsPrefix
<1> QED
  BY <1>1, <1>2 DEF MessageIn

\* What is there of a message is never empty and complete.
LEMMA EmptyHoldsNothing ==
    Program(<<>>) = NoProgram /\ MessageIn(<<>>) = NoProgram
<1>1. ASSUME NEW p \in Encodable PROVE Bytes(p) # <<>> /\ ~IsPrefix(Bytes(p), <<>>)
  <2>1. Len(Bytes(p)) \in Nat \ {0}
    BY SizePositive, BytesArePart
  <2> QED
    BY <2>1 DEF IsPrefix
<1> QED
  BY <1>1 DEF Program, MessageIn

\* The message of a program is at no path where there is no file.
LEMMA NothingElsewhere ==
    ASSUME NEW bytes \in {Absent} \cup Others
    PROVE  Program(bytes) = NoProgram
<1>1. ASSUME NEW p \in Encodable PROVE bytes # Bytes(p)
  <2>1. CASE bytes = Absent
    BY <2>1, OthersAssumption
  <2>2. CASE bytes \in Others
    <3>1. MessageIn(bytes) = NoProgram
      BY <2>2, OthersAssumption
    <3>2. MessageIn(Part(p, Size(p))) = p
      BY MessageInPart, SizePositive
    <3> QED
      BY <3>1, <3>2, BytesArePart, ProgramsAssumption
  <2> QED
    BY <2>1, <2>2
<1> QED
  BY <1>1 DEF Program

----------------------------------------------------------------------------
(* Files: the invariant.                                                   *)

\* At the path there is what was there at the beginning or a part of a message, from its start.
OnFile ==
    \/ file \in {Absent} \cup Others
    \/ \E p \in Encodable : \E n \in 0..Size(p) : file = Part(p, n)

InMemory == buffer = <<>> \/ \E p \in Encodable : buffer = Bytes(p)

\* A save under way: the file is opened for a program that was encoded only, and has as many of
\* its bytes as were written.
Saving ==
    answer = "pending" =>
        /\ asked \in Encodable \cup Flawed
        /\ step \in {"open", "write"} => asked \in Encodable /\ message = Bytes(asked)
        /\ step = "write" => offset \in 0..Size(asked) /\ file = Part(asked, offset)

FileInv == OnFile /\ InMemory /\ Saving

\* One call of the operating system makes a longer part of a part.
LEMMA PartGrows ==
    ASSUME FileInv, answer = "pending", step = "write",
           NEW k \in 1..(Len(message) - offset)
    PROVE  /\ asked \in Encodable
           /\ offset + k \in 0..Size(asked)
           /\ Overwritten(k) = Part(asked, offset + k)
<1>1. /\ asked \in Encodable /\ message = Bytes(asked)
      /\ offset \in 0..Size(asked) /\ file = Part(asked, offset)
  BY DEF FileInv, Saving
<1>2. Size(asked) \in Nat /\ Len(message) = Size(asked)
  BY <1>1, SizePositive, BytesArePart
<1>3. Len(file) = offset
  BY <1>1, <1>2 DEF Part
<1>4. Overwritten(k) = [i \in 1..(offset + k) |->
                           IF i \in (offset + 1)..(offset + k) THEN message[i] ELSE file[i]]
  BY <1>1, <1>2, <1>3 DEF Overwritten
<1>5. ASSUME NEW i \in 1..(offset + k)
      PROVE  (IF i \in (offset + 1)..(offset + k) THEN message[i] ELSE file[i]) = <<asked, i>>
  BY <1>1, <1>2, BytesArePart DEF Part
<1> QED
  BY <1>1, <1>2, <1>4, <1>5 DEF Part

LEMMA FileInvInit == FileInit => FileInv
<1> SUFFICES ASSUME FileInit PROVE FileInv
  OBVIOUS
<1>1. ASSUME NEW p \in Encodable, file = Bytes(p) PROVE OnFile
  <2>1. file = Part(p, Size(p)) /\ Size(p) \in 0..Size(p)
    BY <1>1, BytesArePart, SizePositive
  <2> QED
    BY <2>1 DEF OnFile
<1> QED
  BY <1>1 DEF FileInit, FileInv, OnFile, InMemory, Saving

LEMMA FileInvNext == FileInv /\ [FileNext]_fileVars => FileInv'
<1> SUFFICES ASSUME FileInv, [FileNext]_fileVars PROVE FileInv'
  OBVIOUS
<1>1. CASE Save
  BY <1>1 DEF Save, FileInv, OnFile, InMemory, Saving
<1>2. CASE EncodeMessage
  BY <1>2 DEF EncodeMessage, Encoded, Return, FileInv, OnFile, InMemory, Saving
<1>3. CASE Open
  <2>1. CASE Return("failed")
    BY <2>1 DEF Return, FileInv, OnFile, InMemory, Saving
  <2>2. CASE file' = Opened /\ offset' = 0 /\ step' = "write"
             /\ UNCHANGED <<asked, answer, message, buffer, loaded>>
    <3>1. asked \in Encodable /\ message = Bytes(asked) /\ Size(asked) \in Nat
      BY <1>3, SizePositive DEF Open, FileInv, Saving
    <3>2. file' = Part(asked, 0) /\ 0 \in 0..Size(asked)
      BY <2>2, <3>1 DEF Opened, Part
    <3> QED
      BY <2>2, <3>1, <3>2 DEF FileInv, OnFile, InMemory, Saving
  <2> QED
    BY <1>3, <2>1, <2>2 DEF Open
<1>4. CASE Write
  <2>1. PICK k \in 1..(Len(message) - offset) : file' = Overwritten(k) /\ offset' = offset + k
    BY <1>4 DEF Write
  <2>2. /\ asked \in Encodable /\ offset + k \in 0..Size(asked)
        /\ file' = Part(asked, offset + k)
    BY <1>4, <2>1, PartGrows DEF Write
  <2> QED
    BY <1>4, <2>1, <2>2 DEF Write, FileInv, OnFile, InMemory, Saving
<1>5. CASE WriteFails \/ Written \/ Die
  BY <1>5 DEF WriteFails, Written, Die, Return, FileInv, OnFile, InMemory, Saving
<1>6. CASE DeserializeFromFile \/ DeserializeBuffer
  BY <1>6 DEF DeserializeFromFile, DeserializeBuffer, FileInv, OnFile, InMemory, Saving
<1>7. CASE SerializeToBuffer
  BY <1>7 DEF SerializeToBuffer, FileInv, OnFile, InMemory, Saving
<1>8. CASE UNCHANGED fileVars
  BY <1>8 DEF fileVars, FileInv, OnFile, InMemory, Saving
<1> QED
  BY <1>1, <1>2, <1>3, <1>4, <1>5, <1>6, <1>7, <1>8 DEF FileNext, SerializeToFile

THEOREM Invariant == FileSpec => []FileInv
<1> QED
  BY FileInvInit, FileInvNext, PTL DEF FileSpec

----------------------------------------------------------------------------
(* Files: the refinement.                                                  *)

\* A load returns what is stored, within the limits of the reader: the check of the length turns no
\* message away, and nothing else passes for one.
LEMMA LoadsStored ==
    ASSUME OnFile
    PROVE  (IF file = Absent \/ Len(file) % WordBytes # 0 THEN NoProgram ELSE Decoded(file))
               = IF Program(file) \in Readable THEN Program(file) ELSE NoProgram
<1>1. CASE file \in {Absent} \cup Others
  <2>1. Program(file) = NoProgram
    BY <1>1, NothingElsewhere
  <2>2. file \in Others => Decoded(file) = NoProgram
    BY OthersAssumption DEF Decoded
  <2> QED
    BY <1>1, <2>1, <2>2
<1>2. ASSUME NEW p \in Encodable, NEW n \in 0..Size(p), file = Part(p, n)
      PROVE  (IF file = Absent \/ Len(file) % WordBytes # 0 THEN NoProgram ELSE Decoded(file))
                 = IF Program(file) \in Readable THEN Program(file) ELSE NoProgram
  <2>1. MessageIn(file) = Program(file)
    BY <1>2, MessageInPart, ProgramOfPart
  <2>2. Decoded(file) = IF Program(file) \in Readable THEN Program(file) ELSE NoProgram
    BY <2>1 DEF Decoded
  <2>3. CASE n = Size(p)
    <3>1. file = Bytes(p) /\ Len(file) = Size(p)
      BY <1>2, <2>3, BytesArePart
    <3>2. file # Absent
      BY <3>1, OthersAssumption
    <3>3. Len(file) % WordBytes = 0
      BY <3>1, WholeWords, ProgramsAssumption DEF Size
    <3> QED
      BY <2>2, <3>2, <3>3
  <2>4. CASE n # Size(p)
    <3>1. Program(file) = NoProgram
      BY <1>2, <2>4, ProgramOfPart
    <3> QED
      BY <2>2, <3>1
  <2> QED
    BY <2>3, <2>4
<1> QED
  BY <1>1, <1>2 DEF OnFile

\* What serialize returned holds a program, or none.
LEMMA HeldProgram ==
    ASSUME NEW bytes, bytes = <<>> \/ \E p \in Encodable : bytes = Bytes(p)
    PROVE  /\ Program(bytes) \in Encodable \cup {NoProgram}
           /\ Decoded(bytes) = IF Program(bytes) \in Readable THEN Program(bytes) ELSE NoProgram
<1>1. CASE bytes = <<>>
  BY <1>1, EmptyHoldsNothing, ProgramsAssumption DEF Decoded
<1>2. ASSUME NEW p \in Encodable, bytes = Bytes(p)
      PROVE  Program(bytes) = p /\ MessageIn(bytes) = p
  <2>1. bytes = Part(p, Size(p)) /\ Size(p) \in 0..Size(p)
    BY <1>2, BytesArePart, SizePositive
  <2> QED
    BY <2>1, ProgramOfPart, MessageInPart
<1> QED
  BY <1>1, <1>2 DEF Decoded

LEMMA StartsAsStore == FileInit => Store!StoreInit
<1> SUFFICES ASSUME FileInit PROVE Store!StoreInit
  OBVIOUS
<1>1. Program(file) \in Encodable \cup {NoProgram}
  BY NothingElsewhere, HeldProgram DEF FileInit
<1>2. Program(buffer) = NoProgram
  BY EmptyHoldsNothing DEF FileInit
<1> QED
  BY <1>1, <1>2 DEF FileInit, Store!StoreInit

StoreNext ==
    \/ Store!Call \/ Store!Lose \/ Store!Put \/ Store!Succeed \/ Store!Fail \/ Store!Hold
    \/ Store!Load \/ UNCHANGED Store!storeVars

\* Every step of a save, of its failure, of a load is a step of the store or none.
LEMMA StepsAsStore == FileInv /\ [FileNext]_fileVars => StoreNext
<1> SUFFICES ASSUME FileInv, [FileNext]_fileVars PROVE StoreNext
  OBVIOUS
<1> USE DEF StoreNext
<1>1. CASE Save
  BY <1>1 DEF Save, Store!Call, Program
<1>2. CASE EncodeMessage
  <2>1. CASE Return("failed")
    BY <1>2, <2>1 DEF EncodeMessage, Return, Store!Fail, Program
  <2> QED
    BY <1>2, <2>1 DEF EncodeMessage, Encoded, Store!storeVars, Program
<1>3. CASE Open
  <2>1. CASE Return("failed")
    BY <1>3, <2>1 DEF Open, Return, Store!Fail, Program
  <2>2. CASE file' = Opened /\ UNCHANGED <<asked, answer, message, buffer, loaded>>
    <3>1. asked \in Encodable
      BY <1>3 DEF Open, FileInv, Saving
    <3>2. Program(file)' = NoProgram
      BY <2>2, EmptyHoldsNothing DEF Opened, Program
    <3> QED
      BY <1>3, <2>2, <3>1, <3>2 DEF Open, Store!Lose, Program
  <2> QED
    BY <1>3, <2>1, <2>2 DEF Open
<1>4. CASE Write
  <2>1. PICK k \in 1..(Len(message) - offset) : file' = Overwritten(k)
    BY <1>4 DEF Write
  <2>2. /\ asked \in Encodable /\ offset + k \in 0..Size(asked)
        /\ file' = Part(asked, offset + k)
    BY <1>4, <2>1, PartGrows DEF Write
  <2>3. Program(Part(asked, offset + k)) \in {asked, NoProgram}
    BY <2>2, ProgramOfPart
  <2>4. Program(file)' \in {asked, NoProgram}
    BY <2>2, <2>3 DEF Program
  <2> QED
    BY <1>4, <2>2, <2>4 DEF Write, Store!Lose, Store!Put, Program
<1>5. CASE WriteFails \/ Die
  BY <1>5 DEF WriteFails, Die, Return, Store!Fail, Program
<1>6. CASE Written
  <2>1. asked \in Encodable /\ file = Part(asked, offset) /\ offset = Len(Bytes(asked))
    BY <1>6 DEF Written, FileInv, Saving
  <2>2. Program(file) = asked
    BY <2>1, BytesArePart, SizePositive, ProgramOfPart
  <2> QED
    BY <1>6, <2>2 DEF Written, Return, Store!Succeed, Program
<1>7. CASE DeserializeFromFile
  <2>1. loaded' = IF Program(file) \in Readable THEN Program(file) ELSE NoProgram
    BY <1>7, LoadsStored DEF DeserializeFromFile, FileInv
  <2> QED
    BY <1>7, <2>1 DEF DeserializeFromFile, Store!Load, Program
<1>8. CASE DeserializeBuffer
  <2>1. loaded' = IF Program(buffer) \in Readable THEN Program(buffer) ELSE NoProgram
    BY <1>8, HeldProgram DEF DeserializeBuffer, FileInv, InMemory
  <2> QED
    BY <1>8, <2>1 DEF DeserializeBuffer, Store!Load, Program
<1>9. CASE SerializeToBuffer
  <2>1. buffer' = <<>> \/ \E p \in Encodable : buffer' = Bytes(p)
    BY <1>9 DEF SerializeToBuffer
  <2>2. Program(buffer') \in Encodable \cup {NoProgram}
    BY <2>1, HeldProgram
  <2>3. Program(buffer)' \in Encodable \cup {NoProgram}
    BY <2>2 DEF Program
  <2> QED
    BY <1>9, <2>3 DEF SerializeToBuffer, Store!Hold, Program
<1>10. CASE UNCHANGED fileVars
  BY <1>10 DEF fileVars, Store!storeVars, Program
<1> QED
  BY <1>1, <1>2, <1>3, <1>4, <1>5, <1>6, <1>7, <1>8, <1>9, <1>10 DEF FileNext, SerializeToFile

\* serializeToFile and deserializeFromFile implement the store, however often they fail, and
\* wherever the process dies.
THEOREM FilesImplementStore == FileSpec => ImplementsStore
<1>1. [StoreNext]_(Store!storeVars) =>
        [\/ Store!Call \/ Store!Lose \/ Store!Put \/ Store!Succeed \/ Store!Fail
         \/ Store!Hold \/ Store!Load]_(Store!storeVars)
  BY DEF StoreNext
<1> QED
  BY <1>1, Invariant, StartsAsStore, StepsAsStore, PTL
     DEF FileSpec, ImplementsStore, Store!StoreSpec

\* A module that cannot be encoded never changes the file.
THEOREM FlawedKeeps == FileSpec => FlawedKeepsFile
<1>1. FileInv /\ [FileNext]_fileVars =>
        [answer = "pending" /\ asked \in Flawed => file' = file]_fileVars
  <2> SUFFICES ASSUME FileInv, [FileNext]_fileVars, answer = "pending", asked \in Flawed
               PROVE  file' = file
    OBVIOUS
  <2>1. step \notin {"open", "write"}
    BY ProgramsAssumption DEF FileInv, Saving
  <2> QED
    BY <2>1, ProgramsAssumption
       DEF FileNext, SerializeToFile, Save, EncodeMessage, Encoded, Return, Open, Write,
           WriteFails, Written, Die, DeserializeFromFile, SerializeToBuffer, DeserializeBuffer,
           fileVars
<1> QED
  BY <1>1, Invariant, PTL DEF FileSpec, FlawedKeepsFile

(***************************************************************************)
(* Instructions.                                                           *)
(* The types of a block survive writing and reading wherever its results   *)
(* follow from its operands, and whatever is returned as a module is       *)
(* accepted by the verifier: for all argument types, lengths, widths and   *)
(* any number of operations.                                               *)
(***************************************************************************)

Families == {"qubit", "qureg", "int", "float", "ints", "floats"}

\* The reader's handlers, of all families.
Rebuilt(family, kind, imm, t, table) ==
    CASE family = "qubit" -> QubitRebuilt(kind)
      [] family = "qureg" -> QuregRebuilt(kind, t, table)
      [] family \in {"int", "float"} -> ScalarRebuilt(kind, imm, t, table)
      [] OTHER -> ArrayRebuilt(kind, imm, t, table)

\* How many results an instruction has, and how many operands its handler
\* looks at for their types.
Count(family, kind) ==
    IF family \in {"qubit", "qureg"} /\ kind = "free" THEN 0
    ELSE IF \/ family = "qubit" /\ kind = "measureNd"
            \/ family = "qureg" /\ kind \in {"extractIndex", "extractSlice", "length", "split"}
         THEN 2 ELSE 1
Uses(family, kind) ==
    CASE family = "qubit" -> 0
      [] family = "qureg" ->
            IF kind \in {"extractIndex", "insertIndex", "insertSlice", "length"} THEN 1 ELSE 0
      [] family \in {"int", "float"} ->
            IF kind = "select" THEN 2 ELSE IF kind \in {"unary", "binary"} THEN 1 ELSE 0
      [] OTHER -> IF kind \in {"getIndex", "setIndex", "create"} THEN 1 ELSE 0

\* What ResultsFollow asks of one operation.
Natural(family, kind, t, r) ==
    CASE kind = "select" -> r[1] = t[2]
      [] kind = "getIndex" -> r[1] = ElementOf(t[1])
      [] kind = "setIndex" -> r[1] = t[1]
      [] kind = "create" /\ family \in {"ints", "floats"} -> t # <<>> /\ ElementOf(r[1]) = t[1]
      [] OTHER -> TRUE

----------------------------------------------------------------------------
(* Instructions: types.                                                    *)

\* The types instructions make are types.
LEMMA MadeTypes ==
  /\ Qubit \in Type /\ I1 \in Type /\ I32 \in Type
  /\ Quregs \subseteq Type
  /\ Scalars("int") \subseteq Type /\ Scalars("float") \subseteq Type
  /\ Arrays("int") \subseteq Type /\ Arrays("float") \subseteq Type
  /\ \A x \in Type : ElementOf(x) \in Type /\ T("qureg", 0, x.length) \in Type
  /\ \A x \in Type : \A y \in Type : ArrayOf(x, y.length) \in Type
<1>1. Qubit \in Type /\ I1 \in Type /\ I32 \in Type
  BY InstructionsAssumption DEF Qubit, I1, I32, T, Type
<1>2. Quregs \subseteq Type
  BY DEF Quregs, T, Type
<1>3. Scalars("int") \subseteq Type /\ Scalars("float") \subseteq Type
  BY DEF Scalars, T, Type
<1>4. \A x \in Type : ElementOf(x) \in Type /\ T("qureg", 0, x.length) \in Type
  BY DEF ElementOf, T, Type
<1>5. ASSUME NEW x \in Type, NEW n \in Lengths \cup {0} PROVE ArrayOf(x, n) \in Type
  BY DEF ArrayOf, T, Type
<1>6. Arrays("int") \subseteq Type /\ Arrays("float") \subseteq Type
  BY <1>3, <1>5 DEF Arrays
<1>7. \A x \in Type : x.length \in Lengths \cup {0}
  BY DEF Type
<1> QED
  BY <1>1, <1>2, <1>3, <1>4, <1>5, <1>6, <1>7

----------------------------------------------------------------------------
(* Instructions: results.                                                  *)

\* Instructions on qubits.
LEMMA QubitCounted ==
  ASSUME NEW kind \in QubitKinds, NEW t, NEW r \in QubitResults(kind, t)
  PROVE  /\ r \in Seq(Type) /\ Len(r) = Count("qubit", kind)
         /\ QubitRebuilt(kind) = r
<1>1. Qubit \in Type /\ I1 \in Type
  BY MadeTypes
<1>2. CASE kind = "free"
  <2>1. r = <<>> /\ QubitRebuilt(kind) = <<>> /\ Count("qubit", kind) = 0
    BY <1>2 DEF QubitResults, QubitRebuilt, When, Count
  <2> QED
    BY <2>1
<1>3. CASE kind = "measureNd"
  <2>1. r = <<Qubit, I1>> /\ QubitRebuilt(kind) = <<Qubit, I1>> /\ Count("qubit", kind) = 2
    BY <1>3 DEF QubitResults, QubitRebuilt, When, Count
  <2> QED
    BY <1>1, <2>1
<1>4. CASE kind \notin {"free", "measureNd"}
  <2> DEFINE x == IF kind = "measure" THEN I1 ELSE Qubit
  <2>1. r = <<x>> /\ QubitRebuilt(kind) = <<x>> /\ Count("qubit", kind) = 1
    BY <1>4 DEF QubitKinds, QubitResults, QubitRebuilt, When, Count
  <2>2. x \in Type
    BY <1>1
  <2> QED
    BY <2>1, <2>2
<1> QED
  BY <1>2, <1>3, <1>4

\* Instructions on registers.
LEMMA QuregCounted ==
  ASSUME NEW kind \in QuregKinds, NEW t \in Seq(Type), NEW r \in QuregResults(kind, t)
  PROVE  /\ r \in Seq(Type) /\ Len(r) = Count("qureg", kind)
         /\ Len(t) >= Uses("qureg", kind)
         /\ QuregRebuilt(kind, t, r) = r
<1>1. Qubit \in Type /\ I32 \in Type /\ Quregs \subseteq Type
  BY MadeTypes
<1>2. t # <<>> => Len(t) >= 1 /\ t[1] \in Type
  OBVIOUS
<1>3. \A q \in Quregs : q = T("qureg", 0, q.length)
  BY DEF Quregs, T
<1>4. CASE kind \in {"alloc", "join", "create"}
  <2>1. PICK q \in Quregs : r = <<q>>
    BY <1>4 DEF QuregResults, When
  <2>2. r \in Seq(Type) /\ Len(r) = 1 /\ r[1] = q
    BY <1>1, <2>1
  <2>3. QuregRebuilt(kind, t, r) = <<T("qureg", 0, r[1].length)>>
    BY <1>4 DEF QuregRebuilt
  <2>4. Uses("qureg", kind) = 0 /\ Count("qureg", kind) = 1
    BY <1>4 DEF Uses, Count
  <2> QED
    BY <1>3, <2>1, <2>2, <2>3, <2>4
<1>5. CASE kind = "free"
  <2>1. r = <<>> /\ QuregRebuilt(kind, t, r) = <<>>
    BY <1>5 DEF QuregResults, When, QuregRebuilt
  <2>2. Count("qureg", kind) = 0 /\ Uses("qureg", kind) = 0
    BY <1>5 DEF Count, Uses
  <2> QED
    BY <2>1, <2>2
<1>6. CASE kind \in {"extractIndex", "length"}
  <2> DEFINE x == IF kind = "length" THEN I32 ELSE Qubit
  <2>1. t # <<>> /\ r = <<t[1], x>>
    BY <1>6 DEF QuregResults, When
  <2>2. QuregRebuilt(kind, t, r) = <<t[1], x>>
    BY <1>6 DEF QuregRebuilt
  <2>3. Count("qureg", kind) = 2 /\ Uses("qureg", kind) = 1 /\ x \in Type
    BY <1>1, <1>6 DEF Count, Uses
  <2> HIDE DEF x
  <2>4. t[1] \in Type /\ Len(t) >= 1
    BY <1>2, <2>1
  <2> QED
    BY <2>1, <2>2, <2>3, <2>4
<1>7. CASE kind \in {"insertIndex", "insertSlice"}
  <2>1. t # <<>> /\ r = <<t[1]>>
    BY <1>7 DEF QuregResults, When
  <2> QED
    BY <1>1, <1>2, <1>7, <2>1 DEF QuregRebuilt, Count, Uses
<1>8. CASE kind \in {"extractSlice", "split"}
  <2>1. PICK p \in Quregs, q \in Quregs : r = <<p, q>>
    <3>1. CASE kind = "extractSlice"
      <4>1. t[1] \in Quregs /\ \E q \in Quregs : r = <<t[1], q>>
        BY <3>1 DEF QuregResults, When
      <4> QED
        BY <4>1
    <3>2. CASE kind = "split"
      BY <3>2 DEF QuregResults, When
    <3> QED
      BY <1>8, <3>1, <3>2
  <2>2. r \in Seq(Type) /\ Len(r) = 2 /\ r[1] = p /\ r[2] = q
    BY <1>1, <2>1
  <2>3. QuregRebuilt(kind, t, r) = <<T("qureg", 0, r[1].length), T("qureg", 0, r[2].length)>>
    BY <1>8 DEF QuregRebuilt, SliceTypes
  <2>4. Uses("qureg", kind) = 0 /\ Count("qureg", kind) = 2
    BY <1>8 DEF Uses, Count
  <2> QED
    BY <1>3, <2>1, <2>2, <2>3, <2>4
<1> QED
  BY <1>4, <1>5, <1>6, <1>7, <1>8 DEF QuregKinds

\* Instructions on numbers.
LEMMA ScalarCounted ==
  ASSUME NEW base \in {"int", "float"}, NEW kind \in ScalarKinds(base), NEW t \in Seq(Type),
         NEW r \in ScalarResults(base, kind, t)
  PROVE  /\ r \in Seq(Type) /\ Len(r) = Count(base, kind)
         /\ Len(t) >= Uses(base, kind)
         /\ Natural(base, kind, t, r) =>
              ScalarRebuilt(kind, Immediate(base, kind, r), t, r) = r
<1> DEFINE S == Scalars(base)
           results == ScalarResults(base, kind, t)
<1>1. /\ I1 \in Type /\ S \subseteq Type /\ Scalars(Other(base)) \subseteq Type
  BY MadeTypes DEF Other
<1>2. Count(base, kind) = 1
  BY DEF Count
<1> HIDE DEF S
<1>3. ASSUME NEW x \in Type, r = <<x>>
      PROVE  r \in Seq(Type) /\ Len(r) = 1 /\ r[1] = x /\ r = <<r[1]>>
  BY <1>3
<1>4. CASE kind = "const"
  <2>1. PICK x \in S : r = <<x>>
    BY <1>4 DEF ScalarResults, When, S
  <2>2. Uses(base, kind) = 0
    BY <1>4 DEF Uses
  <2>3. ScalarRebuilt(kind, Immediate(base, kind, r), t, r) = <<r[1]>>
    BY <1>4 DEF ScalarRebuilt, Immediate
  <2> QED
    BY <1>1, <1>2, <1>3, <2>1, <2>2, <2>3
<1>5. CASE kind = "unary"
  <2>1. PICK x \in S : t = <<x>> /\ r = t
    BY <1>5 DEF ScalarResults, When, S
  <2>2. Uses(base, kind) = 1
    BY <1>5 DEF Uses
  <2>3. ScalarRebuilt(kind, Immediate(base, kind, r), t, r) = <<t[1]>>
    BY <1>5 DEF ScalarRebuilt
  <2> QED
    BY <1>1, <1>2, <1>3, <2>1, <2>2, <2>3
<1>6. CASE kind \in {"is", "comparison"}
  <2>1. r = <<I1>>
    BY <1>6 DEF ScalarResults, When, S
  <2>2. Uses(base, kind) = 0
    BY <1>6 DEF Uses
  <2>3. ScalarRebuilt(kind, Immediate(base, kind, r), t, r) = <<I1>>
    BY <1>6 DEF ScalarRebuilt
  <2> QED
    BY <1>1, <1>2, <1>3, <2>1, <2>2, <2>3
<1>7. CASE kind = "binary"
  <2>1. PICK x \in S : t = <<x, x>> /\ r = <<t[1]>>
    BY <1>7 DEF ScalarResults, When, S
  <2>2. Uses(base, kind) = 1
    BY <1>7 DEF Uses
  <2>3. ScalarRebuilt(kind, Immediate(base, kind, r), t, r) = <<t[1]>>
    BY <1>7 DEF ScalarRebuilt
  <2>4. t[1] = x /\ Len(t) = 2
    BY <2>1
  <2> QED
    BY <1>1, <1>2, <1>3, <2>1, <2>2, <2>3, <2>4
<1>8. CASE kind = "select"
  <2>1. /\ t \in {I1} \X S \X S
        /\ \E x \in S : r = <<x>>
    BY <1>8 DEF ScalarResults, When, S
  <2>2. PICK x \in S : r = <<x>>
    BY <2>1
  <2>3. Len(t) = 3
    BY <2>1
  <2>4. Uses(base, kind) = 2
    BY <1>8 DEF Uses
  <2>5. ScalarRebuilt(kind, Immediate(base, kind, r), t, r) = <<t[2]>>
    BY <1>8 DEF ScalarRebuilt, SelectType
  <2>6. Natural(base, kind, t, r) => r[1] = t[2]
    BY <1>8 DEF Natural
  <2> QED
    BY <1>1, <1>2, <1>3, <2>2, <2>3, <2>4, <2>5, <2>6
<1>9. CASE kind = "convert"
  <2>1. PICK x \in S \cup Scalars(Other(base)) : r = <<x>>
    BY <1>9 DEF ScalarResults, When, S
  <2>2. Uses(base, kind) = 0
    BY <1>9 DEF Uses
  <2>3. ScalarRebuilt(kind, Immediate(base, kind, r), t, r) = <<r[1]>>
    BY <1>9 DEF ScalarRebuilt
  <2> QED
    BY <1>1, <1>2, <1>3, <2>1, <2>2, <2>3
<1> QED
  BY <1>4, <1>5, <1>6, <1>7, <1>8, <1>9 DEF ScalarKinds

\* Instructions on arrays.
LEMMA ArrayCounted ==
  ASSUME NEW family \in {"ints", "floats"}, NEW base \in {"int", "float"},
         base = IF family = "ints" THEN "int" ELSE "float",
         NEW kind \in ArrayKinds, NEW t \in Seq(Type), NEW r \in ArrayResults(base, kind, t)
  PROVE  /\ r \in Seq(Type) /\ Len(r) = Count(family, kind)
         /\ ~(kind = "create" /\ t = <<>>) => Len(t) >= Uses(family, kind)
         /\ Natural(family, kind, t, r) =>
              ArrayRebuilt(kind, Immediate(family, kind, r), t, r) = r
<1> DEFINE S == Scalars(base)
           A == Arrays(base)
           imm == Immediate(family, kind, r)
<1>1. /\ I32 \in Type /\ S \subseteq Type /\ A \subseteq Type
  BY MadeTypes
<1>2. Count(family, kind) = 1
  BY DEF Count
<1>3. \A a \in A : ArrayOf(ElementOf(a), a.length) = a
  BY DEF Arrays, ArrayOf, ElementOf, Scalars, T
<1> HIDE DEF S, A
<1>4. ASSUME NEW x \in Type, r = <<x>>
      PROVE  r \in Seq(Type) /\ Len(r) = 1 /\ r[1] = x /\ r = <<r[1]>>
  BY <1>4
<1>5. CASE kind \in {"const", "zero"}
  <2>1. PICK a \in A : r = <<a>>
    BY <1>5 DEF ArrayResults, When, A
  <2>2. Uses(family, kind) = 0
    BY <1>5 DEF Uses
  <2>3. ArrayRebuilt(kind, imm, t, r) = <<ArrayOf(ElementOf(r[1]), r[1].length)>>
    BY <1>5 DEF ArrayRebuilt, Immediate
  <2> QED
    BY <1>1, <1>2, <1>3, <1>4, <2>1, <2>2, <2>3
<1>6. CASE kind = "getIndex"
  <2>1. t \in A \X {I32} /\ \E x \in S : r = <<x>>
    BY <1>6 DEF ArrayResults, When, A, S
  <2>2. PICK x \in S : r = <<x>>
    BY <2>1
  <2>3. Len(t) = 2
    BY <2>1
  <2>4. Uses(family, kind) = 1
    BY <1>6 DEF Uses
  <2>5. ArrayRebuilt(kind, imm, t, r) = <<ElementOf(t[1])>>
    BY <1>6 DEF ArrayRebuilt
  <2>6. Natural(family, kind, t, r) => r[1] = ElementOf(t[1])
    BY <1>6 DEF Natural
  <2> QED
    BY <1>1, <1>2, <1>4, <2>2, <2>3, <2>4, <2>5, <2>6
<1>7. CASE kind = "setIndex"
  <2>1. t \in A \X {I32} \X S /\ \E a \in A : r = <<a>>
    BY <1>7 DEF ArrayResults, When, A, S
  <2>2. PICK a \in A : r = <<a>>
    BY <2>1
  <2>3. Len(t) = 3
    BY <2>1
  <2>4. Uses(family, kind) = 1
    BY <1>7 DEF Uses
  <2>5. ArrayRebuilt(kind, imm, t, r) = <<t[1]>>
    BY <1>7 DEF ArrayRebuilt
  <2>6. Natural(family, kind, t, r) => r[1] = t[1]
    BY <1>7 DEF Natural
  <2> QED
    BY <1>1, <1>2, <1>4, <2>2, <2>3, <2>4, <2>5, <2>6
<1>8. CASE kind = "length"
  <2>1. r = <<I32>>
    BY <1>8 DEF ArrayResults, When
  <2>2. Uses(family, kind) = 0
    BY <1>8 DEF Uses
  <2>3. ArrayRebuilt(kind, imm, t, r) = <<I32>>
    BY <1>8 DEF ArrayRebuilt
  <2> QED
    BY <1>1, <1>2, <1>4, <2>1, <2>2, <2>3
<1>9. CASE kind = "create"
  <2>1. PICK a \in A : r = <<a>>
    BY <1>9 DEF ArrayResults, When, A
  <2>2. Uses(family, kind) = 1
    BY <1>9 DEF Uses
  <2>3. ArrayRebuilt(kind, imm, t, r) = <<ArrayOf(t[1], r[1].length)>>
    BY <1>9 DEF ArrayRebuilt
  <2>4. Natural(family, kind, t, r) => ElementOf(r[1]) = t[1]
    BY <1>9 DEF Natural
  <2>5. t # <<>> => Len(t) >= 1
    OBVIOUS
  <2> QED
    BY <1>1, <1>2, <1>3, <1>4, <1>9, <2>1, <2>2, <2>3, <2>4, <2>5
<1> QED
  BY <1>5, <1>6, <1>7, <1>8, <1>9 DEF ArrayKinds

\* What an instruction promises, whatever its family: the number of its results, the operands
\* its handler looks at, and that the handler finds the types of the results where they follow.
LEMMA ResultsRebuilt ==
  ASSUME NEW family \in Families, NEW kind \in KindsOf(family), NEW t \in Seq(Type),
         NEW r \in Results(family, kind, t)
  PROVE  /\ r \in Seq(Type) /\ Len(r) = Count(family, kind)
         /\ ~(family \in {"ints", "floats"} /\ kind = "create" /\ t = <<>>) =>
              Len(t) >= Uses(family, kind)
         /\ Natural(family, kind, t, r) =>
              Rebuilt(family, kind, Immediate(family, kind, r), t, r) = r
<1>1. CASE family = "qubit"
  <2>1. kind \in QubitKinds /\ r \in QubitResults(kind, t)
    BY <1>1 DEF KindsOf, Results
  <2>2. Uses(family, kind) = 0 /\ Len(t) >= 0
    BY <1>1 DEF Uses
  <2>3. Rebuilt(family, kind, Immediate(family, kind, r), t, r) = QubitRebuilt(kind)
    BY <1>1 DEF Rebuilt
  <2> QED
    BY <1>1, <2>1, <2>2, <2>3, QubitCounted
<1>2. CASE family = "qureg"
  <2>1. kind \in QuregKinds /\ r \in QuregResults(kind, t)
    BY <1>2 DEF KindsOf, Results
  <2>2. Rebuilt(family, kind, Immediate(family, kind, r), t, r) = QuregRebuilt(kind, t, r)
    BY <1>2 DEF Rebuilt
  <2> QED
    BY <1>2, <2>1, <2>2, QuregCounted
<1>3. CASE family \in {"int", "float"}
  <2>1. kind \in ScalarKinds(family) /\ r \in ScalarResults(family, kind, t)
    BY <1>3 DEF KindsOf, Results
  <2>2. Rebuilt(family, kind, Immediate(family, kind, r), t, r)
          = ScalarRebuilt(kind, Immediate(family, kind, r), t, r)
    BY <1>3 DEF Rebuilt
  <2> QED
    BY <1>3, <2>1, <2>2, ScalarCounted
<1>4. CASE family \in {"ints", "floats"}
  <2> DEFINE base == IF family = "ints" THEN "int" ELSE "float"
  <2>1. kind \in ArrayKinds /\ r \in ArrayResults(base, kind, t) /\ base \in {"int", "float"}
    BY <1>4 DEF KindsOf, Results
  <2>2. Rebuilt(family, kind, Immediate(family, kind, r), t, r)
          = ArrayRebuilt(kind, Immediate(family, kind, r), t, r)
    BY <1>4 DEF Rebuilt
  <2> QED
    BY <1>4, <2>1, <2>2, ArrayCounted
<1> QED
  BY <1>1, <1>2, <1>3, <1>4 DEF Families

\* Whatever types its operands have now, a handler makes as many results as the instruction has.
LEMMA RebuiltCounted ==
  ASSUME NEW family \in Families, NEW kind \in KindsOf(family), NEW imm \in Type,
         NEW t \in Seq(Type), Len(t) >= Uses(family, kind),
         NEW table \in Seq(Type), Len(table) = Count(family, kind)
  PROVE  /\ Rebuilt(family, kind, imm, t, table) \in Seq(Type)
         /\ Len(Rebuilt(family, kind, imm, t, table)) = Count(family, kind)
<1> DEFINE made == Rebuilt(family, kind, imm, t, table)
<1>1. /\ Qubit \in Type /\ I1 \in Type /\ I32 \in Type
      /\ \A x \in Type : ElementOf(x) \in Type /\ T("qureg", 0, x.length) \in Type
      /\ \A x \in Type : \A y \in Type : ArrayOf(x, y.length) \in Type
  BY MadeTypes
<1>2. \A n \in Nat : Len(t) >= n /\ n >= 1 => t[n] \in Type
  OBVIOUS
<1>3. \A n \in Nat : Len(table) >= n /\ n >= 1 => table[n] \in Type
  OBVIOUS
<1>4. ASSUME NEW x \in Type, made = <<x>>, Count(family, kind) = 1
      PROVE  made \in Seq(Type) /\ Len(made) = Count(family, kind)
  BY <1>4
<1>5. ASSUME NEW x \in Type, NEW y \in Type, made = <<x, y>>, Count(family, kind) = 2
      PROVE  made \in Seq(Type) /\ Len(made) = Count(family, kind)
  BY <1>5
<1>6. CASE family = "qubit"
  <2>1. CASE kind = "free"
    BY <1>6, <2>1 DEF Rebuilt, QubitRebuilt, Count
  <2>2. CASE kind = "measureNd"
    <3>1. made = <<Qubit, I1>> /\ Count(family, kind) = 2
      BY <1>6, <2>2 DEF Rebuilt, QubitRebuilt, Count
    <3> QED
      BY <1>1, <1>5, <3>1
  <2>3. CASE kind \notin {"free", "measureNd"}
    <3>1. made = (IF kind = "measure" THEN <<I1>> ELSE <<Qubit>>) /\ Count(family, kind) = 1
      BY <1>6, <2>3 DEF Rebuilt, QubitRebuilt, Count, KindsOf, QubitKinds
    <3> QED
      BY <1>1, <1>4, <3>1
  <2> QED
    BY <2>1, <2>2, <2>3
<1>7. CASE family = "qureg"
  <2>1. CASE kind = "free"
    BY <1>7, <2>1 DEF Rebuilt, QuregRebuilt, Count
  <2>2. CASE kind \in {"extractIndex", "length"}
    <3>1. made = (IF kind = "length" THEN <<t[1], I32>> ELSE <<t[1], Qubit>>)
      BY <1>7, <2>2 DEF Rebuilt, QuregRebuilt
    <3>2. Count(family, kind) = 2 /\ Uses(family, kind) = 1
      BY <1>7, <2>2 DEF Count, Uses
    <3>3. t[1] \in Type
      BY <1>2, <3>2
    <3> QED
      BY <1>1, <1>5, <3>1, <3>2, <3>3
  <2>3. CASE kind \in {"insertIndex", "insertSlice"}
    <3>1. made = <<t[1]>> /\ Count(family, kind) = 1 /\ Uses(family, kind) = 1
      BY <1>7, <2>3 DEF Rebuilt, QuregRebuilt, Count, Uses
    <3> QED
      BY <1>2, <1>4, <3>1
  <2>4. CASE kind \in {"extractSlice", "split"}
    <3>1. /\ made = <<T("qureg", 0, table[1].length), T("qureg", 0, table[2].length)>>
          /\ Count(family, kind) = 2
      BY <1>7, <2>4 DEF Rebuilt, QuregRebuilt, SliceTypes, Count
    <3>2. table[1] \in Type /\ table[2] \in Type
      BY <1>3, <3>1
    <3> QED
      BY <1>1, <1>5, <3>1, <3>2
  <2>5. CASE kind \in {"alloc", "join", "create"}
    <3>1. made = <<T("qureg", 0, table[1].length)>> /\ Count(family, kind) = 1
      BY <1>7, <2>5 DEF Rebuilt, QuregRebuilt, Count
    <3>2. table[1] \in Type
      BY <1>3, <3>1
    <3> QED
      BY <1>1, <1>4, <3>1, <3>2
  <2> QED
    BY <1>7, <2>1, <2>2, <2>3, <2>4, <2>5 DEF KindsOf, QuregKinds
<1>8. CASE family \in {"int", "float"}
  <2>1. made = ScalarRebuilt(kind, imm, t, table) /\ Count(family, kind) = 1
    BY <1>8 DEF Rebuilt, Count
  <2>2. table[1] \in Type
    BY <1>3, <2>1
  <2>3. CASE kind \in {"unary", "binary", "select"}
    <3>1. Uses(family, kind) = IF kind = "select" THEN 2 ELSE 1
      BY <1>8, <2>3 DEF Uses
    <3>2. made = IF kind = "select" THEN <<t[2]>> ELSE <<t[1]>>
      BY <2>1, <2>3 DEF ScalarRebuilt, SelectType
    <3> QED
      BY <1>2, <1>4, <2>1, <3>1, <3>2
  <2>4. CASE kind \notin {"unary", "binary", "select"}
    <3>1. made = <<imm>> \/ made = <<I1>> \/ made = <<table[1]>>
      BY <2>1, <2>4 DEF ScalarRebuilt
    <3> QED
      BY <1>1, <1>4, <2>1, <2>2, <3>1
  <2> QED
    BY <2>3, <2>4
<1>9. CASE family \in {"ints", "floats"}
  <2>1. made = ArrayRebuilt(kind, imm, t, table) /\ Count(family, kind) = 1
    BY <1>9 DEF Rebuilt, Count
  <2>2. table[1] \in Type
    BY <1>3, <2>1
  <2>3. CASE kind \in {"const", "zero", "length"}
    <3>1. made = <<ArrayOf(imm, table[1].length)>> \/ made = <<I32>>
      BY <2>1, <2>3 DEF ArrayRebuilt
    <3> QED
      BY <1>1, <1>4, <2>1, <2>2, <3>1
  <2>4. CASE kind \in {"getIndex", "setIndex", "create"}
    <3>1. Uses(family, kind) = 1
      BY <1>9, <2>4 DEF Uses
    <3>2. t[1] \in Type
      BY <1>2, <3>1
    <3>3. made = <<ElementOf(t[1])>> \/ made = <<t[1]>> \/ made = <<ArrayOf(t[1], table[1].length)>>
      BY <2>1, <2>4 DEF ArrayRebuilt
    <3> QED
      BY <1>1, <1>4, <2>1, <2>2, <3>2, <3>3
  <2> QED
    BY <1>9, <2>3, <2>4 DEF KindsOf, ArrayKinds
<1> QED
  BY <1>6, <1>7, <1>8, <1>9 DEF Families

\* Whatever types its operands have now, as long as their classes are those it was written with, a
\* handler makes results of the classes in the table.
LEMMA RebuiltAlike ==
  ASSUME NEW family \in Families, NEW kind \in KindsOf(family),
         NEW t \in Seq(Type), NEW written \in Seq(Type), Len(t) = Len(written),
         Len(t) >= Uses(family, kind),
         \A k \in 1 .. Len(t) : SameClass(t[k], written[k]),
         NEW table \in Results(family, kind, written)
  PROVE  \A k \in 1 .. Count(family, kind) :
            SameClass(Rebuilt(family, kind, Immediate(family, kind, table), t, table)[k], table[k])
<1> DEFINE imm == Immediate(family, kind, table)
           made == Rebuilt(family, kind, imm, t, table)
<1> SUFFICES \A k \in 1 .. Count(family, kind) : SameClass(made[k], table[k])
  OBVIOUS
<1>1. /\ table \in Seq(Type) /\ Len(table) = Count(family, kind)
      /\ Natural(family, kind, written, table) => Rebuilt(family, kind, imm, written, table) = table
  BY ResultsRebuilt
<1>2. \A x : SameClass(x, x)
  BY DEF SameClass
<1>3. ASSUME made = table PROVE \A k \in 1 .. Count(family, kind) : SameClass(made[k], table[k])
  BY <1>2, <1>3
<1>4. ASSUME NEW x, NEW y, made = <<x>>, table = <<y>>, SameClass(x, y), Count(family, kind) = 1
      PROVE  \A k \in 1 .. Count(family, kind) : SameClass(made[k], table[k])
  <2>1. made[1] = x /\ table[1] = y
    BY <1>4
  <2> HIDE DEF made
  <2> QED
    BY <1>4, <2>1
<1>5. \A b \in {"int", "float"} :
         /\ \A x \in Scalars(b) : x.base = b
         /\ \A a \in Arrays(b) : /\ a.base = (IF b = "int" THEN "ints" ELSE "floats")
                               /\ ElementOf(a).base = b
  BY DEF Scalars, Arrays, ArrayOf, ElementOf, T
<1>6. CASE family = "qubit"
  <2>1. Natural(family, kind, written, table)
    BY <1>6 DEF Natural, KindsOf, QubitKinds
  <2>2. made = Rebuilt(family, kind, imm, written, table)
    BY <1>6 DEF Rebuilt
  <2> QED
    BY <1>1, <1>3, <2>1, <2>2
<1>7. CASE family = "qureg"
  <2>1. kind \in QuregKinds /\ table \in QuregResults(kind, written)
    BY <1>7 DEF KindsOf, Results
  <2>2. Natural(family, kind, written, table)
    BY <1>7, <2>1 DEF Natural, QuregKinds
  <2>3. CASE kind \in {"extractIndex", "insertIndex", "insertSlice", "length"}
    <3>1. written[1] \in Quregs
      BY <2>1, <2>3 DEF QuregResults, When
    <3>2. written[1].base = "qureg"
      BY <3>1 DEF Quregs, T
    <3>3. 1 \in 1 .. Len(t)
      BY <1>7, <2>3 DEF Uses
    <3>4. t[1] = written[1]
      BY <3>2, <3>3 DEF SameClass
    <3>5. made = Rebuilt(family, kind, imm, written, table)
      BY <1>7, <2>3, <3>4 DEF Rebuilt, QuregRebuilt
    <3> QED
      BY <1>1, <1>3, <2>2, <3>5
  <2>4. CASE kind \notin {"extractIndex", "insertIndex", "insertSlice", "length"}
    <3>1. made = Rebuilt(family, kind, imm, written, table)
      BY <1>7, <2>1, <2>4 DEF Rebuilt, QuregRebuilt, QuregKinds
    <3> QED
      BY <1>1, <1>3, <2>2, <3>1
  <2> QED
    BY <2>3, <2>4
<1>8. CASE family \in {"int", "float"}
  <2>1. kind \in ScalarKinds(family) /\ table \in ScalarResults(family, kind, written)
    BY <1>8 DEF KindsOf, Results
  <2>2. made = ScalarRebuilt(kind, imm, t, table) /\ Count(family, kind) = 1
    BY <1>8 DEF Rebuilt, Count
  <2>3. CASE kind \in {"unary", "binary"}
    <3>1. table = <<written[1]>>
      <4>1. CASE kind = "unary"
        <5>1. PICK x \in Scalars(family) : written = <<x>> /\ table = written
          BY <2>1, <4>1 DEF ScalarResults, When
        <5> QED
          BY <5>1
      <4>2. CASE kind = "binary"
        BY <2>1, <4>2 DEF ScalarResults, When
      <4> QED
        BY <2>3, <4>1, <4>2
    <3>2. made = <<t[1]>>
      BY <2>2, <2>3 DEF ScalarRebuilt
    <3>3. 1 \in 1 .. Len(t)
      BY <1>8, <2>3 DEF Uses
    <3> HIDE DEF made
    <3> QED
      BY <1>4, <2>2, <3>1, <3>2, <3>3
  <2>4. CASE kind = "select"
    <3>1. /\ written \in {I1} \X Scalars(family) \X Scalars(family)
          /\ \E x \in Scalars(family) : table = <<x>>
      BY <2>1, <2>4 DEF ScalarResults, When
    <3>2. PICK x \in Scalars(family) : table = <<x>>
      BY <3>1
    <3>3. written[2] \in Scalars(family)
      BY <3>1
    <3>4. made = <<t[2]>>
      BY <2>2, <2>4 DEF ScalarRebuilt, SelectType
    <3>5. 2 \in 1 .. Len(t)
      BY <1>8, <2>4 DEF Uses
    <3>6. SameClass(t[2], x)
      <4>1. x.base = family /\ written[2].base = family /\ SameClass(t[2], written[2])
        BY <1>5, <1>8, <3>3, <3>5
      <4> QED
        BY <1>8, <4>1 DEF SameClass
    <3> HIDE DEF made
    <3> QED
      BY <1>4, <2>2, <3>2, <3>4, <3>6
  <2>5. CASE kind \notin {"unary", "binary", "select"}
    <3>1. Natural(family, kind, written, table)
      BY <1>8, <2>1, <2>5 DEF Natural, ScalarKinds
    <3>2. made = Rebuilt(family, kind, imm, written, table)
      BY <1>8, <2>5 DEF Rebuilt, ScalarRebuilt
    <3> QED
      BY <1>1, <1>3, <3>1, <3>2
  <2> QED
    BY <2>3, <2>4, <2>5
<1>9. CASE family \in {"ints", "floats"}
  <2> DEFINE base == IF family = "ints" THEN "int" ELSE "float"
  <2>1. /\ kind \in ArrayKinds /\ table \in ArrayResults(base, kind, written)
        /\ base \in {"int", "float"}
    BY <1>9 DEF KindsOf, Results
  <2>2. made = ArrayRebuilt(kind, imm, t, table) /\ Count(family, kind) = 1
    BY <1>9 DEF Rebuilt, Count
  <2>3. \A x \in Scalars(base) : x.base = base
    BY <1>5, <2>1
  <2>4. \A a \in Arrays(base) : a.base = family /\ ElementOf(a).base = base
    BY <1>5, <1>9
  <2> HIDE DEF base
  <2>5. CASE kind \in {"const", "zero", "length"}
    <3>1. Natural(family, kind, written, table)
      BY <2>5 DEF Natural
    <3>2. made = Rebuilt(family, kind, imm, written, table)
      BY <1>9, <2>5 DEF Rebuilt, ArrayRebuilt
    <3> QED
      BY <1>1, <1>3, <3>1, <3>2
  <2>6. CASE kind \in {"getIndex", "setIndex", "create"}
    <3>1. 1 \in 1 .. Len(t) /\ 1 \in 1 .. Len(written)
      BY <1>9, <2>6 DEF Uses
    <3>2. t[1].base = written[1].base
      BY <3>1 DEF SameClass
    <3>3. CASE kind = "getIndex"
      <4>1. written \in Arrays(base) \X {I32} /\ \E x \in Scalars(base) : table = <<x>>
        BY <2>1, <3>3 DEF ArrayResults, When
      <4>2. PICK x \in Scalars(base) : table = <<x>>
        BY <4>1
      <4>3. x.base = base /\ t[1].base = family
        BY <2>3, <2>4, <3>2, <4>1
      <4>4. made = <<ElementOf(t[1])>>
        BY <2>2, <3>3 DEF ArrayRebuilt
      <4>5. SameClass(ElementOf(t[1]), x)
        BY <1>9, <4>3 DEF SameClass, ElementOf, T, base
      <4> HIDE DEF made
      <4> QED
        BY <1>4, <2>2, <4>2, <4>4, <4>5
    <3>4. CASE kind = "setIndex"
      <4>1. /\ written \in Arrays(base) \X {I32} \X Scalars(base)
            /\ \E a \in Arrays(base) : table = <<a>>
        BY <2>1, <3>4 DEF ArrayResults, When
      <4>2. PICK a \in Arrays(base) : table = <<a>>
        BY <4>1
      <4>3. written[1] \in Arrays(base)
        BY <4>1
      <4>4. made = <<t[1]>>
        BY <2>2, <3>4 DEF ArrayRebuilt
      <4>5. SameClass(t[1], a)
        BY <1>9, <2>4, <3>2, <4>2, <4>3 DEF SameClass
      <4> HIDE DEF made
      <4> QED
        BY <1>4, <2>2, <4>2, <4>4, <4>5
    <3>5. CASE kind = "create"
      <4>1. /\ \A k \in DOMAIN written : written[k] \in Scalars(base)
            /\ \E a \in Arrays(base) : table = <<a>>
        BY <2>1, <3>5 DEF ArrayResults, When
      <4>2. PICK a \in Arrays(base) : table = <<a>>
        BY <4>1
      <4>3. t[1].base = base
        BY <2>3, <3>1, <3>2, <4>1
      <4>4. made = <<ArrayOf(t[1], table[1].length)>>
        BY <2>2, <3>5 DEF ArrayRebuilt
      <4>5. SameClass(ArrayOf(t[1], table[1].length), a)
        BY <1>9, <2>4, <4>2, <4>3 DEF SameClass, ArrayOf, T, base
      <4> HIDE DEF made
      <4> QED
        BY <1>4, <2>2, <4>2, <4>4, <4>5
    <3> QED
      BY <2>6, <3>3, <3>4, <3>5
  <2> QED
    BY <2>1, <2>5, <2>6 DEF ArrayKinds
<1> QED
  BY <1>6, <1>7, <1>8, <1>9 DEF Families

----------------------------------------------------------------------------
(* Instructions: the invariant.                                            *)

\* An operation of the block.
AllKinds == UNION {KindsOf(family) : family \in Families}
Operation ==
    [family : Families, kind : AllKinds, ins : Seq(Nat), imm : Type, outs : Seq(Nat)]

\* The operands of operation i are among the b[i] values defined before it, its results follow them.
Laid(b, i) ==
    LET op == ops[i]
    IN /\ \A j \in DOMAIN op.ins : op.ins[j] \in 1 .. b[i]
       /\ DOMAIN op.outs = 1 .. Count(op.family, op.kind)
       /\ \A k \in DOMAIN op.outs : op.outs[k] = b[i] + k
       /\ b[i + 1] = b[i] + Count(op.family, op.kind)
Layout(b) ==
    /\ b[Len(ops) + 1] = Len(types)
    /\ b[read + 1] = Len(restored)
    /\ \A i, j \in 1 .. Len(ops) + 1 : i <= j => b[i] <= b[j]
    /\ \A i \in DOMAIN ops : Laid(b, i)

\* It was written with types the verifier accepts.
WrittenAt(i) ==
    LET op == ops[i]
    IN /\ op.kind \in KindsOf(op.family)
       /\ TypesAt(types, op.outs) \in Results(op.family, op.kind, TypesAt(types, op.ins))
       /\ op.imm = Immediate(op.family, op.kind, TypesAt(types, op.outs))

Tables ==
    /\ types \in Seq(Type) /\ restored \in Seq(Type)
    /\ ops \in Seq(Operation)
    /\ read \in Nat /\ read <= Len(ops)
    /\ verifies \in BOOLEAN

Restored ==
    /\ \A j \in DOMAIN restored : j \in DOMAIN types /\ SameClass(restored[j], types[j])
    /\ ResultsFollow => verifies /\ \A j \in DOMAIN restored : restored[j] = types[j]

BlockInv ==
    /\ Tables
    /\ \E b \in [1 .. Len(ops) + 1 -> 0 .. Len(types)] : Layout(b)
    /\ \A i \in DOMAIN ops : WrittenAt(i)
    /\ status = "writing" =>
          /\ read = 0 /\ verifies
          /\ DOMAIN restored \subseteq DOMAIN types
          /\ \A j \in DOMAIN restored : restored[j] = types[j]
    /\ status # "writing" => returned \in DOMAIN types /\ Restored
    /\ ResultsFollow => status \notin {"rejected", "undefined"}

\* The types at a list of places.
LEMMA TypesAtPlaces ==
  ASSUME NEW table \in Seq(Type), NEW ids \in Seq(Nat), \A j \in DOMAIN ids : ids[j] \in DOMAIN table
  PROVE  TypesAt(table, ids) \in Seq(Type) /\ Len(TypesAt(table, ids)) = Len(ids)
<1>1. \A j \in DOMAIN table : table[j] \in Type
  OBVIOUS
<1>2. DOMAIN ids = 1 .. Len(ids) /\ Len(ids) \in Nat
  OBVIOUS
<1>3. TypesAt(table, ids) = [k \in 1 .. Len(ids) |-> table[ids[k]]]
  BY <1>2 DEF TypesAt
<1>4. \A k \in 1 .. Len(ids) : table[ids[k]] \in Type
  BY <1>1, <1>2
<1> QED
  BY <1>2, <1>3, <1>4

\* They are the same in tables that agree there.
LEMMA TypesAtSame ==
  ASSUME NEW one, NEW other, NEW ids, \A j \in DOMAIN ids : one[ids[j]] = other[ids[j]]
  PROVE  TypesAt(one, ids) = TypesAt(other, ids)
BY DEF TypesAt

\* The places of an operation are in the tables: all of those it was written with, and, once it was
\* read, those it was read with.
LEMMA PlacesDefined ==
  ASSUME Tables, NEW b \in [1 .. Len(ops) + 1 -> 0 .. Len(types)], Layout(b), NEW i \in DOMAIN ops
  PROVE  /\ ops[i] \in Operation /\ i \in Nat /\ b[i] \in Nat /\ b[i + 1] \in Nat
         /\ \A j \in DOMAIN ops[i].ins : ops[i].ins[j] \in 1 .. b[i]
         /\ \A j \in DOMAIN ops[i].outs : ops[i].outs[j] \in b[i] + 1 .. b[i + 1]
         /\ \A j \in DOMAIN ops[i].ins : ops[i].ins[j] \in DOMAIN types
         /\ \A j \in DOMAIN ops[i].outs : ops[i].outs[j] \in DOMAIN types
         /\ b[i] <= b[i + 1]
         /\ Len(ops[i].outs) = Count(ops[i].family, ops[i].kind)
<1>1. /\ ops[i] \in Operation /\ i \in Nat /\ i \in 1 .. Len(ops) + 1 /\ i + 1 \in 1 .. Len(ops) + 1
      /\ Len(types) \in Nat /\ DOMAIN types = 1 .. Len(types)
  BY DEF Tables
<1>2. b[i] \in 0 .. Len(types) /\ b[i + 1] \in 0 .. Len(types)
  BY <1>1
<1>3. Laid(b, i)
  BY DEF Layout
<1> DEFINE op == ops[i]
           n == Count(op.family, op.kind)
<1>4. /\ \A j \in DOMAIN op.ins : op.ins[j] \in 1 .. b[i]
      /\ DOMAIN op.outs = 1 .. n
      /\ \A k \in DOMAIN op.outs : op.outs[k] = b[i] + k
      /\ b[i + 1] = b[i] + n
  BY <1>3 DEF Laid
<1>5. n \in Nat
  BY DEF Count
<1>6. op.ins \in Seq(Nat) /\ op.outs \in Seq(Nat)
  BY <1>1 DEF Operation
<1> HIDE DEF op, n
<1>7. Len(op.outs) = n
  BY <1>4, <1>5, <1>6
<1>8. \A j \in DOMAIN op.outs : op.outs[j] \in b[i] + 1 .. b[i + 1]
  BY <1>2, <1>4, <1>5
<1>9. \A j \in DOMAIN op.ins : op.ins[j] \in DOMAIN types
  BY <1>1, <1>2, <1>4
<1>10. \A j \in DOMAIN op.outs : op.outs[j] \in DOMAIN types
  BY <1>1, <1>2, <1>8
<1>11. b[i] <= b[i + 1]
  BY <1>2, <1>4, <1>5
<1> QED
  BY <1>1, <1>2, <1>4, <1>7, <1>8, <1>9, <1>10, <1>11 DEF op, n

\* What an instruction says itself is a type.
LEMMA ImmediateTyped ==
  ASSUME NEW family \in Families, NEW kind, NEW r \in Seq(Type), Len(r) = Count(family, kind)
  PROVE  Immediate(family, kind, r) \in Type
<1>1. Len(r) = 1 => r[1] \in Type
  BY SMTT(30)
<1>3. Len(r) = 1 => ElementOf(r[1]) \in Type
  BY <1>1, MadeTypes
<1>2. family \in {"int", "float", "ints", "floats"} => Len(r) = 1
  BY DEF Count
<1> QED
  BY <1>1, <1>2, <1>3, MadeTypes DEF Immediate

\* The places that follow the table's.
LEMMA PlacesFollow ==
  ASSUME NEW n \in Nat, NEW m \in Nat, NEW r, DOMAIN r = 1 .. m,
         NEW outs, outs = [k \in DOMAIN r |-> n + k]
  PROVE  outs \in Seq(Nat) /\ DOMAIN outs = 1 .. m /\ \A k \in DOMAIN outs : outs[k] = n + k
OBVIOUS

\* A table and what is appended to it.
LEMMA TableExtended ==
  ASSUME NEW one \in Seq(Type), NEW r \in Seq(Type)
  PROVE  /\ one \o r \in Seq(Type) /\ Len(one \o r) = Len(one) + Len(r)
         /\ DOMAIN (one \o r) = 1 .. Len(one) + Len(r)
         /\ \A j \in 1 .. Len(one) : (one \o r)[j] = one[j]
         /\ \A k \in 1 .. Len(r) : (one \o r)[Len(one) + k] = r[k]
OBVIOUS

\* An operation that the writer appends.
LEMMA InstructionWritten ==
  ASSUME BlockInv, NEW family \in Families, Serialize(family)
  PROVE  BlockInv'
<1> USE DEF Families
<1>1. /\ Tables
      /\ \A i \in DOMAIN ops : WrittenAt(i)
      /\ status = "writing" /\ read = 0 /\ verifies
      /\ DOMAIN restored \subseteq DOMAIN types
      /\ \A j \in DOMAIN restored : restored[j] = types[j]
  BY DEF BlockInv, Serialize
<1>2. PICK b \in [1 .. Len(ops) + 1 -> 0 .. Len(types)] : Layout(b)
  BY DEF BlockInv
<1> DEFINE made(kind, ins, r) ==
         /\ ops' = Append(ops,
                [family |-> family, kind |-> kind, ins |-> ins,
                 imm |-> Immediate(family, kind, r),
                 outs |-> [k \in DOMAIN r |-> Len(types) + k]])
         /\ types' = types \o r
<1>20. PICK kind \in KindsOf(family) :
          \E ins \in Operands : \E r \in Results(family, kind, TypesAt(types, ins)) : made(kind, ins, r)
  BY Zenon DEF Serialize
<1>21. PICK ins \in Operands :
          \E r \in Results(family, kind, TypesAt(types, ins)) : made(kind, ins, r)
  BY <1>20
<1>3. PICK r \in Results(family, kind, TypesAt(types, ins)) :
         /\ ops' = Append(ops,
                [family |-> family, kind |-> kind, ins |-> ins,
                 imm |-> Immediate(family, kind, r),
                 outs |-> [k \in DOMAIN r |-> Len(types) + k]])
         /\ types' = types \o r
  BY <1>21
<1> HIDE DEF made
<1>4. UNCHANGED <<returned, restored, read, verifies, status>>
  BY DEF Serialize
<1> DEFINE n == Len(ops)
           t == TypesAt(types, ins)
           outs == [k \in DOMAIN r |-> Len(types) + k]
           new == [family |-> family, kind |-> kind, ins |-> ins,
                   imm |-> Immediate(family, kind, r), outs |-> outs]
           c == [i \in 1 .. n + 2 |-> IF i <= n + 1 THEN b[i] ELSE Len(types) + Len(r)]
<1>5. /\ ins \in Seq(Nat) /\ \A j \in DOMAIN ins : ins[j] \in 1 .. Len(types)
      /\ n \in Nat /\ Len(types) \in Nat /\ DOMAIN types = 1 .. Len(types)
      /\ DOMAIN ops = 1 .. n
  <2>1. n \in Nat /\ Len(types) \in Nat /\ DOMAIN types = 1 .. Len(types) /\ DOMAIN ops = 1 .. n
    BY <1>1 DEF Tables
  <2>2. PICK m \in 0 .. 3 : ins \in [1 .. m -> DOMAIN types]
    BY DEF Operands
  <2> HIDE DEF n
  <2> QED
    BY <2>1, <2>2
<1>6. t \in Seq(Type)
  BY <1>1, <1>5, TypesAtPlaces DEF Tables
<1>7. r \in Seq(Type) /\ Len(r) = Count(family, kind) /\ Len(r) \in Nat /\ DOMAIN r = 1 .. Len(r)
  BY <1>3, <1>6, ResultsRebuilt
<1>8. Immediate(family, kind, r) \in Type
  BY <1>7, ImmediateTyped
<1>9. outs \in Seq(Nat) /\ DOMAIN outs = 1 .. Len(r) /\ \A k \in DOMAIN outs : outs[k] = Len(types) + k
  BY <1>5, <1>7, PlacesFollow
<1>10. kind \in AllKinds
  BY DEF AllKinds
<1>11. /\ new \in Operation
       /\ new.family = family /\ new.kind = kind /\ new.ins = ins
       /\ new.imm = Immediate(family, kind, r) /\ new.outs = outs
  BY <1>5, <1>8, <1>9, <1>10 DEF Operation
<1>12. ops' = Append(ops, new) /\ types' = types \o r
  BY <1>3
<1> HIDE DEF new, outs, t
<1>13. /\ ops' \in Seq(Operation) /\ Len(ops') = n + 1 /\ DOMAIN ops' = 1 .. n + 1
       /\ \A i \in 1 .. n : ops'[i] = ops[i]
       /\ ops'[n + 1] = new
  BY <1>1, <1>11, <1>12 DEF Tables
<1>14. /\ types' \in Seq(Type) /\ Len(types') = Len(types) + Len(r)
       /\ DOMAIN types' = 1 .. Len(types) + Len(r)
       /\ \A j \in 1 .. Len(types) : types'[j] = types[j]
       /\ \A k \in 1 .. Len(r) : types'[Len(types) + k] = r[k]
  BY <1>1, <1>7, <1>12, TableExtended DEF Tables
<1> HIDE DEF n
<1>15. Tables'
  BY <1>1, <1>4, <1>5, <1>13, <1>14 DEF Tables, n
<1>16. \E d \in [1 .. Len(ops') + 1 -> 0 .. Len(types')] : Layout(d)'
  <2>1. /\ \A i \in 1 .. n + 1 : c[i] = b[i]
        /\ c[n + 2] = Len(types')
        /\ b[n + 1] = Len(types)
    BY <1>2, <1>5, <1>14 DEF Layout, n
  <2>2. c \in [1 .. Len(ops') + 1 -> 0 .. Len(types')]
    <3>1. \A i \in 1 .. n + 1 : b[i] \in 0 .. Len(types')
      BY <1>5, <1>7, <1>14 DEF n
    <3>2. Len(types') \in 0 .. Len(types')
      BY <1>5, <1>7, <1>14
    <3> QED
      BY <1>5, <1>13, <1>14, <3>1, <3>2
  <2> HIDE DEF c
  <2>20. PICK d : d = c
    OBVIOUS
  <2>3. c[Len(ops') + 1] = Len(types')
    <3>1. Len(ops') + 1 = n + 2
      BY <1>5, <1>13
    <3> QED
      BY <2>1, <3>1
  <2>4. c[read' + 1] = Len(restored')
    <3>1. 1 \in 1 .. n + 1 /\ read' + 1 = 1 /\ read + 1 = 1
      BY <1>1, <1>4, <1>5
    <3>2. b[1] = Len(restored)
      BY <1>2, <3>1 DEF Layout
    <3> QED
      BY <1>4, <2>1, <3>1, <3>2
  <2>5. ASSUME NEW i \in 1 .. n + 1 PROVE Laid(d, i)'
    <3>1. CASE i \in 1 .. n
      <4>1. Laid(b, i) /\ ops'[i] = ops[i]
        BY <1>2, <1>5, <1>13, <3>1 DEF Layout
      <4>2. c[i] = b[i] /\ c[i + 1] = b[i + 1]
        <5>1. i \in 1 .. n + 1 /\ i + 1 \in 1 .. n + 1
          BY <1>5, <3>1
        <5> QED
          BY <2>1, <5>1
      <4> QED
        BY <2>20, <4>1, <4>2 DEF Laid
    <3>2. CASE i = n + 1
      <4>1. ops'[i] = new
        BY <1>13, <3>2
      <4>2. c[i] = Len(types) /\ c[i + 1] = Len(types) + Count(family, kind)
        <5>1. i \in 1 .. n + 1 /\ i + 1 = n + 2
          BY <1>5, <3>2
        <5> QED
          BY <1>7, <1>14, <2>1, <3>2, <5>1
      <4> QED
        BY <1>5, <1>7, <1>9, <1>11, <2>20, <4>1, <4>2 DEF Laid
    <3> QED
      BY <1>5, <3>1, <3>2
  <2>7. ASSUME NEW i \in 1 .. n + 2, NEW j \in 1 .. n + 2, i <= j PROVE d[i] <= d[j]
    <3>1. CASE j \in 1 .. n + 1
      <4>1. i \in 1 .. n + 1 /\ b[i] <= b[j]
        BY <1>2, <1>5, <2>7, <3>1 DEF Layout, n
      <4> QED
        BY <2>1, <2>20, <3>1, <4>1
    <3>2. CASE j = n + 2
      <4>1. i \in 1 .. n + 1 \/ i = n + 2
        BY <1>5, <2>7
      <4>2. d[j] = Len(types') /\ Len(types') \in Nat
        BY <1>5, <1>7, <1>14, <2>1, <2>20, <3>2
      <4>3. i \in 1 .. n + 1 => d[i] <= Len(types')
        <5>1. i \in 1 .. n + 1 => b[i] \in 0 .. Len(types)
          BY <1>2 DEF n
        <5> QED
          BY <1>5, <1>7, <1>14, <2>1, <2>20, <5>1
      <4> QED
        BY <2>1, <2>20, <4>1, <4>2, <4>3
    <3> QED
      BY <1>5, <2>7, <3>1, <3>2
  <2>8. 1 .. Len(ops') + 1 = 1 .. n + 2
    BY <1>5, <1>13
  <2>9. Layout(d)'
    BY <1>13, <2>3, <2>4, <2>5, <2>7, <2>8, <2>20 DEF Layout
  <2> QED
    BY <2>2, <2>9, <2>20
<1>17. \A i \in DOMAIN ops' : WrittenAt(i)'
  <2> SUFFICES ASSUME NEW i \in 1 .. n + 1 PROVE WrittenAt(i)'
    BY <1>13
  <2>1. CASE i \in 1 .. n
    <3>1. i \in DOMAIN ops /\ WrittenAt(i) /\ ops'[i] = ops[i]
      BY <1>1, <1>5, <1>13, <2>1
    <3>2. /\ \A j \in DOMAIN ops[i].ins : types'[ops[i].ins[j]] = types[ops[i].ins[j]]
          /\ \A j \in DOMAIN ops[i].outs : types'[ops[i].outs[j]] = types[ops[i].outs[j]]
      BY <1>1, <1>2, <1>5, <1>14, <3>1, PlacesDefined
    <3>3. TypesAt(types', ops[i].ins) = TypesAt(types, ops[i].ins)
          /\ TypesAt(types', ops[i].outs) = TypesAt(types, ops[i].outs)
      BY <3>2, TypesAtSame
    <3> QED
      BY <3>1, <3>3 DEF WrittenAt
  <2>2. CASE i = n + 1
    <3>1. ops'[i] = new
      BY <1>13, <2>2
    <3>2. TypesAt(types', ins) = TypesAt(types, ins)
      <4>1. \A j \in DOMAIN ins : types'[ins[j]] = types[ins[j]]
        BY <1>5, <1>14
      <4> QED
        BY <4>1, TypesAtSame
    <3>3. TypesAt(types', outs) = r
      <4>1. \A k \in DOMAIN r : types'[outs[k]] = r[k]
        BY <1>7, <1>9, <1>14
      <4> QED
        BY <1>7, <1>9, <4>1 DEF TypesAt
    <3> QED
      BY <1>3, <1>11, <3>1, <3>2, <3>3 DEF WrittenAt
  <2> QED
    BY <1>5, <2>1, <2>2
<1>18. DOMAIN restored' \subseteq DOMAIN types' /\ \A j \in DOMAIN restored' : restored'[j] = types'[j]
  BY <1>1, <1>4, <1>5, <1>7, <1>14
<1> QED
  BY <1>1, <1>4, <1>15, <1>16, <1>17, <1>18 DEF BlockInv

\* An operation that the reader creates: its result types come from the table, the instruction or
\* its operands, and they are those of the table where the program is one whose results follow.
LEMMA InstructionRead ==
  ASSUME BlockInv, status = "reading", read < Len(ops),
         ~(NextOp.family \in {"ints", "floats"} /\ NoElement),
         Create(NextOp, InTypes,
                Rebuilt(NextOp.family, NextOp.kind, NextOp.imm, InTypes, TableTypes))
  PROVE  BlockInv'
<1>1. /\ Tables /\ Restored /\ returned \in DOMAIN types
      /\ \A i \in DOMAIN ops : WrittenAt(i)
  BY DEF BlockInv
<1>2. PICK b \in [1 .. Len(ops) + 1 -> 0 .. Len(types)] : Layout(b)
  BY DEF BlockInv
<1>3. PICK i : i = read + 1
  OBVIOUS
<1>4. PICK op : op = ops[i]
  OBVIOUS
<1>5. /\ i \in DOMAIN ops /\ i \in 1 .. Len(ops) + 1 /\ i + 1 \in 1 .. Len(ops) + 1 /\ read \in Nat
      /\ op \in Operation /\ NextOp = op
  BY <1>1, <1>3, <1>4 DEF Tables, NextOp
<1> DEFINE t == TypesAt(restored, op.ins)
           written == TypesAt(types, op.ins)
           table == TypesAt(types, op.outs)
           made == Rebuilt(op.family, op.kind, op.imm, t, table)
           n == Count(op.family, op.kind)
<1>6. /\ restored' = restored \o made
      /\ read' = i
      /\ verifies' = (verifies /\ made \in Results(op.family, op.kind, t))
      /\ UNCHANGED <<types, ops, returned, status>>
  BY <1>3, <1>4, <1>5 DEF Create, InTypes, TableTypes
<1>7. /\ op.kind \in KindsOf(op.family) /\ op.family \in Families /\ op.imm \in Type
      /\ table \in Results(op.family, op.kind, written)
      /\ op.imm = Immediate(op.family, op.kind, table)
      /\ op.ins \in Seq(Nat) /\ op.outs \in Seq(Nat)
  BY <1>1, <1>4, <1>5 DEF WrittenAt, Operation
<1>8. /\ b[i] = Len(restored) /\ b[i] \in Nat /\ b[i + 1] = b[i] + n
      /\ \A j \in DOMAIN op.ins : op.ins[j] \in 1 .. b[i] /\ op.ins[j] \in DOMAIN types
      /\ \A j \in DOMAIN op.outs : op.outs[j] \in DOMAIN types /\ op.outs[j] = b[i] + j
      /\ DOMAIN op.outs = 1 .. n /\ Len(op.outs) = n /\ n \in Nat
  <2>1. b[i] = Len(restored) /\ Laid(b, i)
    BY <1>2, <1>3, <1>5 DEF Layout
  <2>2. n \in Nat
    BY DEF Count
  <2>3. /\ b[i] \in Nat
        /\ \A j \in DOMAIN op.ins : op.ins[j] \in 1 .. b[i] /\ op.ins[j] \in DOMAIN types
        /\ \A j \in DOMAIN op.outs : op.outs[j] \in DOMAIN types
        /\ Len(op.outs) = n
    BY <1>1, <1>2, <1>4, <1>5, PlacesDefined
  <2> QED
    BY <1>4, <2>1, <2>2, <2>3 DEF Laid
<1>9. DOMAIN restored = 1 .. Len(restored) /\ DOMAIN types = 1 .. Len(types)
      /\ Len(restored) \in Nat /\ Len(types) \in Nat
  BY <1>1 DEF Tables
<1>10. /\ t \in Seq(Type) /\ Len(t) = Len(op.ins)
       /\ written \in Seq(Type) /\ Len(written) = Len(op.ins)
       /\ table \in Seq(Type) /\ Len(table) = n
  BY <1>1, <1>7, <1>8, <1>9, TypesAtPlaces DEF Tables
<1> HIDE DEF t, written, table, n
<1>11. /\ Len(table) = n
       /\ ~(op.family \in {"ints", "floats"} /\ op.kind = "create" /\ written = <<>>) =>
             Len(written) >= Uses(op.family, op.kind)
       /\ Natural(op.family, op.kind, written, table) =>
             Rebuilt(op.family, op.kind, Immediate(op.family, op.kind, table), written, table) = table
  BY <1>7, <1>10, ResultsRebuilt
<1>12. Len(t) >= Uses(op.family, op.kind)
  <2>1. written = <<>> => op.ins = <<>>
    BY <1>7, <1>10
  <2> QED
    BY <1>5, <1>10, <1>11, <2>1 DEF NoElement
<1>13. made \in Seq(Type) /\ Len(made) = n
  BY <1>7, <1>10, <1>12, RebuiltCounted DEF n
<1> HIDE DEF made
<1>14. /\ restored' \in Seq(Type) /\ Len(restored') = Len(restored) + n
       /\ DOMAIN restored' = 1 .. Len(restored) + n
       /\ \A j \in 1 .. Len(restored) : restored'[j] = restored[j]
       /\ \A k \in 1 .. n : restored'[Len(restored) + k] = made[k]
  BY <1>1, <1>6, <1>13, TableExtended DEF Tables
<1>15. Tables'
  BY <1>1, <1>3, <1>5, <1>6, <1>14 DEF Tables
<1>16. Layout(b)'
  <2>1. b[i + 1] = Len(restored')
    BY <1>8, <1>14
  <2>2. \A j \in DOMAIN ops : Laid(b, j)'
    BY <1>2, <1>6 DEF Layout, Laid
  <2> QED
    BY <1>2, <1>6, <2>1, <2>2 DEF Layout
<1>17. \A k \in 1 .. n : SameClass(made[k], table[k])
  <2>1. \A k \in 1 .. Len(t) : SameClass(t[k], written[k])
    <3>1. \A k \in DOMAIN op.ins : SameClass(restored[op.ins[k]], types[op.ins[k]])
      BY <1>1, <1>8, <1>9 DEF Restored
    <3>2. 1 .. Len(t) = DOMAIN op.ins
      BY <1>7, <1>10
    <3> QED
      BY <3>1, <3>2 DEF t, written, TypesAt
  <2> QED
    BY <1>7, <1>10, <1>12, <2>1, RebuiltAlike DEF made, n
<1>18. \A k \in 1 .. n : Len(restored) + k \in DOMAIN types /\ table[k] = types[Len(restored) + k]
  <2>1. \A k \in DOMAIN op.outs : table[k] = types[op.outs[k]]
    BY DEF TypesAt, table
  <2> QED
    BY <1>8, <2>1
<1>19. ASSUME ResultsFollow
       PROVE  made = table /\ made \in Results(op.family, op.kind, t)
  <2>1. \A j \in DOMAIN restored : restored[j] = types[j]
    BY <1>1, <1>19 DEF Restored
  <2>2. t = written
    <3>1. \A k \in DOMAIN op.ins : restored[op.ins[k]] = types[op.ins[k]]
      BY <1>8, <1>9, <2>1
    <3> QED
      BY <3>1, TypesAtSame DEF t, written
  <2>3. Natural(op.family, op.kind, written, table)
    <3>1. Follows(op)
      BY <1>4, <1>5, <1>19 DEF ResultsFollow
    <3> QED
      BY <3>1 DEF Follows, Natural, written, table
  <2> QED
    BY <1>7, <1>11, <2>2, <2>3 DEF made
<1>20. Restored'
  <2>1. ASSUME NEW j \in 1 .. Len(restored) + n
        PROVE  j \in DOMAIN types /\ SameClass(restored'[j], types[j])
    <3>1. CASE j \in 1 .. Len(restored)
      BY <1>1, <1>9, <1>14, <3>1 DEF Restored
    <3>2. CASE j \notin 1 .. Len(restored)
      <4>1. j - Len(restored) \in 1 .. n /\ Len(restored) + (j - Len(restored)) = j
        BY <1>8, <1>9, <3>2
      <4> QED
        BY <1>14, <1>17, <1>18, <4>1
    <3> QED
      BY <3>1, <3>2
  <2>2. ResultsFollow' => ResultsFollow
    BY <1>6 DEF ResultsFollow, Follows
  <2>3. ASSUME ResultsFollow
        PROVE  verifies' /\ \A j \in DOMAIN restored' : restored'[j] = types'[j]
    <3>1. verifies /\ \A j \in DOMAIN restored : restored[j] = types[j]
      BY <1>1, <2>3 DEF Restored
    <3>2. verifies'
      BY <1>6, <1>19, <2>3, <3>1
    <3>3. \A k \in 1 .. n : made[k] = types[Len(restored) + k]
      BY <1>18, <1>19, <2>3
    <3>4. ASSUME NEW j \in 1 .. Len(restored) + n PROVE restored'[j] = types[j]
      <4>1. CASE j \in 1 .. Len(restored)
        BY <1>9, <1>14, <3>1, <4>1
      <4>2. CASE j \notin 1 .. Len(restored)
        <5>1. j - Len(restored) \in 1 .. n /\ Len(restored) + (j - Len(restored)) = j
          BY <1>8, <1>9, <4>2
        <5> QED
          BY <1>14, <3>3, <5>1
      <4> QED
        BY <4>1, <4>2
    <3> QED
      BY <1>6, <1>14, <3>2, <3>4
  <2> QED
    BY <1>6, <1>14, <2>1, <2>2, <2>3 DEF Restored
<1>21. \A j \in DOMAIN ops' : WrittenAt(j)'
  BY <1>1, <1>6 DEF WrittenAt
<1> QED
  BY <1>1, <1>2, <1>6, <1>15, <1>16, <1>20, <1>21 DEF BlockInv

\* Reading an operation of any family, or failing to.
LEMMA OperationsKeep ==
  BlockInv /\ (\/ DeserializeQubit \/ DeserializeQureg \/ DeserializeInt \/ DeserializeFloat
               \/ DeserializeIntArray \/ DeserializeFloatArray) => BlockInv'
<1> SUFFICES ASSUME BlockInv,
                    \/ DeserializeQubit \/ DeserializeQureg \/ DeserializeInt \/ DeserializeFloat
                    \/ DeserializeIntArray \/ DeserializeFloatArray
             PROVE  BlockInv'
  OBVIOUS
<1>1. status = "reading" /\ read < Len(ops)
  BY DEF DeserializeQubit, DeserializeQureg, DeserializeInt, DeserializeFloat,
         DeserializeIntArray, DeserializeFloatArray, Reading
<1>2. ~(NextOp.family \in {"ints", "floats"} /\ NoElement)
  BY DEF DeserializeQubit, DeserializeQureg, DeserializeInt, DeserializeFloat,
         DeserializeIntArray, DeserializeFloatArray, Reading
<1>3. Create(NextOp, InTypes,
             Rebuilt(NextOp.family, NextOp.kind, NextOp.imm, InTypes, TableTypes))
  <2>1. CASE DeserializeQubit
    BY <2>1 DEF DeserializeQubit, Reading, Rebuilt
  <2>2. CASE DeserializeQureg
    BY <2>2 DEF DeserializeQureg, Reading, Rebuilt
  <2>3. CASE DeserializeInt
    BY <2>3 DEF DeserializeInt, Reading, Rebuilt
  <2>4. CASE DeserializeFloat
    BY <2>4 DEF DeserializeFloat, Reading, Rebuilt
  <2>5. CASE DeserializeIntArray
    BY <2>5 DEF DeserializeIntArray, Reading, Rebuilt
  <2>6. CASE DeserializeFloatArray
    BY <2>6 DEF DeserializeFloatArray, Reading, Rebuilt
  <2> QED
    BY <2>1, <2>2, <2>3, <2>4, <2>5, <2>6
<1> QED
  BY <1>1, <1>2, <1>3, InstructionRead

\* An array without elements is created from an operand that is not there: no program whose results
\* follow has one.
LEMMA PastEndKeeps == BlockInv /\ ReadPastEnd => BlockInv'
<1> SUFFICES ASSUME BlockInv, ReadPastEnd PROVE BlockInv'
  OBVIOUS
<1>1. /\ status = "reading" /\ read < Len(ops) /\ status' = "undefined"
      /\ NextOp.family \in {"ints", "floats"} /\ NextOp.kind = "create" /\ NextOp.ins = <<>>
      /\ UNCHANGED <<types, ops, returned, restored, read, verifies>>
  BY DEF ReadPastEnd, Reading, NoElement
<1>2. ~ResultsFollow
  <2>1. Tables
    BY DEF BlockInv
  <2>2. read + 1 \in DOMAIN ops
    BY <1>1, <2>1 DEF Tables
  <2>3. ~Follows(NextOp)
    <3>1. TypesAt(types, <<>>) = <<>>
      BY DEF TypesAt
    <3> QED
      BY <1>1, <3>1 DEF Follows
  <2> QED
    BY <2>2, <2>3 DEF ResultsFollow, NextOp
<1>3. ~ResultsFollow'
  BY <1>1, <1>2 DEF ResultsFollow, Follows
<1>4. (\E b \in [1 .. Len(ops) + 1 -> 0 .. Len(types)] : Layout(b))'
  BY <1>1 DEF BlockInv, Layout, Laid
<1>5. Tables' /\ Restored' /\ \A i \in DOMAIN ops' : WrittenAt(i)'
  BY <1>1, <1>3 DEF BlockInv, Tables, Restored, WrittenAt
<1> QED
  BY <1>1, <1>3, <1>4, <1>5 DEF BlockInv

\* The terminator is written.
LEMMA ReturnWritten == BlockInv /\ SerializeReturn => BlockInv'
<1> SUFFICES ASSUME BlockInv, SerializeReturn PROVE BlockInv'
  OBVIOUS
<1>1. /\ status = "writing" /\ status' = "reading" /\ returned' \in DOMAIN types
      /\ UNCHANGED <<types, ops, restored, read, verifies>>
  BY DEF SerializeReturn
<1>2. /\ read = 0 /\ verifies /\ DOMAIN restored \subseteq DOMAIN types
      /\ \A j \in DOMAIN restored : restored[j] = types[j]
  BY <1>1 DEF BlockInv
<1>3. (\E b \in [1 .. Len(ops) + 1 -> 0 .. Len(types)] : Layout(b))'
  BY <1>1 DEF BlockInv, Layout, Laid
<1>4. Tables' /\ \A i \in DOMAIN ops' : WrittenAt(i)'
  BY <1>1 DEF BlockInv, Tables, WrittenAt
<1>5. Restored'
  BY <1>1, <1>2 DEF Restored, SameClass
<1> QED
  BY <1>1, <1>3, <1>4, <1>5 DEF BlockInv

\* The module is verified: where results follow, the returned value has the type of the signature.
LEMMA ReturnRead == BlockInv /\ DeserializeReturn => BlockInv'
<1> SUFFICES ASSUME BlockInv, DeserializeReturn PROVE BlockInv'
  OBVIOUS
<1>1. /\ status = "reading" /\ read = Len(ops)
      /\ status' = IF ModuleVerifies THEN "module" ELSE "rejected"
      /\ UNCHANGED <<types, ops, returned, restored, read, verifies>>
  BY DEF DeserializeReturn
<1>2. Tables /\ Restored /\ returned \in DOMAIN types
  BY <1>1 DEF BlockInv
<1>3. PICK b \in [1 .. Len(ops) + 1 -> 0 .. Len(types)] : Layout(b)
  BY DEF BlockInv
<1>4. DOMAIN restored = DOMAIN types
  <2>1. Len(restored) = Len(types)
    BY <1>1, <1>3 DEF Layout
  <2> QED
    BY <1>2, <2>1 DEF Tables
<1>5. ResultsFollow => ModuleVerifies
  BY <1>2, <1>4 DEF Restored, ModuleVerifies, SignatureVerifies
<1>7. (\E d \in [1 .. Len(ops) + 1 -> 0 .. Len(types)] : Layout(d))'
  <2>1. /\ ops' = ops /\ types' = types /\ read' = read /\ restored' = restored
    BY <1>1
  <2>2. Layout(b)'
    BY <1>3, <2>1 DEF Layout, Laid
  <2> QED
    BY <2>1, <2>2
<1>8. Tables' /\ Restored' /\ \A i \in DOMAIN ops' : WrittenAt(i)'
  BY <1>1 DEF BlockInv, Tables, Restored, WrittenAt, ResultsFollow, Follows
<1>9. ResultsFollow' => ResultsFollow
  BY <1>1 DEF ResultsFollow, Follows
<1> QED
  BY <1>1, <1>2, <1>5, <1>7, <1>8, <1>9 DEF BlockInv

\* A block starts with its arguments.
LEMMA BlockStart == BlockInit => BlockInv
<1> SUFFICES ASSUME BlockInit PROVE BlockInv
  OBVIOUS
<1>1. /\ types = Args /\ restored = Args /\ ops = <<>> /\ read = 0 /\ verifies = TRUE
      /\ status = "writing"
  BY DEF BlockInit
<1>2. Args \in Seq(Type) /\ Len(Args) \in Nat
  BY InstructionsAssumption
<1>3. Len(ops) = 0 /\ DOMAIN ops = {} /\ Tables
  BY <1>1, <1>2 DEF Tables
<1>4. \E b \in [1 .. Len(ops) + 1 -> 0 .. Len(types)] : Layout(b)
  <2> DEFINE b == [i \in 1 .. 1 |-> Len(Args)]
  <2>1. b \in [1 .. Len(ops) + 1 -> 0 .. Len(types)] /\ b[1] = Len(Args)
    BY <1>1, <1>2, <1>3
  <2> HIDE DEF b
  <2>2. Layout(b)
    BY <1>1, <1>2, <1>3, <2>1 DEF Layout
  <2> QED
    BY <2>1, <2>2
<1> QED
  BY <1>1, <1>3, <1>4 DEF BlockInv

\* No step breaks the invariant.
LEMMA BlockStep == BlockInv /\ [BlockNext]_blockVars => BlockInv'
<1> SUFFICES ASSUME BlockInv, [BlockNext]_blockVars PROVE BlockInv'
  OBVIOUS
<1>1. CASE \/ SerializeQubit \/ SerializeQureg \/ SerializeInt \/ SerializeIntArray
           \/ SerializeFloat \/ SerializeFloatArray
  BY <1>1, InstructionWritten DEF Families, SerializeQubit, SerializeQureg, SerializeInt, SerializeIntArray,
                          SerializeFloat, SerializeFloatArray
<1>2. CASE SerializeReturn
  BY <1>2, ReturnWritten
<1>3. CASE \/ DeserializeQubit \/ DeserializeQureg \/ DeserializeInt \/ DeserializeFloat
           \/ DeserializeIntArray \/ DeserializeFloatArray
  BY <1>3, OperationsKeep
<1>4. CASE ReadPastEnd
  BY <1>4, PastEndKeeps
<1>5. CASE DeserializeReturn
  BY <1>5, ReturnRead
<1>6. CASE UNCHANGED blockVars
  <2>1. UNCHANGED <<types, ops, returned, restored, read, verifies, status>>
    BY <1>6 DEF blockVars
  <2>2. (\E b \in [1 .. Len(ops) + 1 -> 0 .. Len(types)] : Layout(b))'
    BY <2>1 DEF BlockInv, Layout, Laid
  <2>3. Tables' /\ (Restored => Restored') /\ \A i \in DOMAIN ops' : WrittenAt(i)'
    BY <2>1 DEF BlockInv, Tables, Restored, WrittenAt, ResultsFollow, Follows
  <2>4. ResultsFollow' => ResultsFollow
    BY <2>1 DEF ResultsFollow, Follows
  <2> QED
    BY <2>1, <2>2, <2>3, <2>4 DEF BlockInv
<1> QED
  BY <1>1, <1>2, <1>3, <1>4, <1>5, <1>6 DEF BlockNext

----------------------------------------------------------------------------
(* Instructions: the theorems.                                             *)

\* The invariant is one.
LEMMA BlockInvariant == BlockSpec => []BlockInv
  BY BlockStart, BlockStep, PTL DEF BlockSpec

\* However long a block is and whatever its types: where its results follow from its operands,
\* the reader gives every value the type it was written with.
THEOREM TypesAreRestored == BlockSpec => []TypesRestored
<1>1. BlockInv => TypesRestored
  <2> SUFFICES ASSUME BlockInv, ResultsFollow, status # "writing" PROVE IsPrefix(restored, types)
    BY DEF TypesRestored
  <2>1. Tables /\ \A j \in DOMAIN restored : restored[j] = types[j]
    BY DEF BlockInv, Restored
  <2>2. PICK b \in [1 .. Len(ops) + 1 -> 0 .. Len(types)] : Layout(b)
    BY DEF BlockInv
  <2>3. Len(restored) <= Len(types)
    <3>1. read + 1 \in 1 .. Len(ops) + 1 /\ Len(types) \in Nat
      BY <2>1 DEF Tables
    <3>2. b[read + 1] \in 0 .. Len(types) /\ b[read + 1] = Len(restored)
      BY <2>2, <3>1 DEF Layout
    <3> QED
      BY <3>1, <3>2
  <2>4. SubSeq(restored, 1, Len(restored)) = SubSeq(types, 1, Len(restored))
    BY <2>1, <2>3 DEF Tables
  <2> QED
    BY <2>3, <2>4 DEF IsPrefix
<1> QED
  BY <1>1, BlockInvariant, PTL

\* Such a block is accepted by the verifier, and no operand is looked for that is not there.
THEOREM BlocksAccepted == BlockSpec => []BlockAccepted
<1>1. BlockInv => BlockAccepted
  BY DEF BlockInv, BlockAccepted
<1> QED
  BY <1>1, BlockInvariant, PTL

\* Whatever the block, also where results do not follow: every value that is read has the class it
\* was written with, every qubit and register its type.
THEOREM ClassesAreKept == BlockSpec => []ClassesKept
<1>1. BlockInv => ClassesKept
  BY DEF BlockInv, Restored, ClassesKept
<1> QED
  BY <1>1, BlockInvariant, PTL

=============================================================================
