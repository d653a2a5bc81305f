------------------------------ MODULE MCPasses ------------------------------
(***************************************************************************)
(* What jeff-opt is asked to do: run one of the two conversions or the     *)
(* canonicalization, or print and parse an operation with regions.  Each   *)
(* behaviour is one of one of them, while the others rest in a state of    *)
(* their own.  i32 has 3 bits, i64 and index have 4.                       *)
(***************************************************************************)
EXTENDS MCJeffToNative, MCRegionSyntax, MCCanonicalize, NativeToJeff

VARIABLE active

\* A condition, an i32, an array of integers and one of floats; or no float, and a longer program.
MCNativeParameters ==
    {<<Typed(IntType(1), c), Typed(IntType(I32), x),
       Typed(TensorType(IntType(I32), Dynamic), <<6, 1>>), Typed(FloatType, <<"parameter">>)>> :
       c \in 0..1, x \in {0, 2, 5}}
    \cup {<<Typed(IntType(I32), 2), Typed(TensorType(IntType(I32), Dynamic), <<6, 1>>)>>}

MCIndexConstants == {0, 1, 2^(I32 - 1) - 1, 2^(I32 - 1), 2^(I64 - 1), 2^I64 - 1}

MCCastTypes == {IntType(I32)}

\* The native programs are those the properties are about.
ASSUME NativeAssumption == I32Programs

allVars == <<active, nativeVars, vars, rewriteVars, syntaxVars>>

AnyProgram == CHOOSE p \in Parameters : TRUE
AnyNative == CHOOSE p \in NativeParameters : TRUE
AnyText == CHOOSE t \in Texts : TRUE

PassesInit ==
    /\ active \in {"native-to-jeff", "jeff-to-native", "canonicalize", "text"}
    /\ IF active = "native-to-jeff" THEN NativeInit
       ELSE /\ pairs = [i \in DOMAIN AnyNative |->
                          [n |-> AnyNative[i], j |-> AnyNative[i], c |-> FALSE]]
            /\ stage = "converting"
    /\ IF active = "jeff-to-native" THEN Init
       ELSE /\ values = [i \in DOMAIN AnyProgram |->
                           [j |-> AnyProgram[i], n |-> AnyProgram[i], b |-> AnyProgram[i]]]
            /\ native = "converting" /\ back = "converting"
    /\ IF active = "canonicalize" THEN RewriteInit
       ELSE block = <<>> /\ results = <<>>
    /\ IF active = "text" THEN SyntaxInit
       ELSE text = AnyText /\ op = NoOp /\ status = "printed" /\ printed = FALSE

NativeStep ==
    active = "native-to-jeff" /\ NativeNext /\ UNCHANGED <<active, vars, rewriteVars, syntaxVars>>
JeffStep ==
    active = "jeff-to-native" /\ Next /\ UNCHANGED <<active, nativeVars, rewriteVars, syntaxVars>>
RewriteStep ==
    active = "canonicalize" /\ RewriteNext /\ UNCHANGED <<active, nativeVars, vars, syntaxVars>>
TextStep ==
    active = "text" /\ SyntaxNext /\ UNCHANGED <<active, nativeVars, vars, rewriteVars>>

PassesSpec ==
    /\ PassesInit
    /\ [][NativeStep \/ JeffStep \/ RewriteStep \/ TextStep]_allVars
    /\ WF_rewriteVars(active = "canonicalize" /\ RewriteNext)

=============================================================================
