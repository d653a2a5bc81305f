---- MODULE MCJeffToNative ----
(***************************************************************************)
(* Parameters for JeffToNative.                                            *)
(***************************************************************************)
EXTENDS JeffToNative

\* A condition, an i32, an i64, a float and an array of dynamic length.
MCParameters ==
    {<<Typed(IntType(1), x[1]), Typed(IntType(I32), x[2]), Typed(IntType(I64), x[3]),
       Typed(FloatType, <<"parameter">>), Typed(TensorType(IntType(I32), Dynamic), <<6, 1>>)>> :
       x \in {<<0, 1, 9>>, <<1, 2, 3>>, <<0, 5, 9>>, <<1, 5, 9>>}}
====
