---- MODULE MCNativeToJeff ----
(***************************************************************************)
(* A small instance of NativeToJeff on its own: i32 has 3 bits, i64 and    *)
(* index have 4, and index casts convert from both.                        *)
(***************************************************************************)
EXTENDS NativeToJeff

\* Integers only: an i64 with bits beyond those of an i32.
WideParameters == {<<Typed(IntType(I64), x)>> : x \in {9, 2}}

WideCastTypes == {IntType(I32), IntType(I64)}
====
