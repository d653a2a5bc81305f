----------------------------- MODULE MCMetadata -----------------------------
(***************************************************************************)
(* Operations of every kind the dialect has, with every storage whose      *)
(* attributes are taken from small sets: absent, not an array, empty, of   *)
(* the right size, one element short, with an element that is no array.    *)
(* Lists of up to two entries with payloads of every form, and messages    *)
(* whose table may be short or hold a name twice.                          *)
(***************************************************************************)
EXTENDS Metadata, TLC

CONSTANTS d1, d2

MCArguments == {Null, <<>>, <<d1>>, <<Flawed>>}

\* Two regions, the first with two arguments, the second without any (or without a block), and
\* two results, as a loop or a switch may have; a function with two arguments; an operation with
\* one result and no region.
Loop     == [func |-> FALSE, results |-> 2, regions |-> <<2, 0>>]
Function == [func |-> TRUE, results |-> 0, regions |-> <<2>>]
Flat     == [func |-> FALSE, results |-> 1, regions |-> <<>>]

\* Rows for two owners: absent, not an array, empty, of the right size, with an element that is
\* no array, one element short.
Rows == {Null, Scalar, <<>>, <<<<d1>>, <<d2>>>>, <<Scalar, <<d1>>>>, <<<<d1>>>>}

\* The same for the table of the arguments and, inside it, for the rows of the two regions.
Full       == <<<<d1>>, <<d2>>>>
FirstRows  == {Scalar, <<>>, Full, <<<<d1>>, Scalar>>, <<<<d1>>>>}
SecondRows == {Scalar, <<>>, <<<<d1>>>>}
Tables == {Null, Scalar, <<>>, <<<<<<d1>>, <<d1>>>>>>} \cup
          {<<x, <<>>>> : x \in FirstRows} \cup {<<Full, y>> : y \in SecondRows}

Instances(s, own, results, regions, arguments, args) ==
    {[shape |-> s,
      storage |-> [own |-> o, results |-> x, regions |-> y, arguments |-> z, args |-> w]] :
        o \in own, x \in results, y \in regions, z \in arguments, w \in args}

MCOperations ==
    Instances(Loop, {Null, Scalar, <<Flawed>>}, {Null, <<<<d1>>, <<d2>>>>}, {Null, <<<<d1>>>>},
              {Null, <<<<>>, <<>>>>}, {<<>>})
    \cup Instances(Loop, {Null}, Rows, {Null, <<<<d1>>, <<d2>>>>}, {Null}, {<<>>})
    \cup Instances(Loop, {Null}, {Null, Scalar}, Rows, {Null}, {<<>>})
    \cup Instances(Loop, {<<d1>>}, {Null}, {Null}, Tables, {<<>>})
    \cup Instances(Function, {Null}, {Null, <<<<d1>>>>}, {Null, Scalar}, {<<>>, <<<<<<d1>>, <<>>>>>>},
                   [1..2 -> {Null, Scalar, <<d1>>}])
    \cup Instances(Flat, {Scalar, <<d1>>}, Rows, {Null, <<>>, <<<<d1>>>>}, {Null, <<<<>>>>}, {<<>>})

----------------------------------------------------------------------------

\* A large text takes two segments.
MCSegmentsOf(root) == IF root = Text("large") THEN 2 ELSE 1

SmallSeq(S) == {<<>>} \cup {<<x>> : x \in S} \cup {<<x, y>> : x, y \in S}

P(aligned, sound, segments, trailing, root) ==
    [aligned |-> aligned, sound |-> sound, segments |-> segments, trailing |-> trailing,
     root |-> root]

Payloads ==
    {P(TRUE, TRUE, n, FALSE, r) : n \in {1, 3}, r \in Roots}
    \cup {P(FALSE, TRUE, 1, FALSE, Text("large")), P(TRUE, FALSE, 1, FALSE, NoRoot),
          P(TRUE, TRUE, 1, TRUE, Text("large"))}

MCEntries == SmallSeq({[name |-> n, value |-> p] : n \in Names, p \in Payloads})

MCMessages ==
    {[strings |-> s, wire |-> w] :
        s \in SmallSeq(Names), w \in SmallSeq({[name |-> n, value |-> r] : n \in 0..2, r \in Roots})}
=============================================================================
