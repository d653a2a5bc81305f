---- MODULE MCRegionSyntax ----
(***************************************************************************)
(* Texts and operations with up to two cases, one carried value, and every *)
(* error the parsers and verifiers look for.                               *)
(***************************************************************************)
EXTENDS RegionSyntax

None == <<>>
Word  == <<"i32">>
Qubit == <<"qubit">>

Bodies  == [ops : 0..1, yields : {NoYield, None, Word}]
Clauses == [args : 0..1, body : Bodies]

\* Operands and their types as the text states them.
Headers == {<<None, None>>, <<Word, Word>>, <<Qubit, Qubit>>, <<Word \o Qubit, Word \o Qubit>>,
            <<Word \o Qubit, Word>>, <<Word \o Qubit, Word \o <<"i1">> >>}

Cases == {None} \cup {<<[label |-> n, clause |-> c]>> : n \in 0..1, c \in Clauses}
         \cup {<<[label |-> 0, clause |-> c], [label |-> n, clause |-> d]>> :
                  n \in 0..2, c, d \in Clauses}

SwitchTexts ==
    {[kind |-> "switch", operands |-> h[1], types |-> h[2], results |-> r, cases |-> c,
      default |-> d] : h \in Headers, r \in {None, Word}, c \in Cases, d \in Clauses \cup {NoClause}}

BoundTypes == {<<"i32", "i32", "i32">>, <<"i32", "i32", "i1">>, <<"qubit", "qubit", "qubit">>}

ForTexts ==
    {[kind |-> "for", bounds |-> b, type |-> t, hasArgs |-> TRUE, operands |-> o, results |-> r,
      body |-> y] : b \in BoundTypes, t \in Types, o, r \in {None, Word, Qubit}, y \in Bodies}
    \cup {[kind |-> "for", bounds |-> b, type |-> t, hasArgs |-> FALSE, operands |-> None,
           results |-> None, body |-> y] : b \in BoundTypes, t \in Types, y \in Bodies}

WhileTexts ==
    {[kind |-> "while", ins |-> i, outs |-> o, operands |-> x, before |-> b, afterArgs |-> n,
      after |-> y] : i, o, x \in {None, Qubit}, n \in 0..1, y \in Bodies,
                     b \in Bodies \cup [ops : 0..1, yields : {<<"i1">>, <<"i1", "qubit">>}]}

MCTexts == SwitchTexts \cup ForTexts \cup WhileTexts

Regions(args, yields) == {NoBlock} \cup [args : args, ops : 0..1, yields : yields \cup {NoYield}]

SwitchRegions == Regions({None, Qubit}, {None, Word})

SwitchOps ==
    {[kind |-> "switch", selection |-> s, ins |-> i, outs |-> o, branches |-> b, default |-> d] :
        s \in {"i32", "qubit"}, i \in {None, Qubit}, o \in {None, Word}, d \in SwitchRegions,
        b \in {<<>>} \cup {<<x>> : x \in SwitchRegions} \cup {<<x, y>> : x, y \in SwitchRegions}}

\* Bodies of a for with and, as the generic syntax allows, without the induction variable.
LoopOps ==
    {[kind |-> "for", bounds |-> b, ins |-> i, outs |-> o, body |-> y] :
        b \in BoundTypes, i, o \in {None, Qubit},
        y \in Regions({None, Word, <<"i1">>, Word \o Qubit, Word \o Word}, {None, Word, Qubit})}
    \cup {[kind |-> "while", ins |-> i, outs |-> o, before |-> x, after |-> y] :
        i, o \in {None, Qubit}, y \in Regions({None, Word, Qubit}, {None, Qubit}),
        x \in Regions({None, Word, Qubit}, {None, <<"i1">>, <<"i1", "qubit">>})}

MCOperations == SwitchOps \cup LoopOps
====
