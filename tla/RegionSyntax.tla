---- MODULE RegionSyntax ----
(***************************************************************************)
(* The printers, parsers and verifiers of jeff.switch, jeff.for and        *)
(* jeff.while, lib/IR/JeffOps.cpp.                                         *)
(*                                                                         *)
(* An operation and its text are records.  Values are represented by their *)
(* types.  A region is its block: the types of its arguments, whether it   *)
(* has operations before the terminator, and the types its yield has;      *)
(* NoBlock if it has none.  The text of a region leaves out the types of   *)
(* the arguments and may leave out the yield.                              *)
(*                                                                         *)
(* An operation is printed and parsed again and again, beginning with any  *)
(* text or with any operation a pass, the reader or the generic syntax may *)
(* have made; what is parsed is verified.                                  *)
(***************************************************************************)
EXTENDS Naturals, Sequences

CONSTANTS
    SupportedInt,  \* types of selectors and bounds
    OtherTypes,    \* all other types
    NoBlock, NoClause, NoYield, NoOp, NoText,
    Operations,    \* operations not made by the parsers
    Texts          \* texts not made by the printers

Types == SupportedInt \cup OtherTypes

\* Regions, and operations of the three kinds as the generic syntax may state them.
FullRegion == [args : Seq(Types), ops : Nat, yields : Seq(Types) \cup {NoYield}]
AnyRegion  == FullRegion \cup {NoBlock}
SwitchOp   == [kind : {"switch"}, selection : Types, ins : Seq(Types), outs : Seq(Types),
               branches : Seq(AnyRegion), default : AnyRegion]
ForOp      == [kind : {"for"}, bounds : [1..3 -> Types], ins : Seq(Types), outs : Seq(Types),
               body : AnyRegion]
WhileOp    == [kind : {"while"}, ins : Seq(Types), outs : Seq(Types), before : AnyRegion,
               after : AnyRegion]

\* Their texts.
RegionBody == [ops : Nat, yields : Seq(Types) \cup {NoYield}]
CaseClause == [args : Nat, body : RegionBody]
SwitchText == [kind : {"switch"}, operands : Seq(Types), types : Seq(Types), results : Seq(Types),
               cases : Seq([label : Nat, clause : CaseClause]), default : CaseClause \cup {NoClause}]
ForText    == [kind : {"for"}, bounds : [1..3 -> Types], type : Types, hasArgs : BOOLEAN,
               operands : Seq(Types), results : Seq(Types), body : RegionBody]
WhileText  == [kind : {"while"}, ins : Seq(Types), outs : Seq(Types), operands : Seq(Types),
               before : RegionBody, afterArgs : Nat, after : RegionBody]

\* What is missing is none of the things that may be there.
ASSUME SyntaxAssumption ==
    /\ Operations \subseteq SwitchOp \cup ForOp \cup WhileOp
    /\ Texts \subseteq SwitchText \cup ForText \cup WhileText
    /\ NoYield \notin Seq(Types) /\ NoClause \notin CaseClause
    /\ NoBlock \notin FullRegion
    /\ NoOp \notin SwitchOp \cup ForOp \cup WhileOp

VARIABLES op, text,
          status,   \* "parsed", "verified", "printed", "refused" or "undefined"
          printed   \* op was printed and verified before

syntaxVars == <<op, text, status, printed>>

----------------------------------------------------------------------------
\* Printers.  The terminator of a region is left out where it cannot have operands.

Block(args, ops, yields) == [args |-> args, ops |-> ops, yields |-> yields]

PrintRegion(region, withTerminator) ==
    [ops |-> region.ops, yields |-> IF withTerminator THEN region.yields ELSE NoYield]

\* The mutant leaves out terminators where there are no in-values.
PrintSwitchShort(x) ==
    LET ClauseOf(region) == [args |-> Len(region.args), body |-> PrintRegion(region, x.ins # <<>>)]
    IN [kind |-> "switch", operands |-> <<x.selection>> \o x.ins,
        types |-> <<x.selection>> \o x.ins, results |-> x.outs,
        cases |-> [i \in DOMAIN x.branches |->
                       [label |-> i - 1, clause |-> ClauseOf(x.branches[i])]],
        default |-> IF x.default = NoBlock THEN NoClause ELSE ClauseOf(x.default)]
PrintSwitch(x) ==
    LET ClauseOf(region) == [args |-> Len(region.args), body |-> PrintRegion(region, x.outs # <<>>)]
    IN [kind |-> "switch", operands |-> <<x.selection>> \o x.ins,
        types |-> <<x.selection>> \o x.ins, results |-> x.outs,
        cases |-> [i \in DOMAIN x.branches |->
                       [label |-> i - 1, clause |-> ClauseOf(x.branches[i])]],
        default |-> IF x.default = NoBlock THEN NoClause ELSE ClauseOf(x.default)]

PrintFor(x) ==
    [kind |-> "for", bounds |-> x.bounds, type |-> x.body.args[1], hasArgs |-> x.ins # <<>>,
     operands |-> x.ins, results |-> x.ins, body |-> PrintRegion(x.body, x.ins # <<>>)]

\* The mutant leaves out a terminator that has the condition only.
PrintWhileShort(x) ==
    [kind |-> "while", ins |-> x.ins, outs |-> x.outs, operands |-> x.ins,
     before |-> PrintRegion(x.before, x.outs # <<>>), afterArgs |-> Len(x.after.args),
     after |-> PrintRegion(x.after, x.ins # <<>>)]

PrintWhile(x) ==
    [kind |-> "while", ins |-> x.ins, outs |-> x.outs, operands |-> x.ins,
     before |-> PrintRegion(x.before, TRUE), afterArgs |-> Len(x.after.args),
     after |-> PrintRegion(x.after, x.ins # <<>>)]

----------------------------------------------------------------------------
\* Parsers.

\* Braces with nothing between them, for a region without arguments, are a region without block.
ParseRegion(args, body) ==
    IF args = <<>> /\ body.ops = 0 /\ body.yields = NoYield THEN NoBlock
    ELSE Block(args, body.ops, body.yields)

EnsureTerminator(region) ==
    IF region = NoBlock THEN Block(<<>>, 0, <<>>)
    ELSE IF region.yields = NoYield THEN [region EXCEPT !.yields = <<>>] ELSE region

\* The mutant leaves the region as it was parsed.
RegionAsParsed(args, body) == ParseRegion(args, body)
Region(args, body) == EnsureTerminator(ParseRegion(args, body))

ParseSwitch(t) ==
    LET ins == Tail(t.types)
        fits(clause) == clause.args = Len(ins)
        accepted == /\ t.operands # <<>>
                    /\ t.types = t.operands
                    /\ \A i \in DOMAIN t.cases : /\ t.cases[i].label = i - 1
                                                 /\ fits(t.cases[i].clause)
                    /\ t.default # NoClause => fits(t.default)
    IN IF ~accepted THEN NoOp
       ELSE [kind |-> "switch", selection |-> t.operands[1], ins |-> ins,
             outs |-> t.results,
             branches |-> [i \in DOMAIN t.cases |-> Region(ins, t.cases[i].clause.body)],
             default |-> IF t.default = NoClause THEN NoBlock
                         ELSE Region(ins, t.default.body)]

ParseFor(t) ==
    LET accepted == /\ t.operands = t.results
                    /\ \A b \in 1..3 : t.bounds[b] = t.type
    IN IF ~accepted THEN NoOp
       ELSE [kind |-> "for", bounds |-> t.bounds, ins |-> t.operands, outs |-> t.results,
             body |-> Region(<<t.type>> \o t.results, t.body)]

ParseWhile(t) ==
    IF t.operands # t.ins \/ t.afterArgs # Len(t.outs) THEN NoOp
    ELSE [kind |-> "while", ins |-> t.ins, outs |-> t.outs,
          before |-> Region(t.ins, t.before), after |-> Region(t.outs, t.after)]

----------------------------------------------------------------------------
\* Verifiers.  The traits of all three demand that a block ends with a yield.

Terminated(region) == region.yields # NoYield

VerifySwitch(x) ==
    LET regionOK(region) == region.args = x.ins /\ region.yields = x.outs
    IN /\ x.selection \in SupportedInt
       /\ \A i \in DOMAIN x.branches : x.branches[i] # NoBlock /\ regionOK(x.branches[i])
       /\ x.default # NoBlock => regionOK(x.default)

\* verifyRegions asks for the first argument of the body before it counts them.
ForIsReached(x) ==
    /\ \A b \in 1..3 : x.bounds[b] \in SupportedInt
    /\ x.body # NoBlock /\ Terminated(x.body)
    /\ Len(x.ins) = Len(x.outs)
NoInductionVariable(x) == x.kind = "for" /\ ForIsReached(x) /\ x.body.args = <<>>

VerifyFor(x) ==
    /\ ForIsReached(x)
    /\ \A b \in 1..3 : x.bounds[b] = x.body.args[1]
    /\ x.ins = x.outs
    /\ Tail(x.body.args) = x.ins

VerifyWhile(x) ==
    /\ NoBlock \notin {x.before, x.after}
    /\ Terminated(x.before) /\ Terminated(x.after)
    /\ x.before.args = x.ins
    /\ x.after.args = x.outs

----------------------------------------------------------------------------
\* What each of them does depends on the kind.

PrintForm(x) ==
    CASE x.kind = "switch" -> PrintSwitch(x)
      [] x.kind = "for" -> PrintFor(x)
      [] OTHER -> PrintWhile(x)

ParseForm(t) ==
    CASE t.kind = "switch" -> ParseSwitch(t)
      [] t.kind = "for" -> ParseFor(t)
      [] OTHER -> ParseWhile(t)

Accepts(x) ==
    CASE x.kind = "switch" -> VerifySwitch(x)
      [] x.kind = "for" -> VerifyFor(x)
      [] OTHER -> VerifyWhile(x)

PrintOperation ==
    /\ status = "verified"
    /\ text' = PrintForm(op)
    /\ status' = "printed" /\ printed' = TRUE
    /\ UNCHANGED op

ParseText ==
    /\ status = "printed"
    /\ op' = ParseForm(text)
    /\ status' = IF op' = NoOp THEN "refused" ELSE "parsed"
    /\ UNCHANGED <<text, printed>>

Verify ==
    /\ status = "parsed"
    /\ status' = IF NoInductionVariable(op) THEN "undefined"
                 ELSE IF Accepts(op) THEN "verified" ELSE "refused"
    /\ UNCHANGED <<op, text, printed>>

SyntaxInit ==
    /\ \/ op \in Operations /\ text = NoText /\ status = "parsed"
       \/ text \in Texts /\ op = NoOp /\ status = "printed"
    /\ printed = FALSE

SyntaxNext == PrintOperation \/ ParseText \/ Verify

SyntaxSpec == SyntaxInit /\ [][SyntaxNext]_syntaxVars

----------------------------------------------------------------------------
\* The yields the dialect describes: those of a loop carry its values.
YieldsCarry(x) ==
    CASE x.kind = "for" -> x.body.yields = x.ins
      [] x.kind = "while" -> /\ x.before.yields \in {<<i>> \o x.outs : i \in SupportedInt}
                             /\ x.after.yields = x.ins
      [] OTHER -> TRUE

\* "print-then-parse round-trips faithfully" (JeffOps.cpp:248): although terminators, argument
\* types, an empty default region and the types of carried values are left out of the text, every
\* operation whose yields carry its values comes back as it was.
RoundTrips ==
    [][printed /\ status = "printed" /\ YieldsCarry(op) => op' = op]_syntaxVars

\* What was verified once and printed is accepted by the parser and by the verifier.
PrintedAccepted == printed => status \notin {"refused", "undefined"}

\* Text, once it was printed, is what the printer prints again.
TextSettles == [][printed /\ status = "verified" => text' = text]_syntaxVars
====
