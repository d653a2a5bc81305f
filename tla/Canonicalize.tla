---- MODULE Canonicalize ----
(***************************************************************************)
(* The canonicalization of jeff.int_binary_op: the pattern XorToNot,       *)
(* lib/IR/JeffOps.cpp, under MLIR's greedy driver.                         *)
(*                                                                         *)
(* A block is a sequence of parameters, constants, xors, nots and other    *)
(* operations; operands are positions before that of their user, and a     *)
(* position whose operation was erased holds Erased.  A block comes with   *)
(* the values its operations have in an execution, any that satisfy the    *)
(* operations.  The driver visits operations in an order of its own until  *)
(* no pattern applies.                                                     *)
(***************************************************************************)
EXTENDS Arithmetic

CONSTANTS Executions, \* blocks at the beginning, and values of their operations
          Erased      \* in place of an erased operation

VARIABLES block,      \* the operations
          results     \* their values before any rewrite

rewriteVars == <<block, results>>

\* "use" is any operation, say a call, that cannot be erased.
Operation == [kind : {"parameter", "const", "xor", "not", "use"}, width : Nat \ {0}, val : Nat,
              a : Nat, b : Nat]

Positions == {i \in DOMAIN block : block[i] # Erased}

OperandsOf(x) == IF x.kind \in {"parameter", "const"} THEN {} ELSE {x.a, x.b}
Used(b, i) == \E k \in DOMAIN b : b[k] # Erased /\ i \in OperandsOf(b[k])

\* v is the value of x, if those of its operands are in r.
HasValue(x, v, r) ==
    /\ x.kind = "const" => v = x.val
    /\ x.kind = "xor" => v = Binary("xor", r[x.a], r[x.b], x.width)
    /\ x.kind = "not" => v = Binary("xor", r[x.a], 2^x.width - 1, x.width)

\* Blocks the verifier accepts: operands come before their users, and those of an xor have its width.
ASSUME ExecutionsAssumption ==
    /\ Erased \notin Operation
    /\ \A e \in Executions :
          /\ e.block \in [DOMAIN e.block -> Operation]
          /\ \A i \in DOMAIN e.block :
                LET x == e.block[i]
                IN /\ \A o \in OperandsOf(x) :
                         /\ o \in DOMAIN e.block /\ o < i
                         /\ x.kind \in {"xor", "not"} => e.block[o].width = x.width
                   /\ HasValue(x, e.results[i], e.results)

----------------------------------------------------------------------------
\* The pattern looks at the second operand only.
\* The mutant takes the number one, which has all bits set in width 1, for all ones.
IsAllOnesOrOne(x) == x.kind = "const" /\ x.val \in {1, 2^x.width - 1}
IsAllOnes(x) == x.kind = "const" /\ x.val = 2^x.width - 1

Matches(i) == /\ i \in Positions
              /\ block[i].kind = "xor"
              /\ IsAllOnes(block[block[i].b])

\* The mutants: the constant is erased with the xor; a constant that has other uses is no match.
XorToNotErasing(i) ==
    /\ Matches(i)
    /\ block' = [block EXCEPT ![i] = [@ EXCEPT !.kind = "not", !.b = block[i].a],
                              ![block[i].b] = Erased]
    /\ UNCHANGED results
XorToNotOneUse(i) ==
    /\ Matches(i)
    /\ \A k \in Positions \ {i} : block[i].b \notin OperandsOf(block[k])
    /\ block' = [block EXCEPT ![i] = [@ EXCEPT !.kind = "not", !.b = block[i].a],
                              ![block[i].b] = Erased]
    /\ UNCHANGED results

\* The new operation is in place before the uses of the constant are looked at.
XorToNot(i) ==
    LET b == block[i].b
        replaced == [block EXCEPT ![i] = [@ EXCEPT !.kind = "not", !.b = block[i].a]]
    IN /\ Matches(i)
       /\ block' = IF Used(replaced, b) THEN replaced ELSE [replaced EXCEPT ![b] = Erased]
       /\ UNCHANGED results

\* The driver erases an operation that is pure and has no uses: of these, only a constant.
EraseDead(i) ==
    /\ i \in Positions
    /\ block[i].kind = "const"
    /\ ~Used(block, i)
    /\ block' = [block EXCEPT ![i] = Erased]
    /\ UNCHANGED results

RewriteInit ==
    \E e \in Executions : block = e.block /\ results = e.results

RewriteNext == \E i \in DOMAIN block : XorToNot(i) \/ EraseDead(i)

\* The driver goes on as long as there is work to do.
RewriteSpec == RewriteInit /\ [][RewriteNext]_rewriteVars /\ WF_rewriteVars(RewriteNext)

----------------------------------------------------------------------------
\* An operation that is left has operands that are left: a constant is erased only when its last
\* use is gone, even where it was both operands of the xor.
OperandsLeft == \A i \in Positions : OperandsOf(block[i]) \subseteq Positions

\* It has the value it had, in every width: only the number with all bits set makes an xor a not.
\* As operands come before their users, the values that satisfy all operations are those the block
\* computes.
ResultsKept == \A i \in Positions : HasValue(block[i], results[i], results)

\* The driver comes to an end, with no xor left whose second operand is the number of all ones.
Canonical == <>[](\A i \in DOMAIN block : ~Matches(i))
====
