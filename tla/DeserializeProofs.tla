-------------------------- MODULE DeserializeProofs --------------------------
(***************************************************************************)
(* The invariant of the reader and what follows from it: ReaderTypeOK,     *)
(* OperandsResolve, MetadataPlaced and CallsResolve of module Deserialize, *)
(* for every message, every number of functions and regions and every      *)
(* nesting of them.                                                        *)
(*                                                                         *)
(* The reader consumes a body item by item, so the invariant says first    *)
(* where in the tree of the body it is (Place, Stack), then what the items *)
(* behind it have become (Binding, OperandsResolve, Placed, Called).       *)
(***************************************************************************)
EXTENDS Deserialize, NumberingProofs

\* What WellNested says of a body, with the function it defines made a
\* parameter.
Nesting(open, items) ==
    /\ open[0] = <<>> /\ open[Len(items)] = <<>>
    /\ items # <<>>
    /\ \A n \in DOMAIN items :
          /\ open[n] = AfterItem(open[n - 1], items[n])
          /\ n = 1 \/ open[n - 1] # <<>>
          /\ items[n].tag = "enter" <=> n = 1 \/ open[n - 1][Len(open[n - 1])] > 0
          /\ items[n].tag = "leave" => items[n].meta = <<>>

Open(items) == CHOOSE open : Nesting(open, items)

\* The function exists: it can be given for one item more.
LEMMA OpenExists ==
  ASSUME NEW items, NEW L \in Nat
  PROVE  \E g : g = [n \in 0 .. L |-> IF n = 0 THEN <<>> ELSE AfterItem(g[n - 1], items[n])]
<1> DEFINE P(m) == \E g : g = [n \in 0 .. m |-> IF n = 0 THEN <<>> ELSE AfterItem(g[n - 1], items[n])]
           S == {m \in Nat : ~P(m)}
<1>1. P(0)
  <2> DEFINE g == [n \in 0 .. 0 |-> <<>>]
  <2>1. g = [n \in 0 .. 0 |-> IF n = 0 THEN <<>> ELSE AfterItem(g[n - 1], items[n])]
    OBVIOUS
  <2> QED
    BY <2>1
<1>2. ASSUME NEW m \in Nat, P(m) PROVE P(m + 1)
  <2>1. PICK g : g = [n \in 0 .. m |-> IF n = 0 THEN <<>> ELSE AfterItem(g[n - 1], items[n])]
    BY <1>2
  <2> DEFINE h == [n \in 0 .. m + 1 |-> IF n <= m THEN g[n] ELSE AfterItem(g[m], items[m + 1])]
  <2>2. ASSUME NEW n \in 0 .. m + 1
        PROVE  h[n] = IF n = 0 THEN <<>> ELSE AfterItem(h[n - 1], items[n])
    <3>1. CASE n = 0
      BY <2>1, <3>1
    <3>2. CASE n # 0 /\ n <= m
      BY <2>1, <3>2
    <3>3. CASE n = m + 1
      BY <3>3
    <3> QED
      BY <3>1, <3>2, <3>3
  <2> HIDE DEF h
  <2>3. h = [n \in 0 .. m + 1 |-> IF n = 0 THEN <<>> ELSE AfterItem(h[n - 1], items[n])]
    <3>1. h = [n \in 0 .. m + 1 |-> h[n]]
      BY DEF h
    <3> QED
      BY <2>2, <3>1
  <2> QED
    BY <2>3
<1>3. CASE S # {}
  <2> HIDE DEF P
  <2>1. PICK m \in S : \A j \in S : m <= j
    BY <1>3, LeastNat
  <2>2. m # 0 /\ m \in Nat /\ m - 1 \in Nat /\ m - 1 \notin S
    BY <1>1, <2>1
  <2> QED
    BY <1>2, <2>1, <2>2
<1> QED
  BY <1>3

\* The function that WellNested defines for a body is one that Nesting
\* describes.
LEMMA Tree ==
  ASSUME NEW items \in Seq(MessageItem), WellNested(items)
  PROVE  Nesting(Open(items), items)
<1> DEFINE Grows(g) == g = [n \in 0 .. Len(items) |->
                       IF n = 0 THEN <<>> ELSE AfterItem(g[n - 1], items[n])]
           open == CHOOSE g : Grows(g)
<1>1. /\ items # <<>> /\ open[Len(items)] = <<>>
      /\ \A n \in DOMAIN items :
             LET before == open[n - 1]
             IN /\ n = 1 \/ before # <<>>
                /\ items[n].tag = "enter" <=> n = 1 \/ before[Len(before)] > 0
                /\ items[n].tag = "leave" => items[n].meta = <<>>
  BY DEF WellNested
<1>2. Grows(open)
  <2>1. Len(items) \in Nat
    OBVIOUS
  <2>2. \E g : Grows(g)
    BY <2>1, OpenExists
  <2> HIDE DEF Grows
  <2> QED
    BY <2>2
<1>3. open = [n \in 0 .. Len(items) |->
                 IF n = 0 THEN <<>> ELSE AfterItem(open[n - 1], items[n])]
  BY <1>2
<1> HIDE DEF open
<1>4. open[0] = <<>> /\ \A n \in DOMAIN items : open[n] = AfterItem(open[n - 1], items[n])
  <2>1. Len(items) \in Nat /\ DOMAIN items = 1 .. Len(items)
    OBVIOUS
  <2>2. ASSUME NEW n \in 0 .. Len(items)
        PROVE  open[n] = IF n = 0 THEN <<>> ELSE AfterItem(open[n - 1], items[n])
    BY <1>3
  <2> QED
    BY <2>1, <2>2
<1>5. Nesting(open, items)
  BY <1>1, <1>4 DEF Nesting
<1> QED
  BY <1>5 DEF Open

----------------------------------------------------------------------------
(* The invariant.                                                          *)

Items(f) == file.functions[f].items
Depths == [k \in DOMAIN blocks |-> Len(blocks[k].todo)]
Module == [strings : Seq(Names), meta : Metadata, funcs : Seq(Function)]

\* Functions are rebuilt in the order of the message, with an argument for
\* every source of the body; the index of a function has not wrapped.
Signatures ==
    /\ file \in Files
    /\ owned \in Module
    /\ Len(owned.funcs) <= Len(file.functions) /\ Len(owned.funcs) <= U16
    /\ \A f \in DOMAIN owned.funcs :
          /\ file.functions[f].hasBody
          /\ Len(owned.funcs[f].ins) = Len(Items(f)[1].outs)
    /\ DOMAIN funcOps = 0 .. Len(owned.funcs) - 1
    /\ \A x \in DOMAIN funcOps : funcOps[x] = x + 1

\* Where the walk is: the functions before the current one are complete, those
\* after it are empty, and the stack of blocks is what the items of the
\* current one leave open.
Place ==
    /\ reading \in {"start", "signatures", "bodies", "module", "rejected", "undefined"}
    /\ body \in 0 .. Len(owned.funcs)
    /\ body # 0 => Len(owned.funcs) = Len(file.functions)
    /\ reading = "bodies" => body # 0
    /\ reading = "signatures" => body = 0
    /\ reading = "start" => body = 0 /\ owned.funcs = <<>>
    /\ body = 0 => blocks = <<>> /\ DOMAIN bound = {}
    /\ \A f \in DOMAIN owned.funcs :
          /\ f < body => Len(owned.funcs[f].items) = Len(Items(f))
          /\ f > body => owned.funcs[f].items = <<>>
    /\ body # 0 => /\ Len(Func.items) <= Len(Items(body))
                   /\ Depths = Open(Items(body))[Len(Func.items)]
    /\ reading = "module" =>
          /\ body = Len(file.functions) /\ blocks = <<>>
          /\ body # 0 => Func.items # <<>>

\* The blocks under construction: an operation whose regions are read is the
\* last one of its block.
Stack ==
    /\ blocks \in Seq(Block)
    /\ \A k \in DOMAIN blocks :
          LET b == blocks[k]
          IN /\ b.enter \in DOMAIN Func.items
             /\ b.owner # 0 => b.owner \in DOMAIN Func.items /\ b.last = b.owner
             /\ b.owner = 0 => b.todo = <<>>

\* An index that is bound leads to the definition that carries it.
Carries(v, x) ==
    /\ v \in Value /\ v[1] = body
    /\ v[2] \in DOMAIN Func.items
    /\ v[3] \in DOMAIN Func.items[v[2]].res
    /\ v[3] \in DOMAIN Items(body)[v[2]].outs
    /\ Items(body)[v[2]].outs[v[3]] = x
Binding == \A x \in DOMAIN bound : Carries(bound[x], x)

\* Metadata is in place wherever the walk is done with it: not yet at a region
\* that is open, nor at an operation whose regions are read.
InRegion(i) == \E k \in DOMAIN blocks : blocks[k].enter = i
InOwner(i) == \E k \in DOMAIN blocks : blocks[k].owner = i
RegionOpen(f, i) == f = body /\ InRegion(i)
OwnerOpen(f, i) == f = body /\ InOwner(i)
ResultsPlaced(res, old, values) ==
    \A k \in DOMAIN old.outs \cap DOMAIN res :
        res[k].meta = Decode(values[old.outs[k] + 1].meta)
ItemPlaced(f, i) ==
    LET new == owned.funcs[f].items[i]
        old == Items(f)[i]
    IN /\ RegionOpen(f, i) \/ OwnerOpen(f, i) \/ new.meta = Decode(old.meta)
       /\ OwnerOpen(f, i) \/ ResultsPlaced(new.res, old, file.functions[f].values)
Placed ==
    /\ readResult \in {"success", "failure"}
    /\ verifies \in BOOLEAN
    /\ readResult = "success" =>
          \A f \in DOMAIN owned.funcs :
              /\ owned.funcs[f].meta = Decode(file.functions[f].meta)
              /\ \A i \in DOMAIN owned.funcs[f].items : ItemPlaced(f, i)
    /\ reading = "module" => readResult = "success" /\ owned.meta = Decode(file.meta)

\* A call that was rebuilt calls the function whose index it has.
Called ==
    \A f \in DOMAIN owned.funcs : \A i \in DOMAIN owned.funcs[f].items :
        LET new == owned.funcs[f].items[i]
            id == Items(f)[i].ref
        IN new.tag = "call" =>
             /\ id + 1 \in DOMAIN owned.funcs
             /\ new.ref = owned.funcs[id + 1].name
             /\ TypesOf(new.res) = owned.funcs[id + 1].outs

ReaderInv == Signatures /\ Place /\ Stack /\ Binding /\ OperandsResolve /\ Placed /\ Called

----------------------------------------------------------------------------
(* What the invariant says of the message and of the place in it.          *)

\* The parts of a message are of their kinds.
LEMMA FileParts ==
  ASSUME Signatures
  PROVE  /\ file \in Message
         /\ file.functions \in Seq(MessageFunction)
         /\ file.strings \in Seq(Names)
         /\ file.meta \in Seq(Nat)
<1>1. file \in Message
  BY SignatureAssumption DEF Signatures
<1> QED
  BY <1>1 DEF Message

\* The function whose body is read, in the module and in the message.
LEMMA BodyParts ==
  ASSUME Signatures, Place, body # 0
  PROVE  /\ body \in Nat /\ body \in DOMAIN owned.funcs /\ body \in DOMAIN file.functions
         /\ owned.funcs \in Seq(Function) /\ Func \in Function /\ Func.items \in Seq(Item)
         /\ file.functions[body] \in MessageFunction
         /\ Items(body) \in Seq(MessageItem)
         /\ Table \in Seq([type : Types, meta : Seq(Nat)])
         /\ Nesting(Open(Items(body)), Items(body))
         /\ Here = Len(Func.items) + 1 /\ Here \in Nat \ {0}
<1>1. file.functions \in Seq(MessageFunction)
  BY FileParts
<1>2. owned.funcs \in Seq(Function)
  BY DEF Signatures, Module
<1>3. body \in Nat /\ body \in DOMAIN owned.funcs /\ body \in DOMAIN file.functions
  BY <1>1, <1>2 DEF Signatures, Place
<1>4. Func \in Function /\ file.functions[body] \in MessageFunction
  BY <1>1, <1>2, <1>3 DEF Func
<1>5. Func.items \in Seq(Item) /\ Items(body) \in Seq(MessageItem)
      /\ Table \in Seq([type : Types, meta : Seq(Nat)])
  BY <1>4 DEF Function, MessageFunction, Items, Table
<1>6. WellNested(Items(body))
  <2>1. file \in Files /\ file.functions[body].hasBody
    BY <1>3 DEF Signatures
  <2> QED
    BY <1>3, <2>1, FilesAssumption DEF Items
<1>7. Nesting(Open(Items(body)), Items(body))
  BY <1>5, <1>6, Tree
<1>8. Here = Len(Func.items) + 1 /\ Here \in Nat \ {0}
  BY <1>5 DEF Here
<1> QED
  BY <1>1, <1>2, <1>3, <1>4, <1>5, <1>7, <1>8

\* A body whose blocks are all closed is read to its end.
LEMMA BodyComplete ==
  ASSUME Signatures, Place, body # 0, blocks = <<>>, Func.items # <<>>
  PROVE  Len(Func.items) = Len(Items(body))
<1> DEFINE items == Items(body)
           n == Len(Func.items)
<1>1. /\ items \in Seq(MessageItem) /\ Nesting(Open(items), items)
      /\ Func.items \in Seq(Item) /\ n \in Nat /\ n # 0 /\ n <= Len(items)
  BY BodyParts DEF Place
<1>2. Open(items)[n] = <<>>
  BY DEF Place, Depths
<1>3. CASE n < Len(items)
  <2>1. n + 1 \in DOMAIN items /\ n + 1 # 1
    BY <1>1, <1>3
  <2> QED
    BY <1>1, <1>2, <2>1 DEF Nesting
<1> QED
  BY <1>1, <1>3

\* The next item: there is one, and it begins a block where one is expected
\* and nowhere else.
LEMMA NextItem ==
  ASSUME Signatures, Place, Stack, body # 0,
         blocks # <<>> \/ Func.items = <<>>
  PROVE  /\ Here \in DOMAIN Items(body) /\ It = Items(body)[Here] /\ It \in MessageItem
         /\ Open(Items(body))[Here] = AfterItem(Depths, It)
         /\ blocks = <<>> => It.tag = "enter"
         /\ blocks # <<>> => (It.tag = "enter" <=> Top.todo # <<>>)
         /\ It.tag = "leave" => It.meta = <<>>
<1> DEFINE items == Items(body)
           n == Len(Func.items)
           open == Open(items)
<1>1. /\ items \in Seq(MessageItem) /\ Nesting(open, items)
      /\ Func.items \in Seq(Item) /\ n \in Nat /\ n <= Len(items)
      /\ Here = n + 1 /\ It = items[n + 1]
  BY BodyParts DEF Place, It, Items
<1>2. Depths = open[n]
  BY DEF Place
<1> HIDE DEF open, items, n
<1>3. blocks \in Seq(Block)
  BY DEF Stack
<1>4. blocks # <<>> => open[n] # <<>> /\ Len(open[n]) = Len(blocks)
                       /\ open[n][Len(open[n])] = Len(Top.todo)
  BY <1>2, <1>3 DEF Depths, Top
<1>5. n < Len(items)
  <2>1. n = 0 => Func.items = <<>>
    BY <1>1 DEF n
  <2>2. Func.items = <<>> => n = 0
    BY DEF n
  <2>3. open[Len(items)] = <<>> /\ items # <<>>
    BY <1>1 DEF Nesting
  <2>4. CASE blocks # <<>>
    BY <1>1, <1>4, <2>3, <2>4
  <2>5. CASE blocks = <<>>
    BY <1>1, <2>2, <2>3, <2>5
  <2> QED
    BY <2>4, <2>5
<1>6. n + 1 \in DOMAIN items /\ (n + 1) - 1 = n
  BY <1>1, <1>5
<1>7. /\ open[n + 1] = AfterItem(open[n], items[n + 1])
      /\ items[n + 1].tag = "enter" <=> n + 1 = 1 \/ open[n][Len(open[n])] > 0
      /\ items[n + 1].tag = "leave" => items[n + 1].meta = <<>>
      /\ open[0] = <<>>
  BY <1>1, <1>6 DEF Nesting
<1>8. items[n + 1] \in MessageItem
  BY <1>1, <1>6
<1>9. blocks = <<>> => It.tag = "enter"
  <2> SUFFICES ASSUME blocks = <<>> PROVE It.tag = "enter"
    OBVIOUS
  <2>1. n = 0
    BY DEF n
  <2> QED
    BY <1>1, <1>7, <2>1
<1>10. blocks # <<>> => (It.tag = "enter" <=> Top.todo # <<>>)
  <2> SUFFICES ASSUME blocks # <<>> PROVE It.tag = "enter" <=> Top.todo # <<>>
    OBVIOUS
  <2>1. n # 0
    BY <1>4, <1>7
  <2>2. Top \in Block
    BY <1>3 DEF Top
  <2>3. Top.todo \in Seq(Seq(Types))
    BY <2>2 DEF Block
  <2>4. Top.todo # <<>> <=> Len(Top.todo) > 0
    BY <2>3
  <2> QED
    BY <1>1, <1>4, <1>7, <2>1, <2>4
<1> QED
  BY <1>1, <1>2, <1>6, <1>7, <1>8, <1>9, <1>10 DEF items, open

----------------------------------------------------------------------------
(* Checks.                                                                 *)

Outcomes == {"rejected", "undefined"}

\* When the verdict is "passed", no check failed; otherwise it is an outcome.
LEMMA VerdictPassed ==
  ASSUME NEW checks, NEW n \in Nat, DOMAIN checks = 1 .. n,
         \A i \in 1 .. n : checks[i][2] \in Outcomes
  PROVE  /\ Verdict(checks) = "passed" => \A i \in 1 .. n : ~checks[i][1]
         /\ Verdict(checks) # "passed" => Verdict(checks) \in Outcomes
<1> DEFINE failing == {i \in DOMAIN checks : checks[i][1]}
<1>1. CASE failing = {}
  <2>1. Verdict(checks) = "passed"
    BY <1>1 DEF Verdict
  <2>2. \A i \in 1 .. n : ~checks[i][1]
    BY <1>1
  <2> QED
    BY <2>1, <2>2
<1>2. CASE failing # {}
  <2>1. failing \in SUBSET Nat
    OBVIOUS
  <2>2. \E i \in failing : \A j \in failing : i <= j
    BY <1>2, <2>1, LeastNat
  <2> DEFINE first == CHOOSE i \in failing : \A j \in failing : i <= j
  <2>3. first \in failing
    BY <2>2
  <2>4. Verdict(checks) = checks[first][2]
    BY <1>2 DEF Verdict
  <2>5. first \in 1 .. n
    BY <2>3
  <2> HIDE DEF first
  <2>6. Verdict(checks) \in Outcomes
    BY <2>4, <2>5
  <2> QED
    BY <2>6 DEF Outcomes
<1> QED
  BY <1>1, <1>2

\* What the checks of a signature let through.
LEMMA SignaturePassed ==
  ASSUME NEW func
  PROVE  /\ Verdict(SignatureChecks(func)) # "passed" => Verdict(SignatureChecks(func)) \in Outcomes
         /\ Verdict(SignatureChecks(func)) = "passed" =>
               /\ func.hasBody
               /\ ~(func.hasBody /\ \/ \E k \in DOMAIN func.items[1].outs :
                                          func.items[1].outs[k] >= Len(func.values)
                                    \/ \E k \in DOMAIN func.items[Len(func.items)].ins :
                                          func.items[Len(func.items)].ins[k] >= Len(func.values))
               /\ ~(func.name >= Len(file.strings))
               /\ ~FuncIdTaken
<1> DEFINE cs == SignatureChecks(func)
<1>1. DOMAIN cs = 1 .. 4 /\ \A i \in 1 .. 4 : cs[i][2] \in Outcomes
  BY DEF SignatureChecks, Outcomes
<1>2. /\ Verdict(cs) = "passed" => \A i \in 1 .. 4 : ~cs[i][1]
      /\ Verdict(cs) # "passed" => Verdict(cs) \in Outcomes
  <2> HIDE DEF cs
  <2> QED
    BY <1>1, VerdictPassed
<1>3. Verdict(cs) = "passed" => ~cs[1][1] /\ ~cs[2][1] /\ ~cs[3][1] /\ ~cs[4][1]
  BY <1>2
<1> QED
  BY <1>2, <1>3 DEF SignatureChecks

\* What the checks before a block let through.
LEMMA EnterPassed ==
  ASSUME NEW it
  PROVE  /\ Verdict(EnterChecks(it)) # "passed" => Verdict(EnterChecks(it)) \in Outcomes
         /\ Verdict(EnterChecks(it)) = "passed" =>
               /\ ~(Len(blocks) > 0 /\ Len(it.outs) > Len(Head(Top.todo)))
               /\ Settable(it.outs)
<1> DEFINE cs == EnterChecks(it)
<1>1. DOMAIN cs = 1 .. 4 /\ \A i \in 1 .. 4 : cs[i][2] \in Outcomes
  BY DEF EnterChecks, Outcomes
<1>2. /\ Verdict(cs) = "passed" => \A i \in 1 .. 4 : ~cs[i][1]
      /\ Verdict(cs) # "passed" => Verdict(cs) \in Outcomes
  <2> HIDE DEF cs
  <2> QED
    BY <1>1, VerdictPassed
<1>3. Verdict(cs) = "passed" => ~cs[3][1] /\ ~cs[4][1]
  BY <1>2
<1> QED
  BY <1>2, <1>3 DEF EnterChecks

\* What the checks at the end of a block let through.
LEMMA LeavePassed ==
  ASSUME NEW it
  PROVE  /\ Verdict(LeaveChecks(it)) # "passed" => Verdict(LeaveChecks(it)) \in Outcomes
         /\ Verdict(LeaveChecks(it)) = "passed" => Readable(it.ins)
<1> DEFINE cs == LeaveChecks(it)
<1>1. DOMAIN cs = 1 .. 1 /\ \A i \in 1 .. 1 : cs[i][2] \in Outcomes
  BY DEF LeaveChecks, Outcomes
<1>2. /\ Verdict(cs) = "passed" => \A i \in 1 .. 1 : ~cs[i][1]
      /\ Verdict(cs) # "passed" => Verdict(cs) \in Outcomes
  <2> HIDE DEF cs
  <2> QED
    BY <1>1, VerdictPassed
<1>3. Verdict(cs) = "passed" => ~cs[1][1]
  BY <1>2
<1> QED
  BY <1>2, <1>3 DEF LeaveChecks

\* What the checks of an instruction without regions let through.
LEMMA FlatPassed ==
  ASSUME NEW it
  PROVE  /\ Verdict(FlatChecks(it)) # "passed" => Verdict(FlatChecks(it)) \in Outcomes
         /\ Verdict(FlatChecks(it)) = "passed" =>
               /\ Readable(Take(it.ins, Len(Signature[it.tag].ins)))
               /\ ~(Len(it.ins) < Len(Signature[it.tag].ins))
               /\ Settable(Take(it.outs, Len(Signature[it.tag].res)))
               /\ ~(Len(it.outs) < Len(Signature[it.tag].res))
<1> DEFINE cs == FlatChecks(it)
<1>1. DOMAIN cs = 1 .. 4 /\ \A i \in 1 .. 4 : cs[i][2] \in Outcomes
  BY DEF FlatChecks, Outcomes
<1>2. /\ Verdict(cs) = "passed" => \A i \in 1 .. 4 : ~cs[i][1]
      /\ Verdict(cs) # "passed" => Verdict(cs) \in Outcomes
  <2> HIDE DEF cs
  <2> QED
    BY <1>1, VerdictPassed
<1>3. Verdict(cs) = "passed" => ~cs[1][1] /\ ~cs[2][1] /\ ~cs[3][1] /\ ~cs[4][1]
  BY <1>2
<1> QED
  BY <1>2, <1>3 DEF FlatChecks

\* The gate's name is looked at first.
LEMMA CustomPassed ==
  ASSUME NEW it
  PROVE  /\ Verdict(CustomChecks(it)) # "passed" => Verdict(CustomChecks(it)) \in Outcomes
         /\ Verdict(CustomChecks(it)) = "passed" =>
               /\ ~(it.ref >= Len(file.strings))
               /\ Readable(Take(it.ins, Len(Signature[it.tag].ins)))
               /\ ~(Len(it.ins) < Len(Signature[it.tag].ins))
               /\ Settable(Take(it.outs, Len(Signature[it.tag].res)))
               /\ ~(Len(it.outs) < Len(Signature[it.tag].res))
<1> DEFINE z == <<it.ref >= Len(file.strings), "undefined">>
           a == <<~Readable(Take(it.ins, Len(Signature[it.tag].ins))), "rejected">>
           b == <<Len(it.ins) < Len(Signature[it.tag].ins), "undefined">>
           c == <<~Settable(Take(it.outs, Len(Signature[it.tag].res))), "rejected">>
           d == <<Len(it.outs) < Len(Signature[it.tag].res), "undefined">>
           cs == CustomChecks(it)
<1>1. z[2] \in Outcomes /\ a[2] \in Outcomes /\ b[2] \in Outcomes /\ c[2] \in Outcomes
      /\ d[2] \in Outcomes
  BY DEF Outcomes
<1>2. cs = <<z>> \o <<a, b, c, d>>
  BY DEF CustomChecks, FlatChecks
<1> HIDE DEF a, b, c, d, z, cs
<1>3. /\ Len(cs) = 5 /\ DOMAIN cs = 1 .. 5
      /\ cs[1] = z /\ cs[2] = a /\ cs[3] = b /\ cs[4] = c /\ cs[5] = d
  <2> DEFINE S == {z, a, b, c, d}
  <2>1. /\ <<z>> \in Seq(S) /\ <<a, b, c, d>> \in Seq(S)
        /\ Len(<<z>>) = 1 /\ Len(<<a, b, c, d>>) = 4
        /\ <<z>>[1] = z
        /\ <<a, b, c, d>>[1] = a /\ <<a, b, c, d>>[2] = b
        /\ <<a, b, c, d>>[3] = c /\ <<a, b, c, d>>[4] = d
    OBVIOUS
  <2> HIDE DEF S
  <2> QED
    BY <1>2, <2>1
<1>4. DOMAIN cs = 1 .. 5 /\ \A i \in 1 .. 5 : cs[i][2] \in Outcomes
  BY <1>1, <1>3
<1>5. /\ Verdict(cs) = "passed" => \A i \in 1 .. 5 : ~cs[i][1]
      /\ Verdict(cs) # "passed" => Verdict(cs) \in Outcomes
  BY <1>4, VerdictPassed
<1>6. Verdict(cs) = "passed" => ~z[1] /\ ~a[1] /\ ~b[1] /\ ~c[1] /\ ~d[1]
  BY <1>3, <1>5
<1> QED
  BY <1>5, <1>6 DEF a, b, c, d, z, cs

\* The results of a call are compared only if there is a callee.
LEMMA CallPassed ==
  ASSUME NEW it
  PROVE  /\ Verdict(CallChecks(it)) # "passed" => Verdict(CallChecks(it)) \in Outcomes
         /\ Verdict(CallChecks(it)) = "passed" =>
               /\ it.ref \in DOMAIN funcOps
               /\ Readable(it.ins)
               /\ Settable(Take(it.outs, Len(CallResults(it.ref))))
               /\ ~(Len(it.outs) > Len(CallResults(it.ref)))
<1> DEFINE a == <<it.ref \notin DOMAIN funcOps, "rejected">>
           b == <<~Readable(it.ins), "rejected">>
           c == <<~Settable(Take(it.outs, Len(CallResults(it.ref)))), "rejected">>
           d == <<Len(it.outs) > Len(CallResults(it.ref)), "undefined">>
           cs == CallChecks(it)
<1>1. /\ a[2] \in Outcomes /\ b[2] \in Outcomes /\ c[2] \in Outcomes /\ d[2] \in Outcomes
  BY DEF Outcomes
<1>2. cs = <<a, b>> \o (IF it.ref \notin DOMAIN funcOps THEN <<>> ELSE <<c, d>>)
  BY DEF CallChecks
<1> HIDE DEF a, b, c, d, cs
<1>3. CASE it.ref \notin DOMAIN funcOps
  <2>1. Len(cs) = 2 /\ DOMAIN cs = 1 .. 2 /\ cs[1] = a /\ cs[2] = b
    <3> DEFINE S == {a, b}
    <3>1. <<a, b>> \in Seq(S) /\ <<>> \in Seq(S) /\ Len(<<a, b>>) = 2 /\ Len(<<>>) = 0
          /\ <<a, b>>[1] = a /\ <<a, b>>[2] = b
      OBVIOUS
    <3> HIDE DEF S
    <3> QED
      BY <1>2, <1>3, <3>1
  <2>2. DOMAIN cs = 1 .. 2 /\ \A i \in 1 .. 2 : cs[i][2] \in Outcomes
    BY <1>1, <2>1
  <2>3. /\ Verdict(cs) = "passed" => \A i \in 1 .. 2 : ~cs[i][1]
        /\ Verdict(cs) # "passed" => Verdict(cs) \in Outcomes
    BY <2>2, VerdictPassed
  <2>4. Verdict(cs) = "passed" => ~a[1]
    BY <2>1, <2>3
  <2>5. a[1]
    BY <1>3 DEF a
  <2> QED
    BY <2>3, <2>4, <2>5 DEF cs
<1>4. CASE it.ref \in DOMAIN funcOps
  <2>1. /\ Len(cs) = 4 /\ DOMAIN cs = 1 .. 4
        /\ cs[1] = a /\ cs[2] = b /\ cs[3] = c /\ cs[4] = d
    <3> DEFINE S == {a, b, c, d}
    <3>1. /\ <<a, b>> \in Seq(S) /\ <<c, d>> \in Seq(S)
          /\ Len(<<a, b>>) = 2 /\ Len(<<c, d>>) = 2
          /\ <<a, b>>[1] = a /\ <<a, b>>[2] = b /\ <<c, d>>[1] = c /\ <<c, d>>[2] = d
      OBVIOUS
    <3> HIDE DEF S
    <3> QED
      BY <1>2, <1>4, <3>1
  <2>2. DOMAIN cs = 1 .. 4 /\ \A i \in 1 .. 4 : cs[i][2] \in Outcomes
    BY <1>1, <2>1
  <2>3. /\ Verdict(cs) = "passed" => \A i \in 1 .. 4 : ~cs[i][1]
        /\ Verdict(cs) # "passed" => Verdict(cs) \in Outcomes
    BY <2>2, VerdictPassed
  <2>4. Verdict(cs) = "passed" => ~b[1] /\ ~c[1] /\ ~d[1]
    BY <2>1, <2>3
  <2> QED
    BY <1>4, <2>3, <2>4 DEF b, c, d, cs
<1> QED
  BY <1>3, <1>4

\* What the checks of deserializeSwitch let through.
LEMMA SwitchPassed ==
  ASSUME NEW it
  PROVE  /\ Verdict(SwitchChecks(it)) # "passed" => Verdict(SwitchChecks(it)) \in Outcomes
         /\ Verdict(SwitchChecks(it)) = "passed" =>
               /\ it.ins # <<>>
               /\ InTable(it.outs)
               /\ Readable(it.ins)
<1> DEFINE cs == SwitchChecks(it)
<1>1. DOMAIN cs = 1 .. 4 /\ \A i \in 1 .. 4 : cs[i][2] \in Outcomes
  BY DEF SwitchChecks, Outcomes
<1>2. /\ Verdict(cs) = "passed" => \A i \in 1 .. 4 : ~cs[i][1]
      /\ Verdict(cs) # "passed" => Verdict(cs) \in Outcomes
  <2> HIDE DEF cs
  <2> QED
    BY <1>1, VerdictPassed
<1>3. Verdict(cs) = "passed" => ~cs[1][1] /\ ~cs[3][1] /\ ~cs[4][1]
  BY <1>2
<1> QED
  BY <1>2, <1>3 DEF SwitchChecks

\* What the checks of deserializeFor let through.
LEMMA ForPassed ==
  ASSUME NEW it
  PROVE  /\ Verdict(ForChecks(it)) # "passed" => Verdict(ForChecks(it)) \in Outcomes
         /\ Verdict(ForChecks(it)) = "passed" =>
               /\ ~(Len(it.ins) < 3)
               /\ Readable(it.ins)
<1> DEFINE cs == ForChecks(it)
<1>1. DOMAIN cs = 1 .. 2 /\ \A i \in 1 .. 2 : cs[i][2] \in Outcomes
  BY DEF ForChecks, Outcomes
<1>2. /\ Verdict(cs) = "passed" => \A i \in 1 .. 2 : ~cs[i][1]
      /\ Verdict(cs) # "passed" => Verdict(cs) \in Outcomes
  <2> HIDE DEF cs
  <2> QED
    BY <1>1, VerdictPassed
<1>3. Verdict(cs) = "passed" => ~cs[1][1] /\ ~cs[2][1]
  BY <1>2
<1> QED
  BY <1>2, <1>3 DEF ForChecks

\* What the checks of deserializeWhile let through.
LEMMA WhilePassed ==
  ASSUME NEW it
  PROVE  /\ Verdict(WhileChecks(it)) # "passed" => Verdict(WhileChecks(it)) \in Outcomes
         /\ Verdict(WhileChecks(it)) = "passed" =>
               /\ Readable(it.ins)
               /\ InTable(it.outs)
<1> DEFINE cs == WhileChecks(it)
<1>1. DOMAIN cs = 1 .. 2 /\ \A i \in 1 .. 2 : cs[i][2] \in Outcomes
  BY DEF WhileChecks, Outcomes
<1>2. /\ Verdict(cs) = "passed" => \A i \in 1 .. 2 : ~cs[i][1]
      /\ Verdict(cs) # "passed" => Verdict(cs) \in Outcomes
  <2> HIDE DEF cs
  <2> QED
    BY <1>1, VerdictPassed
<1>3. Verdict(cs) = "passed" => ~cs[1][1] /\ ~cs[2][1]
  BY <1>2
<1> QED
  BY <1>2, <1>3 DEF WhileChecks

\* What the checks before the results of an operation with regions let
\* through.
LEMMA FinishPassed ==
  ASSUME NEW owner
  PROVE  /\ Verdict(FinishChecks(owner)) # "passed" => Verdict(FinishChecks(owner)) \in Outcomes
         /\ Verdict(FinishChecks(owner)) = "passed" =>
               /\ Settable(Take(Items(body)[owner].outs, Len(Func.items[owner].res)))
               /\ ~(Len(Items(body)[owner].outs) > Len(Func.items[owner].res))
<1> DEFINE cs == FinishChecks(owner)
<1>1. DOMAIN cs = 1 .. 2 /\ \A i \in 1 .. 2 : cs[i][2] \in Outcomes
  BY DEF FinishChecks, Items, Outcomes
<1>2. /\ Verdict(cs) = "passed" => \A i \in 1 .. 2 : ~cs[i][1]
      /\ Verdict(cs) # "passed" => Verdict(cs) \in Outcomes
  <2> HIDE DEF cs
  <2> QED
    BY <1>1, VerdictPassed
<1>3. Verdict(cs) = "passed" => ~cs[1][1] /\ ~cs[2][1]
  BY <1>2
<1> QED
  BY <1>2, <1>3 DEF FinishChecks, Items

----------------------------------------------------------------------------
(* Metadata that is read.                                                  *)

\* One element more.
LEMMA Appended ==
  ASSUME NEW S, NEW a \in Seq(S), NEW x \in S
  PROVE  /\ a \o <<x>> \in Seq(S) /\ DOMAIN (a \o <<x>>) = 1 .. Len(a) + 1
         /\ Len(a \o <<x>>) = Len(a) + 1
         /\ \A k \in 1 .. Len(a) : (a \o <<x>>)[k] = a[k]
         /\ (a \o <<x>>)[Len(a) + 1] = x
<1>1. <<x>> \in Seq(S) /\ Len(<<x>>) = 1 /\ <<x>>[1] = x
  OBVIOUS
<1> DEFINE one == <<x>>
<1> HIDE DEF one
<1>2. /\ a \o one \in Seq(S) /\ Len(a \o one) = Len(a) + 1
      /\ \A k \in 1 .. Len(a) : (a \o one)[k] = a[k]
      /\ (a \o one)[Len(a) + 1] = one[1]
  BY <1>1 DEF one
<1> QED
  BY <1>1, <1>2 DEF one

\* Owners get metadata that is well formed; as long as the result is a
\* success, they get the metadata of the message.
LEMMA MetadataRead ==
  ASSUME file.strings \in Seq(Names), readResult \in {"success", "failure"},
         NEW ms, NEW n \in Nat, DOMAIN ms = 1 .. n, \A k \in 1 .. n : ms[k] \in Seq(Nat),
         ReadMetadata(ms)
  PROVE  /\ DOMAIN Attached(ms) = 1 .. n
         /\ Attached(ms) \in Seq(Metadata) /\ Len(Attached(ms)) = n
         /\ \A k \in 1 .. n : Attached(ms)[k] \in Metadata
         /\ readResult' \in {"success", "failure"}
         /\ readResult' = "success" =>
               /\ readResult = "success"
               /\ \A k \in 1 .. n : Attached(ms)[k] = Decode(ms[k])
<1>1. DOMAIN Attached(ms) = 1 .. n
  BY DEF Attached
<1>2. ASSUME NEW k \in 1 .. n PROVE Attached(ms)[k] \in Metadata
  <2>1. CASE readResult = "success" /\ \A j \in 1 .. k : Resolvable(ms[j])
    <3>1. Attached(ms)[k] = Decode(ms[k])
      BY <2>1 DEF Attached
    <3>2. Resolvable(ms[k]) /\ ms[k] \in Seq(Nat)
      BY <2>1
    <3>3. ASSUME NEW i \in DOMAIN ms[k]
          PROVE  [name |-> file.strings[ms[k][i] + 1], sound |-> TRUE] \in Entry
      <4>1. ms[k][i] \in Nat /\ ms[k][i] < Len(file.strings)
        BY <3>2 DEF Resolvable
      <4>2. ms[k][i] + 1 \in DOMAIN file.strings
        BY <4>1
      <4> QED
        BY <4>2 DEF Entry
    <3> DEFINE d == Decode(ms[k])
    <3>4. d \in Seq(Entry)
      <4>1. ms[k] \in Seq(Nat)
        BY <3>2
      <4>2. Len(ms[k]) \in Nat /\ DOMAIN ms[k] = 1 .. Len(ms[k])
        BY <4>1
      <4>3. d = [i \in 1 .. Len(ms[k]) |-> [name |-> file.strings[ms[k][i] + 1], sound |-> TRUE]]
        BY <4>2 DEF Decode
      <4>4. \A i \in 1 .. Len(ms[k]) : d[i] \in Entry
        BY <3>3, <4>2, <4>3
      <4>5. d = [i \in 1 .. Len(ms[k]) |-> d[i]]
        BY <4>3
      <4> HIDE DEF d
      <4> QED
        BY <4>2, <4>4, <4>5, ListSeq
    <3> QED
      BY <3>1, <3>4 DEF Metadata
  <2>2. CASE ~(readResult = "success" /\ \A j \in 1 .. k : Resolvable(ms[j]))
    <3>1. Attached(ms)[k] = <<>>
      BY <2>2 DEF Attached
    <3>2. <<>> \in Seq(Entry)
      OBVIOUS
    <3> QED
      BY <3>1, <3>2 DEF Metadata
  <2> QED
    BY <2>1, <2>2
<1>3. readResult' \in {"success", "failure"}
  BY DEF ReadMetadata
<1>4. readResult' = "success" =>
         readResult = "success" /\ \A k \in 1 .. n : Attached(ms)[k] = Decode(ms[k])
  <2> SUFFICES ASSUME readResult' = "success"
               PROVE  readResult = "success" /\ \A k \in 1 .. n : Attached(ms)[k] = Decode(ms[k])
    OBVIOUS
  <2>1. readResult = "success" /\ \A k \in 1 .. n : Resolvable(ms[k])
    BY DEF ReadMetadata
  <2>2. ASSUME NEW k \in 1 .. n PROVE Attached(ms)[k] = Decode(ms[k])
    <3>1. \A j \in 1 .. k : Resolvable(ms[j])
      BY <2>1
    <3> QED
      BY <2>1, <3>1 DEF Attached
  <2> QED
    BY <2>1, <2>2
<1>5. Attached(ms) \in Seq(Metadata) /\ Len(Attached(ms)) = n
  <2> DEFINE a == Attached(ms)
  <2>1. a = [k \in 1 .. n |-> a[k]]
    BY <1>1 DEF Attached
  <2>2. \A k \in 1 .. n : a[k] \in Metadata
    BY <1>2
  <2> HIDE DEF a
  <2> QED
    BY <2>1, <2>2, ListSeq DEF a
<1> QED
  BY <1>1, <1>2, <1>3, <1>4, <1>5

\* The metadata of definitions that are in the table, and one list more.
LEMMA TableMetaSpec ==
  ASSUME Signatures, Place, body # 0, NEW ids \in Seq(Nat),
         \A k \in DOMAIN ids : ids[k] < Len(Table), NEW meta \in Seq(Nat)
  PROVE  LET ms == TableMeta(ids) \o <<meta>>
         IN /\ DOMAIN TableMeta(ids) = 1 .. Len(ids)
            /\ \A k \in 1 .. Len(ids) : /\ TableMeta(ids)[k] \in Seq(Nat)
                                        /\ TableMeta(ids)[k] = Table[ids[k] + 1].meta
            /\ DOMAIN ms = 1 .. Len(ids) + 1
            /\ \A k \in 1 .. Len(ids) : ms[k] = Table[ids[k] + 1].meta
            /\ ms[Len(ids) + 1] = meta
            /\ \A k \in 1 .. Len(ids) + 1 : ms[k] \in Seq(Nat)
<1>1. Table \in Seq([type : Types, meta : Seq(Nat)])
  BY BodyParts
<1>2. ASSUME NEW k \in DOMAIN ids PROVE Table[ids[k] + 1].meta \in Seq(Nat)
  <2>1. ids[k] \in Nat /\ ids[k] < Len(Table)
    OBVIOUS
  <2>2. ids[k] + 1 \in DOMAIN Table
    BY <1>1, <2>1
  <2> DEFINE R == [type : Types, meta : Seq(Nat)]
             t == Table
  <2>3. t[ids[k] + 1] \in R
    <3>1. t \in Seq(R) /\ ids[k] + 1 \in DOMAIN t
      BY <1>1, <2>2
    <3> HIDE DEF R, t
    <3> QED
      BY <3>1
  <2> QED
    BY <2>3
<1> DEFINE S == Seq(Nat)
           tm == TableMeta(ids)
<1>3. tm = [k \in DOMAIN ids |-> Table[ids[k] + 1].meta]
  BY DEF TableMeta
<1> HIDE DEF tm
<1>4. tm \in Seq(S) /\ Len(tm) = Len(ids) /\ DOMAIN tm = 1 .. Len(ids)
  <2>1. Len(ids) \in Nat /\ DOMAIN ids = 1 .. Len(ids)
    OBVIOUS
  <2>2. tm = [k \in 1 .. Len(ids) |-> tm[k]]
    BY <1>3, <2>1
  <2>3. \A k \in 1 .. Len(ids) : tm[k] \in S
    BY <1>2, <1>3, <2>1
  <2> HIDE DEF S
  <2> QED
    BY <2>1, <2>2, <2>3, ListSeq
<1> DEFINE ms == tm \o <<meta>>
<1>6. /\ DOMAIN ms = 1 .. Len(ids) + 1
      /\ \A k \in 1 .. Len(ids) : ms[k] = tm[k]
      /\ ms[Len(ids) + 1] = meta
  <2>1. meta \in S
    OBVIOUS
  <2> HIDE DEF S
  <2> QED
    BY <1>4, <2>1, Appended
<1>7. \A k \in 1 .. Len(ids) + 1 : ms[k] \in Seq(Nat)
  BY <1>4, <1>6
<1>8. \A k \in 1 .. Len(ids) : tm[k] = Table[ids[k] + 1].meta /\ tm[k] \in Seq(Nat)
  BY <1>2, <1>3
<1> QED
  BY <1>4, <1>6, <1>7, <1>8 DEF tm

\* Decode looks at the strings only.
LEMMA DecodeKept ==
  ASSUME file' = file
  PROVE  \A m : Decode(m)' = Decode(m)
BY DEF Decode

----------------------------------------------------------------------------
(* A step that replaces the items of the current body by s.                *)

NewItems(s) == owned' = [owned EXCEPT !.funcs[body].items = s]
Going == reading = "bodies" /\ UNCHANGED <<file, body, funcOps, reading>>

\* A step inside a body changes the items of that body and nothing else of
\* the functions.
LEMMA ItemsChanged ==
  ASSUME Signatures, Place, Going, NEW s \in Seq(Item), NewItems(s)
  PROVE  /\ Signatures'
         /\ body # 0 /\ body \in DOMAIN owned.funcs
         /\ Len(owned'.funcs) = Len(owned.funcs) /\ DOMAIN owned'.funcs = DOMAIN owned.funcs
         /\ Func'.items = s /\ owned'.funcs[body].items = s
         /\ \A f \in DOMAIN owned.funcs :
               /\ f # body => owned'.funcs[f] = owned.funcs[f]
               /\ owned'.funcs[f].name = owned.funcs[f].name
               /\ owned'.funcs[f].ins = owned.funcs[f].ins
               /\ owned'.funcs[f].outs = owned.funcs[f].outs
               /\ owned'.funcs[f].meta = owned.funcs[f].meta
<1>1. body # 0
  BY DEF Place, Going
<1>2. body \in DOMAIN owned.funcs /\ owned.funcs \in Seq(Function) /\ owned \in Module
  BY <1>1, BodyParts DEF Signatures
<1> DEFINE F == owned.funcs
           g == [F[body] EXCEPT !.items = s]
<1>3. F[body] \in Function /\ g \in Function
  <2>1. F[body] \in Function
    BY <1>2
  <2> QED
    BY <2>1 DEF Function
<1>4. owned'.funcs = [F EXCEPT ![body] = g] /\ owned' = [owned EXCEPT !.funcs = owned'.funcs]
  BY <1>2 DEF NewItems, Module
<1>5. owned'.funcs \in Seq(Function) /\ Len(owned'.funcs) = Len(F) /\ DOMAIN owned'.funcs = DOMAIN F
  BY <1>2, <1>3, <1>4
<1>6. owned' \in Module
  BY <1>2, <1>4, <1>5 DEF Module
<1>7. owned'.funcs[body] = g /\ g.items = s
      /\ g.name = F[body].name /\ g.ins = F[body].ins /\ g.outs = F[body].outs
      /\ g.meta = F[body].meta
  BY <1>2, <1>3, <1>4 DEF Function
<1>8. \A f \in DOMAIN F : f # body => owned'.funcs[f] = F[f]
  BY <1>2, <1>4
<1>9. Signatures'
  <2>1. file' = file /\ funcOps' = funcOps
    BY DEF Going
  <2>2. \A f \in DOMAIN F : /\ file.functions[f].hasBody
                            /\ Len(owned'.funcs[f].ins) = Len(Items(f)[1].outs)
    <3> HIDE DEF g
    <3> TAKE f \in DOMAIN F
    <3>1. owned'.funcs[f].ins = F[f].ins
      BY <1>7, <1>8
    <3> QED
      BY <3>1 DEF Signatures
  <2> HIDE DEF g
  <2> QED
    BY <1>5, <1>6, <2>1, <2>2 DEF Signatures, Items
<1>10. Func' = owned'.funcs[body]
  BY DEF Going, Func
<1> HIDE DEF g
<1> QED
  BY <1>1, <1>2, <1>5, <1>7, <1>8, <1>9, <1>10

\* The walk stays in place when the stack is what the new items leave open.
LEMMA PlaceKept ==
  ASSUME Signatures, Place, Going, NEW s \in Seq(Item), NewItems(s),
         Len(s) <= Len(Items(body)), Depths' = Open(Items(body))[Len(s)]
  PROVE  Place'
<1>1. /\ body # 0 /\ body \in DOMAIN owned.funcs
      /\ Len(owned'.funcs) = Len(owned.funcs) /\ DOMAIN owned'.funcs = DOMAIN owned.funcs
      /\ Func'.items = s /\ owned'.funcs[body].items = s
      /\ \A f \in DOMAIN owned.funcs : f # body => owned'.funcs[f] = owned.funcs[f]
  BY ItemsChanged
<1>2. file' = file /\ body' = body /\ reading' = "bodies"
  BY DEF Going
<1>3. \A f : Items(f)' = Items(f)
  BY <1>2 DEF Items
<1>4. \A f \in DOMAIN owned'.funcs :
          /\ f < body' => Len(owned'.funcs[f].items) = Len(Items(f)')
          /\ f > body' => owned'.funcs[f].items = <<>>
  <2> TAKE f \in DOMAIN owned'.funcs
  <2>1. f \in DOMAIN owned.funcs /\ body \in Nat /\ f \in Nat
    <3>1. owned.funcs \in Seq(Function) /\ body \in Nat
      BY <1>1, BodyParts
    <3> QED
      BY <1>1, <3>1
  <2>2. f # body => owned'.funcs[f] = owned.funcs[f]
    BY <1>1, <2>1
  <2>3. /\ f < body => Len(owned.funcs[f].items) = Len(Items(f))
        /\ f > body => owned.funcs[f].items = <<>>
    BY <2>1 DEF Place
  <2> QED
    BY <1>2, <1>3, <2>1, <2>2, <2>3
<1>5. /\ Len(Func'.items) <= Len(Items(body)')
      /\ Depths' = Open(Items(body)')[Len(Func'.items)]
  BY <1>1, <1>2 DEF Items
<1>6. body' \in 0 .. Len(owned'.funcs) /\ Len(owned'.funcs) = Len(file'.functions)
  BY <1>1, <1>2 DEF Place
<1> QED
  BY <1>1, <1>2, <1>4, <1>5, <1>6 DEF Place, Items

\* An item that is there stays what it is; its metadata, and that of its
\* results, may come later.
Keeps(new, old) ==
    /\ new.tag = old.tag /\ new.ins = old.ins /\ new.ref = old.ref
    /\ new.regions = old.regions /\ TypesOf(new.res) = TypesOf(old.res)
KeepsItems(s) == \A i \in DOMAIN Func.items : i \in DOMAIN s /\ Keeps(s[i], Func.items[i])

\* The step adds the item of the message that is next; it adds nothing.
Extended(ins, types, ref) ==
    \E s \in Seq(Item) :
        /\ NewItems(s) /\ KeepsItems(s) /\ DOMAIN s = 1 .. Here
        /\ s[Here].tag = It.tag /\ s[Here].regions = It.regions
        /\ s[Here].ins = ins /\ TypesOf(s[Here].res) = types /\ s[Here].ref = ref
Annotated ==
    \E s \in Seq(Item) : NewItems(s) /\ KeepsItems(s) /\ DOMAIN s = DOMAIN Func.items

\* What is to come of the blocks under construction, after the step of an
\* instruction without regions, of one with regions, and of a new block.
SameTodo ==
    DOMAIN blocks' = DOMAIN blocks /\ \A k \in DOMAIN blocks : blocks'[k].todo = blocks[k].todo
OpDone(ins, types, ref) == Going /\ Extended(ins, types, ref) /\ SameTodo
ScfDone(types, todo) ==
    /\ Going /\ Extended(ValuesOf(It.ins), types, NoName)
    /\ DOMAIN blocks' = DOMAIN blocks /\ Len(blocks) \in DOMAIN blocks
    /\ blocks'[Len(blocks)].todo = todo
    /\ \A k \in DOMAIN blocks : k # Len(blocks) => blocks'[k].todo = blocks[k].todo
BlockDone(types, below) ==
    /\ Going /\ Extended(<<>>, types, NoName)
    /\ DOMAIN blocks' = 1 .. Len(blocks) + 1 /\ blocks'[Len(blocks) + 1].todo = <<>>
    /\ \A k \in 1 .. Len(blocks) : blocks'[k] = below[k]

Resolved(f, i, ins) ==
    \A k \in DOMAIN ins :
        /\ ins[k][1] = f
        /\ ins[k][2] < i
        /\ Items(f)[ins[k][2]].outs[ins[k][3]] = Items(f)[i].ins[k]

\* OperandsResolve, item by item.
LEMMA AllResolved ==
  OperandsResolve <=> \A f \in DOMAIN owned.funcs : \A i \in DOMAIN owned.funcs[f].items :
                         Resolved(f, i, owned.funcs[f].items[i].ins)
BY DEF OperandsResolve, Resolved, Items

\* OperandsResolve holds after a step when it holds for the items it adds.
LEMMA OperandsKept ==
  ASSUME Signatures, Place, Going, OperandsResolve, NEW s \in Seq(Item), NewItems(s),
         KeepsItems(s), \A i \in DOMAIN s : i \in DOMAIN Func.items \/ Resolved(body, i, s[i].ins)
  PROVE  OperandsResolve'
<1>1. /\ body # 0 /\ body \in DOMAIN owned.funcs
      /\ DOMAIN owned'.funcs = DOMAIN owned.funcs /\ owned'.funcs[body].items = s
      /\ \A f \in DOMAIN owned.funcs : f # body => owned'.funcs[f] = owned.funcs[f]
  BY ItemsChanged
<1>2. file' = file
  BY DEF Going
<1>3. ASSUME NEW f \in DOMAIN owned'.funcs, NEW i \in DOMAIN owned'.funcs[f].items
      PROVE  Resolved(f, i, owned'.funcs[f].items[i].ins)
  <2>1. CASE f # body
    BY <1>1, <2>1, AllResolved
  <2>2. CASE f = body /\ i \in DOMAIN Func.items
    <3>1. s[i].ins = Func.items[i].ins
      BY <2>2 DEF KeepsItems, Keeps
    <3>2. Func.items = owned.funcs[f].items
      BY <2>2 DEF Func
    <3>3. Resolved(f, i, owned.funcs[f].items[i].ins)
      BY <1>1, <2>2, <3>2, AllResolved
    <3> QED
      BY <1>1, <2>2, <3>1, <3>2, <3>3
  <2>3. CASE f = body /\ i \notin DOMAIN Func.items
    BY <1>1, <2>3
  <2> QED
    BY <2>1, <2>2, <2>3
<1>4. ASSUME NEW f \in DOMAIN owned'.funcs, NEW i \in DOMAIN owned'.funcs[f].items
      PROVE  Resolved(f, i, owned.funcs[f].items[i].ins)'
  <2>1. Resolved(f, i, owned'.funcs[f].items[i].ins)
    BY <1>3
  <2> QED
    BY <1>2, <2>1 DEF Resolved, Items
<1>5. (\A f \in DOMAIN owned.funcs : \A i \in DOMAIN owned.funcs[f].items :
          Resolved(f, i, owned.funcs[f].items[i].ins))'
  BY <1>4
<1> QED
  BY <1>5, AllResolved, PTL

Callee(i, new) ==
    LET id == Items(body)[i].ref
    IN new.tag = "call" =>
         /\ id + 1 \in DOMAIN owned.funcs
         /\ new.ref = owned.funcs[id + 1].name
         /\ TypesOf(new.res) = owned.funcs[id + 1].outs

\* Called holds after a step when it holds for the items it adds.
LEMMA CalledKept ==
  ASSUME Signatures, Place, Going, Called, NEW s \in Seq(Item), NewItems(s),
         KeepsItems(s), \A i \in DOMAIN s : i \in DOMAIN Func.items \/ Callee(i, s[i])
  PROVE  Called'
<1>1. /\ body # 0 /\ body \in DOMAIN owned.funcs
      /\ DOMAIN owned'.funcs = DOMAIN owned.funcs /\ owned'.funcs[body].items = s
      /\ \A f \in DOMAIN owned.funcs :
            /\ f # body => owned'.funcs[f] = owned.funcs[f]
            /\ owned'.funcs[f].name = owned.funcs[f].name
            /\ owned'.funcs[f].outs = owned.funcs[f].outs
  BY ItemsChanged
<1>2. file' = file
  BY DEF Going
<1> SUFFICES ASSUME NEW f \in DOMAIN owned'.funcs, NEW i \in DOMAIN owned'.funcs[f].items,
                    owned'.funcs[f].items[i].tag = "call"
             PROVE  LET new == owned'.funcs[f].items[i]
                        id == Items(f)[i].ref
                    IN /\ id + 1 \in DOMAIN owned.funcs
                       /\ new.ref = owned.funcs[id + 1].name
                       /\ TypesOf(new.res) = owned.funcs[id + 1].outs
  BY <1>1, <1>2 DEF Called, Items
<1>3. CASE f # body
  BY <1>1, <1>3 DEF Called
<1>4. CASE f = body /\ i \in DOMAIN Func.items
  <2>1. Keeps(s[i], Func.items[i])
    BY <1>4 DEF KeepsItems
  <2>2. Func.items = owned.funcs[f].items
    BY <1>4 DEF Func
  <2> QED
    BY <1>1, <1>4, <2>1, <2>2 DEF Called, Keeps
<1>5. CASE f = body /\ i \notin DOMAIN Func.items
  <2>1. Callee(i, s[i])
    BY <1>1, <1>5
  <2> QED
    BY <1>1, <1>5, <2>1 DEF Callee
<1> QED
  BY <1>3, <1>4, <1>5

\* Where the metadata of the current body is in place after the step.
PlacedItem(i, new) ==
    /\ InRegion(i)' \/ InOwner(i)' \/ new.meta = Decode(Items(body)[i].meta)
    /\ InOwner(i)' \/ ResultsPlaced(new.res, Items(body)[i], Table)

\* Placed holds after a step when it holds for every item of the body.
LEMMA PlacedKept ==
  ASSUME Signatures, Place, Going, Placed, NEW s \in Seq(Item), NewItems(s),
         readResult' \in {"success", "failure"}, verifies' \in BOOLEAN,
         readResult' = "success" =>
            readResult = "success" /\ \A i \in DOMAIN s : PlacedItem(i, s[i])
  PROVE  Placed'
<1>1. /\ body # 0 /\ body \in DOMAIN owned.funcs
      /\ DOMAIN owned'.funcs = DOMAIN owned.funcs /\ owned'.funcs[body].items = s
      /\ \A f \in DOMAIN owned.funcs :
            /\ f # body => owned'.funcs[f] = owned.funcs[f]
            /\ owned'.funcs[f].meta = owned.funcs[f].meta
  BY ItemsChanged
<1>2. file' = file /\ body' = body /\ reading' = "bodies"
  BY DEF Going
<1>3. \A m : Decode(m)' = Decode(m)
  BY <1>2, DecodeKept
<1>4. ASSUME NEW f \in DOMAIN owned.funcs, NEW i \in DOMAIN owned'.funcs[f].items,
             readResult' = "success"
      PROVE  ItemPlaced(f, i)'
  <2> DEFINE new == owned'.funcs[f].items[i]
             old == Items(f)[i]
  <2>1. /\ RegionOpen(f, i)' \/ OwnerOpen(f, i)' \/ new.meta = Decode(old.meta)
        /\ OwnerOpen(f, i)' \/ ResultsPlaced(new.res, old, file.functions[f].values)
    <3>1. CASE f # body
      <4>1. owned'.funcs[f] = owned.funcs[f] /\ readResult = "success"
        BY <1>1, <1>4, <3>1
      <4>2. ~RegionOpen(f, i) /\ ~OwnerOpen(f, i)
        BY <3>1 DEF RegionOpen, OwnerOpen
      <4>3. i \in DOMAIN owned.funcs[f].items
        BY <4>1
      <4>4. ItemPlaced(f, i)
        BY <4>1, <4>3 DEF Placed
      <4>5. /\ owned.funcs[f].items[i].meta = Decode(old.meta)
            /\ ResultsPlaced(owned.funcs[f].items[i].res, old, file.functions[f].values)
        BY <4>2, <4>4 DEF ItemPlaced
      <4>6. new = owned.funcs[f].items[i]
        BY <4>1
      <4> HIDE DEF new, old
      <4>7. new.meta = Decode(old.meta)
        BY <4>5, <4>6
      <4>8. ResultsPlaced(new.res, old, file.functions[f].values)
        BY <4>5, <4>6
      <4> QED
        BY <4>7, <4>8 DEF new, old
    <3>2. CASE f = body
      <4>1. owned'.funcs[f].items = s
        BY <1>1, <3>2
      <4>2. PlacedItem(i, s[i])
        BY <1>4, <4>1
      <4> QED
        BY <1>2, <3>2, <4>1, <4>2 DEF PlacedItem, Table, RegionOpen, OwnerOpen
    <3> QED
      BY <3>1, <3>2
  <2>2. Items(f)' = Items(f)
    BY <1>2 DEF Items
  <2>3. ResultsPlaced(new.res, old, file.functions[f].values)
           => ResultsPlaced(owned.funcs[f].items[i].res, Items(f)[i], file.functions[f].values)'
    BY <1>2, <1>3, <2>2 DEF ResultsPlaced
  <2>4. Decode(Items(f)[i].meta)' = Decode(old.meta)
    BY <1>2, <2>2 DEF Decode
  <2> QED
    BY <2>1, <2>3, <2>4 DEF ItemPlaced
<1>5. ASSUME NEW f \in DOMAIN owned'.funcs, readResult' = "success"
      PROVE  owned'.funcs[f].meta = Decode(file.functions[f].meta)'
  <2>1. owned'.funcs[f].meta = Decode(file.functions[f].meta)
    BY <1>1, <1>5 DEF Placed
  <2> QED
    BY <1>2, <2>1 DEF Decode
<1> QED
  BY <1>1, <1>2, <1>4, <1>5 DEF Placed

\* Bindings stay right, and those that Bind adds are right.
LEMMA CarriesKept ==
  ASSUME Signatures, Place, Going, NEW s \in Seq(Item), NewItems(s), KeepsItems(s),
         NEW v, NEW x, Carries(v, x)
  PROVE  Carries(v, x)'
<1>1. Func'.items = s /\ file' = file /\ body' = body
  BY ItemsChanged DEF Going
<1>2. v[2] \in DOMAIN s /\ TypesOf(s[v[2]].res) = TypesOf(Func.items[v[2]].res)
  BY DEF Carries, KeepsItems, Keeps
<1>3. v[3] \in DOMAIN s[v[2]].res
  <2>1. DOMAIN TypesOf(s[v[2]].res) = DOMAIN TypesOf(Func.items[v[2]].res)
    BY <1>2
  <2> QED
    BY <2>1 DEF TypesOf, Carries
<1> QED
  BY <1>1, <1>2, <1>3 DEF Carries, Items

\* What is bound still carries its index when nothing is bound anew.
LEMMA BindingKept ==
  ASSUME Signatures, Place, Going, NEW s \in Seq(Item), NewItems(s), KeepsItems(s),
         Binding, KeepBound
  PROVE  Binding'
BY CarriesKept DEF Binding, KeepBound

\* What is bound still carries its index when the first results of an item
\* are bound to the indices that the message gives them.
LEMMA BindingGrows ==
  ASSUME Signatures, Place, Going, NEW s \in Seq(Item), NewItems(s), KeepsItems(s), Binding,
         NEW ids \in Seq(Nat), NEW item \in DOMAIN s, Bind(ids, item),
         \A k \in DOMAIN ids : /\ k \in DOMAIN s[item].res
                               /\ k \in DOMAIN Items(body)[item].outs
                               /\ ids[k] = Items(body)[item].outs[k]
  PROVE  Binding'
<1>1. /\ Func'.items = s /\ file' = file /\ body' = body
      /\ body \in Nat \ {0}
  BY ItemsChanged, BodyParts DEF Going
<1>2. Len(ids) \in Nat /\ DOMAIN ids = 1 .. Len(ids) /\ item \in Nat \ {0}
  OBVIOUS
<1> SUFFICES ASSUME NEW x \in DOMAIN bound' PROVE Carries(bound[x], x)'
  BY DEF Binding
<1>3. x \in DOMAIN bound \cup Range(ids)
  BY DEF Bind
<1>4. CASE x \in DOMAIN bound
  <2>1. PICK v : v = bound[x]
    OBVIOUS
  <2>2. bound'[x] = v /\ Carries(v, x)
    BY <1>3, <1>4, <2>1 DEF Bind, Binding
  <2>3. Carries(v, x)'
    BY <2>2, CarriesKept
  <2> QED
    BY <2>2, <2>3 DEF Carries
<1>5. CASE x \notin DOMAIN bound
  <2>1. PICK k : k = FirstAt(ids, x)
    OBVIOUS
  <2>2. bound'[x] = <<body, item, k>> /\ x \in Range(ids)
    BY <1>3, <1>5, <2>1 DEF Bind
  <2>3. k \in 1 .. Len(ids) /\ ids[k] = x
    BY <1>2, <2>1, <2>2, FirstAtSpec
  <2>4. k \in DOMAIN s[item].res /\ k \in DOMAIN Items(body)[item].outs
        /\ Items(body)[item].outs[k] = x
    BY <1>2, <2>3
  <2>5. PICK v : v = <<body, item, k>>
    OBVIOUS
  <2>6. v \in Value /\ v[1] = body /\ v[2] = item /\ v[3] = k
    BY <1>1, <1>2, <2>3, <2>5 DEF Value
  <2>7. Carries(v, x)'
    BY <1>1, <2>4, <2>6 DEF Carries, Items
  <2> QED
    BY <2>2, <2>5, <2>7 DEF Carries
<1> QED
  BY <1>4, <1>5

----------------------------------------------------------------------------
(* What a step adds.                                                       *)

\* Definitions have the types asked for and get the metadata there is.
LEMMA DefsSpec ==
  ASSUME NEW types \in Seq(Types), NEW metas, NEW n \in Nat, DOMAIN metas = 1 .. n,
         \A k \in 1 .. n : metas[k] \in Metadata
  PROVE  /\ Defs(types, metas) \in Seq(Def)
         /\ DOMAIN Defs(types, metas) = DOMAIN types
         /\ TypesOf(Defs(types, metas)) = types
         /\ \A k \in DOMAIN types : k <= n => Defs(types, metas)[k].meta = metas[k]
<1> DEFINE ds == Defs(types, metas)
           m(k) == IF k \in DOMAIN metas THEN metas[k] ELSE <<>>
<1>1. Len(types) \in Nat /\ DOMAIN types = 1 .. Len(types)
  OBVIOUS
<1>2. ds = [k \in 1 .. Len(types) |-> [type |-> types[k], meta |-> m(k)]]
  BY <1>1 DEF Defs
<1>3. ASSUME NEW k \in 1 .. Len(types)
      PROVE  ds[k] \in Def /\ ds[k].type = types[k] /\ ds[k].meta = m(k)
  <2>1. <<>> \in Seq(Entry)
    OBVIOUS
  <2>2. m(k) \in Metadata /\ types[k] \in Types
    BY <1>1, <2>1 DEF Metadata
  <2>3. ds[k] = [type |-> types[k], meta |-> m(k)]
    BY <1>2
  <2> HIDE DEF ds, m
  <2> QED
    BY <2>2, <2>3 DEF Def
<1>4. \A k \in 1 .. Len(types) : ds[k] \in Def /\ ds[k].type = types[k] /\ ds[k].meta = m(k)
  BY <1>3
<1>5. ds = [k \in 1 .. Len(types) |-> ds[k]]
  BY <1>2
<1>6. \A k \in DOMAIN types : k <= n => m(k) = metas[k]
  BY <1>1
<1> HIDE DEF ds, m
<1>7. ds \in Seq(Def) /\ DOMAIN ds = 1 .. Len(types)
  BY <1>1, <1>4, <1>5, ListSeq
<1>8. TypesOf(ds) = types
  BY <1>1, <1>4, <1>7 DEF TypesOf
<1> QED
  BY <1>1, <1>4, <1>6, <1>7, <1>8 DEF ds

\* A new item is an item.
LEMMA NewItemSpec ==
  ASSUME NEW it \in MessageItem, NEW ins \in Seq(Value), NEW res \in Seq(Def),
         NEW meta \in Metadata, NEW ref \in Names \cup {NoName}
  PROVE  LET new == NewItem(it, ins, res, meta, ref)
         IN /\ new \in Item
            /\ new.tag = it.tag /\ new.ins = ins /\ new.res = res
            /\ new.meta = meta /\ new.ref = ref /\ new.regions = it.regions
BY DEF NewItem, Item, MessageItem

\* Operands that are read.
LEMMA ValuesRead ==
  ASSUME Signatures, Place, Stack, Binding, body # 0, Here \in DOMAIN Items(body),
         NEW ids \in Seq(Nat), Readable(ids)
  PROVE  /\ ValuesOf(ids) \in Seq(Value)
         /\ DOMAIN ValuesOf(ids) = 1 .. Len(ids) /\ Len(ValuesOf(ids)) = Len(ids)
         /\ \A k \in 1 .. Len(ids) : /\ TypeAt(bound[ids[k]]) \in Types
                                     /\ TypeAt(ValuesOf(ids)[k]) \in Types
         /\ (\A k \in 1 .. Len(ids) : ids[k] = Items(body)[Here].ins[k])
               => Resolved(body, Here, ValuesOf(ids))
<1> DEFINE vs == ValuesOf(ids)
<1>1. Len(ids) \in Nat /\ DOMAIN ids = 1 .. Len(ids)
  OBVIOUS
<1>2. /\ body \in Nat /\ Func.items \in Seq(Item) /\ Here = Len(Func.items) + 1
  BY BodyParts
<1>3. vs = [k \in 1 .. Len(ids) |-> bound[ids[k]]]
  BY <1>1 DEF ValuesOf
<1>4. ASSUME NEW k \in 1 .. Len(ids) PROVE vs[k] = bound[ids[k]] /\ Carries(vs[k], ids[k])
  <2>1. ids[k] \in DOMAIN bound
    BY <1>1 DEF Readable, Range
  <2> QED
    BY <1>3, <2>1 DEF Binding
<1>5. vs = [k \in 1 .. Len(ids) |-> vs[k]] /\ \A k \in 1 .. Len(ids) : vs[k] \in Value
  BY <1>3, <1>4 DEF Carries
<1> HIDE DEF vs
<1>6. vs \in Seq(Value) /\ DOMAIN vs = 1 .. Len(ids) /\ Len(vs) = Len(ids)
  BY <1>1, <1>5, ListSeq
<1>7. ASSUME NEW k \in 1 .. Len(ids) PROVE TypeAt(vs[k]) \in Types
  <2>1. vs[k][2] \in DOMAIN Func.items /\ vs[k][3] \in DOMAIN Func.items[vs[k][2]].res
    BY <1>4 DEF Carries
  <2>2. Func.items[vs[k][2]] \in Item
    <3> DEFINE items == Func.items
    <3>1. items \in Seq(Item) /\ vs[k][2] \in DOMAIN items
      BY <1>2, <2>1
    <3> HIDE DEF items
    <3>2. items[vs[k][2]] \in Item
      BY <3>1
    <3> QED
      BY <3>2 DEF items
  <2>3. Func.items[vs[k][2]].res \in Seq(Def)
    BY <2>2 DEF Item
  <2>4. Func.items[vs[k][2]].res[vs[k][3]] \in Def
    <3> DEFINE res == Func.items[vs[k][2]].res
    <3>1. res \in Seq(Def) /\ vs[k][3] \in DOMAIN res
      BY <2>1, <2>3
    <3> HIDE DEF res
    <3>2. res[vs[k][3]] \in Def
      BY <3>1
    <3> QED
      BY <3>2 DEF res
  <2> QED
    BY <2>4 DEF Def, TypeAt
<1>8. ASSUME \A k \in 1 .. Len(ids) : ids[k] = Items(body)[Here].ins[k]
      PROVE  Resolved(body, Here, vs)
  <2> SUFFICES ASSUME NEW k \in DOMAIN vs
               PROVE  /\ vs[k][1] = body
                      /\ vs[k][2] < Here
                      /\ Items(body)[vs[k][2]].outs[vs[k][3]] = Items(body)[Here].ins[k]
    BY DEF Resolved
  <2>1. Carries(vs[k], ids[k]) /\ ids[k] = Items(body)[Here].ins[k]
    BY <1>4, <1>6, <1>8
  <2>2. vs[k][2] < Here
    BY <1>2, <2>1 DEF Carries
  <2> QED
    BY <2>1, <2>2 DEF Carries
<1> QED
  BY <1>4, <1>6, <1>7, <1>8 DEF vs

\* The first n elements.
LEMMA TakeSpec ==
  ASSUME NEW S, NEW s \in Seq(S), NEW n \in Nat
  PROVE  /\ Take(s, n) \in Seq(S) /\ Len(Take(s, n)) <= n /\ Len(Take(s, n)) <= Len(s)
         /\ n <= Len(s) => Len(Take(s, n)) = n
         /\ Len(s) <= n => Len(Take(s, n)) = Len(s) /\ Take(s, n) = s
         /\ \A k \in DOMAIN Take(s, n) : k \in DOMAIN s /\ Take(s, n)[k] = s[k]
<1> DEFINE m == IF n < Len(s) THEN n ELSE Len(s)
<1>1. m \in Nat /\ m <= n /\ m <= Len(s)
  OBVIOUS
<1>2. Take(s, n) = SubSeq(s, 1, m)
  BY DEF Take
<1>3. /\ SubSeq(s, 1, m) \in Seq(S) /\ Len(SubSeq(s, 1, m)) = m
      /\ \A k \in 1 .. m : SubSeq(s, 1, m)[k] = s[k]
  <2> HIDE DEF m
  <2> QED
    BY <1>1
<1>4. DOMAIN SubSeq(s, 1, m) = 1 .. m
  BY <1>1, <1>3
<1>5. Len(s) <= n => SubSeq(s, 1, m) = s
  OBVIOUS
<1> QED
  BY <1>1, <1>2, <1>3, <1>4, <1>5

\* The step, put together.
LEMMA BodyStep ==
  ASSUME ReaderInv, Going, NEW s \in Seq(Item), NewItems(s), KeepsItems(s),
         \A i \in DOMAIN s : \/ i \in DOMAIN Func.items
                             \/ Resolved(body, i, s[i].ins) /\ Callee(i, s[i]),
         Len(s) <= Len(Items(body)), Depths' = Open(Items(body))[Len(s)],
         Stack', Binding', readResult' \in {"success", "failure"}, verifies' \in BOOLEAN,
         readResult' = "success" =>
            readResult = "success" /\ \A i \in DOMAIN s : PlacedItem(i, s[i])
  PROVE  ReaderInv'
<1>1. Signatures' /\ Place'
  BY ItemsChanged, PlaceKept DEF ReaderInv
<1>2. OperandsResolve' /\ Called'
  BY OperandsKept, CalledKept DEF ReaderInv
<1>3. Placed'
  BY PlacedKept DEF ReaderInv
<1> QED
  BY <1>1, <1>2, <1>3 DEF ReaderInv

\* An item is added.
LEMMA ItemAdded ==
  ASSUME Signatures, Place, body # 0, NEW new \in Item, AddItem(new), NEW s,
         s = Append(Func.items, new)
  PROVE  /\ s \in Seq(Item) /\ NewItems(s)
         /\ Len(s) = Here /\ DOMAIN s = 1 .. Here /\ Here \in DOMAIN s /\ s[Here] = new
         /\ \A i \in DOMAIN Func.items : i \in DOMAIN s /\ i # Here /\ s[i] = Func.items[i]
         /\ \A i \in DOMAIN s : i \in DOMAIN Func.items \/ i = Here
         /\ KeepsItems(s)
<1> DEFINE items == Func.items
<1>1. items \in Seq(Item) /\ Here = Len(items) + 1 /\ body \in DOMAIN owned.funcs
  BY BodyParts
<1>2. NewItems(s)
  BY DEF AddItem, NewItems, Func
<1> HIDE DEF items
<1>3. s = Append(items, new)
  BY DEF items
<1>4. /\ s \in Seq(Item) /\ Len(s) = Here /\ DOMAIN s = 1 .. Here /\ Here \in DOMAIN s
      /\ s[Here] = new
      /\ \A i \in DOMAIN items : i \in DOMAIN s /\ i # Here /\ s[i] = items[i]
      /\ \A i \in DOMAIN s : i \in DOMAIN items \/ i = Here
  BY <1>1, <1>3
<1>5. KeepsItems(s)
  BY <1>4 DEF KeepsItems, Keeps, items
<1> QED
  BY <1>2, <1>4, <1>5 DEF items

\* The block on top is replaced.
LEMMA TopReplaced ==
  ASSUME Stack, blocks # <<>>, NEW b \in Block, blocks' = [blocks EXCEPT ![Len(blocks)] = b]
  PROVE  /\ blocks' \in Seq(Block) /\ DOMAIN blocks' = DOMAIN blocks
         /\ Len(blocks) \in DOMAIN blocks /\ Len(blocks) \in Nat
         /\ blocks'[Len(blocks)] = b
         /\ \A k \in DOMAIN blocks : k # Len(blocks) => blocks'[k] = blocks[k]
         /\ Depths \in Seq(Nat) /\ Len(Depths) = Len(blocks)
         /\ Depths' = [Depths EXCEPT ![Len(blocks)] = Len(b.todo)]
<1>1. blocks \in Seq(Block) /\ Len(blocks) \in DOMAIN blocks /\ Len(blocks) \in Nat
      /\ DOMAIN blocks = 1 .. Len(blocks)
  BY DEF Stack
<1>2. /\ blocks' \in Seq(Block) /\ DOMAIN blocks' = DOMAIN blocks
      /\ blocks'[Len(blocks)] = b
      /\ \A k \in DOMAIN blocks : k # Len(blocks) => blocks'[k] = blocks[k]
  BY <1>1
<1>3. ASSUME NEW k \in DOMAIN blocks PROVE Len(blocks[k].todo) \in Nat
  <2>1. blocks[k] \in Block
    BY <1>1
  <2>2. blocks[k].todo \in Seq(Seq(Types))
    BY <2>1 DEF Block
  <2> QED
    BY <2>2
<1> DEFINE d == Depths
<1>4. d = [k \in 1 .. Len(blocks) |-> Len(blocks[k].todo)]
  BY <1>1 DEF Depths
<1>5. d = [k \in 1 .. Len(blocks) |-> d[k]] /\ \A k \in 1 .. Len(blocks) : d[k] \in Nat
  BY <1>1, <1>3, <1>4
<1>6. Depths' = [k \in DOMAIN blocks' |-> Len(blocks'[k].todo)]
  BY DEF Depths
<1> HIDE DEF d
<1>7. d \in Seq(Nat) /\ Len(d) = Len(blocks)
  BY <1>1, <1>5, ListSeq
<1>8. Depths' = [d EXCEPT ![Len(blocks)] = Len(b.todo)]
  BY <1>1, <1>2, <1>4, <1>6
<1> QED
  BY <1>1, <1>2, <1>7, <1>8 DEF d

\* The stack below the top stays, the top is a block that may stand there.
LEMMA StackTop ==
  ASSUME Signatures, Place, Going, Stack, NEW s \in Seq(Item), NewItems(s), KeepsItems(s),
         blocks # <<>>, NEW b \in Block, blocks' = [blocks EXCEPT ![Len(blocks)] = b],
         b.enter \in DOMAIN s,
         b.owner # 0 => b.owner \in DOMAIN s /\ b.last = b.owner,
         b.owner = 0 => b.todo = <<>>
  PROVE  Stack'
<1>1. Func'.items = s
  BY ItemsChanged
<1>2. \A i \in DOMAIN Func.items : i \in DOMAIN s
  BY DEF KeepsItems
<1>3. /\ blocks' \in Seq(Block) /\ DOMAIN blocks' = DOMAIN blocks
      /\ blocks'[Len(blocks)] = b
      /\ \A k \in DOMAIN blocks : k # Len(blocks) => blocks'[k] = blocks[k]
  BY TopReplaced
<1>4. ASSUME NEW k \in DOMAIN blocks'
      PROVE  /\ blocks'[k].enter \in DOMAIN s
             /\ blocks'[k].owner # 0 => blocks'[k].owner \in DOMAIN s
                                        /\ blocks'[k].last = blocks'[k].owner
             /\ blocks'[k].owner = 0 => blocks'[k].todo = <<>>
  <2>1. CASE k = Len(blocks)
    BY <1>3, <2>1
  <2>2. CASE k # Len(blocks)
    BY <1>2, <1>3, <2>2 DEF Stack
  <2> QED
    BY <2>1, <2>2
<1> QED
  BY <1>1, <1>3, <1>4 DEF Stack

\* Metadata that is in place stays in place.
LEMMA PlacedStays ==
  ASSUME Signatures, Place, Placed, body # 0, readResult = "success",
         NEW i \in DOMAIN Func.items, InRegion(i) => InRegion(i)', InOwner(i) => InOwner(i)'
  PROVE  PlacedItem(i, Func.items[i])
<1>1. body \in DOMAIN owned.funcs /\ Func.items = owned.funcs[body].items
  BY BodyParts DEF Func
<1>2. ItemPlaced(body, i)
  BY <1>1 DEF Placed
<1> DEFINE new == Func.items[i]
           old == Items(body)[i]
<1>3. /\ InRegion(i) \/ InOwner(i) \/ new.meta = Decode(old.meta)
      /\ InOwner(i) \/ ResultsPlaced(new.res, old, Table)
  BY <1>1, <1>2 DEF ItemPlaced, RegionOpen, OwnerOpen, Table
<1>4. /\ InRegion(i)' \/ InOwner(i)' \/ new.meta = Decode(old.meta)
      /\ InOwner(i)' \/ ResultsPlaced(new.res, old, Table)
  BY <1>3
<1> QED
  BY <1>4 DEF PlacedItem

\* Definitions that are bound and annotated, without and with an operation.
LEMMA SourcesGet ==
  ASSUME Signatures, Place, Placed, body # 0, NEW types \in Seq(Types), NEW ids \in Seq(Nat),
         \A k \in DOMAIN ids : ids[k] < Len(Table), ReadMetadata(TableMeta(ids)),
         NEW res, res = Defs(types, Attached(TableMeta(ids)))
  PROVE  /\ res \in Seq(Def) /\ DOMAIN res = DOMAIN types /\ TypesOf(res) = types
         /\ readResult' \in {"success", "failure"}
         /\ readResult' = "success" =>
               /\ readResult = "success"
               /\ \A k \in DOMAIN ids : k \in DOMAIN types =>
                     res[k].meta = Decode(Table[ids[k] + 1].meta)
<1> DEFINE ms == TableMeta(ids)
           metas == Attached(ms)
<1>1. Len(ids) \in Nat /\ DOMAIN ids = 1 .. Len(ids) /\ <<>> \in Seq(Nat)
  OBVIOUS
<1>2. /\ DOMAIN ms = 1 .. Len(ids)
      /\ \A k \in 1 .. Len(ids) : ms[k] \in Seq(Nat) /\ ms[k] = Table[ids[k] + 1].meta
  BY <1>1, TableMetaSpec
<1>3. file.strings \in Seq(Names) /\ readResult \in {"success", "failure"}
  BY FileParts DEF Placed
<1> HIDE DEF ms
<1>4. /\ DOMAIN metas = 1 .. Len(ids)
      /\ \A k \in 1 .. Len(ids) : metas[k] \in Metadata
      /\ readResult' \in {"success", "failure"}
      /\ readResult' = "success" =>
            readResult = "success" /\ \A k \in 1 .. Len(ids) : metas[k] = Decode(ms[k])
  BY <1>1, <1>2, <1>3, MetadataRead DEF ms
<1>5. res = Defs(types, metas)
  BY DEF ms
<1> HIDE DEF metas
<1>6. /\ res \in Seq(Def) /\ DOMAIN res = DOMAIN types /\ TypesOf(res) = types
      /\ \A k \in DOMAIN types : k <= Len(ids) => res[k].meta = metas[k]
  BY <1>1, <1>4, <1>5, DefsSpec
<1>7. ASSUME readResult' = "success", NEW k \in DOMAIN ids, k \in DOMAIN types
      PROVE  res[k].meta = Decode(Table[ids[k] + 1].meta)
  BY <1>1, <1>2, <1>4, <1>6, <1>7
<1> QED
  BY <1>4, <1>6, <1>7

Lists(ids, meta) == TableMeta(ids) \o <<meta>>

\* Results whose indices are in the table get the metadata of their table
\* entries, and the operation gets its own.
LEMMA ResultsGet ==
  ASSUME Signatures, Place, Placed, body # 0, NEW types \in Seq(Types), NEW ids \in Seq(Nat),
         \A k \in DOMAIN ids : ids[k] < Len(Table), NEW meta \in Seq(Nat),
         NEW metas, metas = Attached(Lists(ids, meta)), ReadMetadata(Lists(ids, meta)),
         NEW res, res = Defs(types, SubSeq(metas, 1, Len(ids)))
  PROVE  /\ res \in Seq(Def) /\ DOMAIN res = DOMAIN types /\ TypesOf(res) = types
         /\ metas[Len(metas)] \in Metadata
         /\ readResult' \in {"success", "failure"}
         /\ readResult' = "success" =>
               /\ readResult = "success"
               /\ metas[Len(metas)] = Decode(meta)
               /\ \A k \in DOMAIN ids : k \in DOMAIN types =>
                     res[k].meta = Decode(Table[ids[k] + 1].meta)
<1> DEFINE ms == TableMeta(ids) \o <<meta>>
           n == Len(ids)
<1>1. n \in Nat /\ DOMAIN ids = 1 .. n
  OBVIOUS
<1>2. /\ DOMAIN ms = 1 .. n + 1
      /\ \A k \in 1 .. n : ms[k] = Table[ids[k] + 1].meta
      /\ ms[n + 1] = meta
      /\ \A k \in 1 .. n + 1 : ms[k] \in Seq(Nat)
  BY TableMetaSpec
<1>3. file.strings \in Seq(Names) /\ readResult \in {"success", "failure"}
  BY FileParts DEF Placed
<1>4. metas = Attached(ms) /\ ReadMetadata(ms)
  BY DEF Lists
<1>5. res = Defs(types, SubSeq(metas, 1, n))
  OBVIOUS
<1> HIDE DEF ms, n
<1>6. /\ metas \in Seq(Metadata) /\ Len(metas) = n + 1 /\ DOMAIN metas = 1 .. n + 1
      /\ readResult' \in {"success", "failure"}
      /\ readResult' = "success" =>
            readResult = "success" /\ \A k \in 1 .. n + 1 : metas[k] = Decode(ms[k])
  <2>1. n + 1 \in Nat
    BY <1>1
  <2> QED
    BY <1>2, <1>3, <1>4, <2>1, MetadataRead
<1> DEFINE some == SubSeq(metas, 1, n)
<1>7. /\ DOMAIN some = 1 .. n
      /\ \A k \in 1 .. n : some[k] = metas[k] /\ some[k] \in Metadata
  BY <1>1, <1>6
<1> HIDE DEF some
<1>8. /\ res \in Seq(Def) /\ DOMAIN res = DOMAIN types /\ TypesOf(res) = types
      /\ \A k \in DOMAIN types : k <= n => res[k].meta = some[k]
  <2>1. res = Defs(types, some)
    BY <1>5 DEF some
  <2> QED
    BY <1>1, <1>7, <2>1, DefsSpec
<1>9. ASSUME readResult' = "success"
      PROVE  /\ metas[Len(metas)] = Decode(meta)
             /\ \A k \in DOMAIN ids : k \in DOMAIN types =>
                   res[k].meta = Decode(Table[ids[k] + 1].meta)
  <2>1. metas[n + 1] = Decode(ms[n + 1])
    <3>1. n + 1 \in 1 .. n + 1
      BY <1>1
    <3> QED
      BY <1>6, <1>9, <3>1
  <2>2. ASSUME NEW k \in DOMAIN ids, k \in DOMAIN types
        PROVE  res[k].meta = Decode(Table[ids[k] + 1].meta)
    <3>1. k \in 1 .. n /\ k <= n /\ k \in 1 .. n + 1
      BY <1>1
    <3>2. res[k].meta = metas[k] /\ metas[k] = Decode(ms[k])
      BY <1>6, <1>7, <1>8, <1>9, <2>2, <3>1
    <3> QED
      BY <1>2, <3>1, <3>2
  <2> QED
    BY <1>2, <1>6, <2>1, <2>2
<1>10. metas[Len(metas)] \in Metadata
  BY <1>1, <1>6
<1> QED
  BY <1>6, <1>8, <1>9, <1>10

----------------------------------------------------------------------------
(* The actions.                                                            *)

\* A new operation in the current block.
LEMMA OpAdded ==
  ASSUME ReaderInv, AtItem, NEW types \in Seq(Types), NEW ref \in Names \cup {NoName},
         AddOp(types, ref), It.tag \in FlatKinds \cup {"custom", "call"},
         Readable(Take(It.ins, IF It.tag = "call" THEN Len(It.ins) ELSE Len(Signature[It.tag].ins))),
         Settable(Take(It.outs, Len(types))),
         It.tag = "call" => /\ It.ref + 1 \in DOMAIN owned.funcs
                            /\ ref = owned.funcs[It.ref + 1].name
                            /\ types = owned.funcs[It.ref + 1].outs
  PROVE  /\ ReaderInv'
         /\ OpDone(ValuesOf(Take(It.ins, IF It.tag = "call" THEN Len(It.ins)
                                        ELSE Len(Signature[It.tag].ins))), types, ref)
<1>1. /\ Signatures /\ Place /\ Stack /\ Binding /\ Placed
      /\ reading = "bodies" /\ body # 0 /\ blocks # <<>> /\ Top.todo = <<>> /\ Top.owner = 0
  BY DEF ReaderInv, AtItem, Place
<1>2. /\ Here \in DOMAIN Items(body) /\ It = Items(body)[Here] /\ It \in MessageItem
      /\ Open(Items(body))[Here] = AfterItem(Depths, It)
  BY <1>1, NextItem
<1>3. It.ins \in Seq(Nat) /\ It.outs \in Seq(Nat) /\ It.meta \in Seq(Nat)
  BY <1>2 DEF MessageItem
<1> DEFINE n == IF It.tag = "call" THEN Len(It.ins) ELSE Len(Signature[It.tag].ins)
           ids == Take(It.ins, n)
           outs == Take(It.outs, Len(types))
           metas == Attached(TableMeta(outs) \o <<It.meta>>)
           ins == ValuesOf(ids)
           res == Defs(types, SubSeq(metas, 1, Len(outs)))
           new == NewItem(It, ins, res, metas[Len(metas)], ref)
           s == Append(Func.items, new)
           top == [Top EXCEPT !.last = Here,
                              !.scope = Top.scope \cup {<<body, Here, k>> : k \in DOMAIN types}]
<1>4. /\ AddItem(new) /\ ReadMetadata(TableMeta(outs) \o <<It.meta>>) /\ Bind(outs, Here)
      /\ blocks' = [blocks EXCEPT ![Len(blocks)] = top]
      /\ UNCHANGED <<file, body, funcOps, reading>>
  <2>1. AddItem(new)
    BY DEF AddOp
  <2>2. ReadMetadata(TableMeta(outs) \o <<It.meta>>) /\ Bind(outs, Here)
    BY DEF AddOp
  <2>3. blocks' = [blocks EXCEPT ![Len(blocks)] = top]
    BY DEF AddOp
  <2>4. UNCHANGED <<file, body, funcOps, reading>>
    BY DEF AddOp
  <2> QED
    BY <2>1, <2>2, <2>3, <2>4
<1>5. verifies' \in BOOLEAN
  BY <1>1 DEF AddOp, OperandsVerify, Placed
<1>6. n \in Nat
  <2>1. CASE It.tag = "call"
    BY <1>3, <2>1
  <2>2. CASE It.tag # "call"
    <3>1. Signature[It.tag] \in [ins : Seq(Types), res : Seq(Types)]
      BY <2>2, SignatureAssumption
    <3>2. Signature[It.tag].ins \in Seq(Types)
      BY <3>1
    <3> QED
      BY <2>2, <3>2
  <2> QED
    BY <2>1, <2>2
<1>7. /\ ids \in Seq(Nat) /\ Readable(ids)
      /\ \A k \in DOMAIN ids : k \in DOMAIN It.ins /\ ids[k] = It.ins[k]
  <2> HIDE DEF n
  <2> QED
    BY <1>3, <1>6, TakeSpec DEF n
<1>8. /\ outs \in Seq(Nat) /\ Settable(outs) /\ Len(outs) <= Len(types)
      /\ Len(It.outs) <= Len(types) => Len(outs) = Len(It.outs)
      /\ Len(types) <= Len(It.outs) => Len(outs) = Len(types)
      /\ \A k \in DOMAIN outs : k \in DOMAIN It.outs /\ outs[k] = It.outs[k]
  <2>1. Len(types) \in Nat
    OBVIOUS
  <2> QED
    BY <1>3, <2>1, TakeSpec
<1> HIDE DEF ids, outs
<1>9. \A k \in DOMAIN outs : outs[k] < Len(Table)
  BY <1>8 DEF Settable
<1>10. /\ ins \in Seq(Value) /\ Resolved(body, Here, ins)
  <2>1. \A k \in 1 .. Len(ids) : ids[k] = Items(body)[Here].ins[k]
    BY <1>2, <1>7
  <2> QED
    BY <1>1, <1>2, <1>7, <2>1, ValuesRead
<1>11. /\ res \in Seq(Def) /\ DOMAIN res = DOMAIN types /\ TypesOf(res) = types
       /\ metas[Len(metas)] \in Metadata
       /\ readResult' \in {"success", "failure"}
       /\ readResult' = "success" =>
             /\ readResult = "success"
             /\ metas[Len(metas)] = Decode(It.meta)
             /\ \A k \in DOMAIN outs : k \in DOMAIN types =>
                   res[k].meta = Decode(Table[outs[k] + 1].meta)
  <2>1. metas = Attached(Lists(outs, It.meta)) /\ ReadMetadata(Lists(outs, It.meta))
    BY <1>4 DEF Lists
  <2> HIDE DEF metas
  <2>2. res = Defs(types, SubSeq(metas, 1, Len(outs)))
    OBVIOUS
  <2> HIDE DEF res
  <2>3. /\ res \in Seq(Def) /\ DOMAIN res = DOMAIN types /\ TypesOf(res) = types
        /\ metas[Len(metas)] \in Metadata
        /\ readResult' \in {"success", "failure"}
        /\ readResult' = "success" =>
             /\ readResult = "success"
             /\ metas[Len(metas)] = Decode(It.meta)
             /\ \A k \in DOMAIN outs : k \in DOMAIN types =>
                   res[k].meta = Decode(Table[outs[k] + 1].meta)
    BY <1>1, <1>3, <1>4, <1>8, <1>9, <2>1, <2>2, ResultsGet
  <2> QED
    BY <2>3 DEF res, metas
<1> HIDE DEF ins, metas, res
<1>12. /\ new \in Item /\ new.tag = It.tag /\ new.ins = ins /\ new.res = res
       /\ new.meta = metas[Len(metas)] /\ new.ref = ref /\ new.regions = It.regions
  BY <1>2, <1>10, <1>11, NewItemSpec
<1> HIDE DEF new
<1>13. /\ s \in Seq(Item) /\ NewItems(s)
       /\ Len(s) = Here /\ DOMAIN s = 1 .. Here /\ Here \in DOMAIN s /\ s[Here] = new
       /\ \A i \in DOMAIN Func.items : i \in DOMAIN s /\ i # Here /\ s[i] = Func.items[i]
       /\ \A i \in DOMAIN s : i \in DOMAIN Func.items \/ i = Here
       /\ KeepsItems(s)
  BY <1>1, <1>4, <1>12, ItemAdded
<1> HIDE DEF s
<1>14. Going
  BY <1>1, <1>4 DEF Going
<1>15. top \in Block /\ top.todo = <<>> /\ top.owner = 0 /\ top.enter = Top.enter
       /\ Top.enter \in DOMAIN Func.items
  <2>1. Top \in Block /\ Top.enter \in DOMAIN Func.items
    BY <1>1 DEF Stack, Top
  <2>2. body \in Nat \ {0} /\ Here \in Nat \ {0}
    BY <1>1, BodyParts
  <2> DEFINE more == {<<body, Here, k>> : k \in DOMAIN types}
             t == Top
  <2>3. more \subseteq Value
    BY <2>2 DEF Value
  <2>4. t \in Block /\ t.todo = <<>> /\ t.owner = 0 /\ top = [t EXCEPT !.last = Here, !.scope = t.scope \cup more]
    BY <1>1, <2>1
  <2> HIDE DEF more, t, top
  <2>5. /\ top \in Block /\ top.todo = <<>> /\ top.owner = 0 /\ top.enter = t.enter
    BY <2>2, <2>3, <2>4 DEF Block
  <2> QED
    BY <2>1, <2>5 DEF t
<1> HIDE DEF top
<1>16. Callee(Here, new)
  BY <1>2, <1>11, <1>12 DEF Callee
<1>17. Depths' = Open(Items(body))[Len(s)]
  <2>1. /\ Depths \in Seq(Nat) /\ Len(Depths) = Len(blocks)
        /\ Depths' = [Depths EXCEPT ![Len(blocks)] = Len(top.todo)]
        /\ Len(blocks) \in DOMAIN blocks
    BY <1>1, <1>4, <1>15, TopReplaced
  <2>2. Depths[Len(blocks)] = Len(top.todo)
    BY <1>1, <1>15, <2>1 DEF Depths, Top
  <2>3. Depths' = Depths
    BY <2>1, <2>2
  <2>4. AfterItem(Depths, It) = Depths
    BY FormatAssumption DEF AfterItem, ScfKinds, Bounds
  <2> QED
    BY <1>2, <1>13, <2>3, <2>4
<1>18. Len(s) <= Len(Items(body))
  BY <1>1, <1>2, <1>13, BodyParts
<1>19. Stack'
  BY <1>1, <1>4, <1>13, <1>14, <1>15, StackTop
<1>20. Binding'
  <2>1. \A k \in DOMAIN outs : /\ k \in DOMAIN s[Here].res
                               /\ k \in DOMAIN Items(body)[Here].outs
                               /\ outs[k] = Items(body)[Here].outs[k]
    BY <1>2, <1>8, <1>11, <1>12, <1>13
  <2> QED
    <3>1. Signatures /\ Place /\ Going /\ Binding /\ Bind(outs, Here)
      BY <1>1, <1>4, <1>14
    <3>2. s \in Seq(Item) /\ NewItems(s) /\ KeepsItems(s) /\ Here \in DOMAIN s
      BY <1>13
    <3>3. outs \in Seq(Nat)
      BY <1>8
    <3> QED
      BY <2>1, <3>1, <3>2, <3>3, BindingGrows
<1>21. ASSUME readResult' = "success", NEW i \in DOMAIN s PROVE PlacedItem(i, s[i])
  <2>1. CASE i \in DOMAIN Func.items
    <3>1. /\ DOMAIN blocks' = DOMAIN blocks
          /\ \A k \in DOMAIN blocks : /\ blocks'[k].enter = blocks[k].enter
                                      /\ blocks'[k].owner = blocks[k].owner
      BY <1>1, <1>4, <1>15, TopReplaced DEF Top
    <3>2. InRegion(i)' = InRegion(i) /\ InOwner(i)' = InOwner(i)
      BY <3>1 DEF InRegion, InOwner
    <3> QED
      BY <1>1, <1>11, <1>13, <1>21, <2>1, <3>2, PlacedStays
  <2>2. CASE i = Here
    <3>1. new.meta = Decode(Items(body)[Here].meta)
      BY <1>2, <1>11, <1>12, <1>21
    <3>2. ASSUME NEW k \in DOMAIN It.outs \cap DOMAIN res
          PROVE  res[k].meta = Decode(Table[It.outs[k] + 1].meta)
      <4>1. k \in DOMAIN outs /\ k \in DOMAIN types
        BY <1>3, <1>8, <1>11
      <4> QED
        BY <1>8, <1>11, <1>21, <4>1
    <3>3. ResultsPlaced(new.res, Items(body)[Here], Table)
      BY <1>2, <1>12, <3>2 DEF ResultsPlaced
    <3> QED
      BY <1>13, <2>2, <3>1, <3>3 DEF PlacedItem
  <2> QED
    BY <1>13, <2>1, <2>2
<1>22. Extended(ins, types, ref)
  BY <1>11, <1>12, <1>13 DEF Extended
<1>23. SameTodo
  BY <1>1, <1>4, <1>15, TopReplaced DEF Top, SameTodo
<1>24. ReaderInv'
  BY <1>5, <1>10, <1>11, <1>12, <1>13, <1>14, <1>16, <1>17, <1>18, <1>19, <1>20, <1>21, BodyStep
<1> QED
  BY <1>14, <1>22, <1>23, <1>24 DEF ins, ids, OpDone

\* An operation with regions is opened.
LEMMA ScfOpened ==
  ASSUME ReaderInv, AtItem, It.tag \in ScfKinds, Readable(It.ins),
         NEW types \in Seq(Types), NEW todo \in Seq(Seq(Types)), Len(todo) = RegionCount(It),
         NEW ints, OpenScf(types, todo, ints)
  PROVE  ReaderInv' /\ ScfDone(types, todo)
<1>1. /\ Signatures /\ Place /\ Stack /\ Binding /\ Placed
      /\ reading = "bodies" /\ body # 0 /\ blocks # <<>> /\ Top.todo = <<>> /\ Top.owner = 0
  BY DEF ReaderInv, AtItem, Place
<1>2. /\ Here \in DOMAIN Items(body) /\ It = Items(body)[Here] /\ It \in MessageItem
      /\ Open(Items(body))[Here] = AfterItem(Depths, It)
  BY <1>1, NextItem
<1>3. It.ins \in Seq(Nat)
  BY <1>2 DEF MessageItem
<1> DEFINE ins == ValuesOf(It.ins)
           res == Defs(types, <<>>)
           new == NewItem(It, ins, res, <<>>, NoName)
           s == Append(Func.items, new)
           top == [Top EXCEPT !.last = Here, !.owner = Here, !.todo = todo]
<1>4. /\ AddItem(new)
      /\ blocks' = [blocks EXCEPT ![Len(blocks)] = top]
      /\ UNCHANGED <<file, body, bound, funcOps, readResult, reading>>
  <2>1. AddItem(new)
    BY DEF OpenScf
  <2>2. blocks' = [blocks EXCEPT ![Len(blocks)] = top]
    BY DEF OpenScf
  <2>3. UNCHANGED <<file, body, bound, funcOps, readResult, reading>>
    BY DEF OpenScf
  <2> QED
    BY <2>1, <2>2, <2>3
<1>5. verifies' \in BOOLEAN /\ readResult' \in {"success", "failure"}
  BY <1>1, <1>4 DEF OpenScf, Placed
<1>6. ins \in Seq(Value) /\ Resolved(body, Here, ins)
  BY <1>1, <1>2, <1>3, ValuesRead
<1>7. res \in Seq(Def) /\ TypesOf(res) = types
  BY DefsSpec
<1>8. <<>> \in Metadata /\ NoName \in Names \cup {NoName}
  <2>1. <<>> \in Seq(Entry)
    OBVIOUS
  <2> QED
    BY <2>1 DEF Metadata
<1> HIDE DEF ins, res
<1>9. /\ new \in Item /\ new.tag = It.tag /\ new.ins = ins /\ new.res = res
      /\ new.ref = NoName /\ new.regions = It.regions
  BY <1>2, <1>6, <1>7, <1>8, NewItemSpec
<1> HIDE DEF new
<1>10. /\ s \in Seq(Item) /\ NewItems(s)
       /\ Len(s) = Here /\ DOMAIN s = 1 .. Here /\ Here \in DOMAIN s /\ s[Here] = new
       /\ \A i \in DOMAIN Func.items : i \in DOMAIN s /\ i # Here /\ s[i] = Func.items[i]
       /\ \A i \in DOMAIN s : i \in DOMAIN Func.items \/ i = Here
       /\ KeepsItems(s)
  BY <1>1, <1>4, <1>9, ItemAdded
<1> HIDE DEF s
<1>11. Going
  BY <1>1, <1>4 DEF Going
<1>12. /\ top \in Block /\ top.todo = todo /\ top.owner = Here /\ top.last = Here
       /\ top.enter = Top.enter /\ Top.enter \in DOMAIN Func.items /\ Here # 0
  <2>1. Top \in Block /\ Top.enter \in DOMAIN Func.items
    BY <1>1 DEF Stack, Top
  <2>2. Here \in Nat \ {0}
    BY <1>1, BodyParts
  <2> DEFINE t == Top
  <2>3. t \in Block /\ top = [t EXCEPT !.last = Here, !.owner = Here, !.todo = todo]
    BY <2>1
  <2> HIDE DEF t, top
  <2>4. top \in Block /\ top.todo = todo /\ top.owner = Here /\ top.last = Here /\ top.enter = t.enter
    BY <2>2, <2>3 DEF Block
  <2> QED
    BY <2>1, <2>2, <2>4 DEF t
<1> HIDE DEF top
<1>13. Callee(Here, new)
  BY <1>9, FormatAssumption DEF Callee, ScfKinds
<1>14. Depths' = Open(Items(body))[Len(s)]
  <2>1. /\ Depths \in Seq(Nat) /\ Len(Depths) = Len(blocks)
        /\ Depths' = [Depths EXCEPT ![Len(blocks)] = Len(top.todo)]
    BY <1>1, <1>4, <1>12, TopReplaced
  <2>2. AfterItem(Depths, It) = [Depths EXCEPT ![Len(Depths)] = RegionCount(It)]
    BY DEF AfterItem, ScfKinds
  <2> QED
    BY <1>2, <1>10, <1>12, <2>1, <2>2
<1>15. Len(s) <= Len(Items(body))
  BY <1>1, <1>2, <1>10, BodyParts
<1>16. Stack'
  BY <1>1, <1>4, <1>10, <1>11, <1>12, StackTop
<1>17. Binding'
  BY <1>1, <1>4, <1>10, <1>11, BindingKept DEF KeepBound
<1>18. ASSUME readResult' = "success", NEW i \in DOMAIN s PROVE PlacedItem(i, s[i])
  <2>1. /\ DOMAIN blocks' = DOMAIN blocks /\ Len(blocks) \in DOMAIN blocks
        /\ blocks'[Len(blocks)].owner = Here
        /\ \A k \in DOMAIN blocks : /\ blocks'[k].enter = blocks[k].enter
                                    /\ k # Len(blocks) => blocks'[k].owner = blocks[k].owner
    BY <1>1, <1>4, <1>12, TopReplaced DEF Top
  <2>2. CASE i \in DOMAIN Func.items
    <3>1. i # 0 /\ i # Here
      BY <1>1, <1>10, <2>2, BodyParts
    <3>2. InRegion(i) => InRegion(i)'
      BY <2>1 DEF InRegion
    <3>3. InOwner(i) => InOwner(i)'
      BY <1>1, <2>1, <3>1 DEF InOwner, Top
    <3> QED
      BY <1>1, <1>4, <1>10, <1>18, <2>2, <3>2, <3>3, PlacedStays
  <2>3. CASE i = Here
    <3>1. InOwner(i)'
      BY <2>1, <2>3 DEF InOwner
    <3> QED
      BY <3>1 DEF PlacedItem
  <2> QED
    BY <1>10, <2>2, <2>3
<1>19. ReaderInv'
  <2>1. \A i \in DOMAIN s : \/ i \in DOMAIN Func.items
                            \/ Resolved(body, i, s[i].ins) /\ Callee(i, s[i])
    BY <1>6, <1>9, <1>10, <1>13
  <2>2. readResult' = "success" =>
            readResult = "success" /\ \A i \in DOMAIN s : PlacedItem(i, s[i])
    BY <1>4, <1>18
  <2> QED
    BY <1>5, <1>10, <1>11, <1>14, <1>15, <1>16, <1>17, <2>1, <2>2, BodyStep
<1>20. Extended(ins, types, NoName)
  BY <1>7, <1>9, <1>10 DEF Extended
<1>21. /\ DOMAIN blocks' = DOMAIN blocks /\ Len(blocks) \in DOMAIN blocks
       /\ \A k \in DOMAIN blocks : k # Len(blocks) => blocks'[k].todo = blocks[k].todo
       /\ blocks'[Len(blocks)].todo = todo
  BY <1>1, <1>4, <1>12, TopReplaced
<1> QED
  BY <1>11, <1>19, <1>20, <1>21 DEF ins, ScfDone

\* A block is opened on the stack `below`, which has one region less to come.
LEMMA BlockOpened ==
  ASSUME ReaderInv, reading = "bodies", blocks # <<>> \/ Func.items = <<>>,
         It.tag = "enter", Settable(It.outs),
         NEW types \in Seq(Types), Len(It.outs) <= Len(types),
         NEW below \in Seq(Block), DOMAIN below = DOMAIN blocks, Len(below) = Len(blocks),
         \A k \in DOMAIN blocks :
            /\ below[k].enter = blocks[k].enter
            /\ below[k].owner = blocks[k].owner /\ below[k].last = blocks[k].last
            /\ below[k].owner = 0 => below[k].todo = <<>>
            /\ Len(below[k].todo) = IF k < Len(blocks) THEN Len(blocks[k].todo)
                                    ELSE Len(blocks[k].todo) - 1,
         OpenBlock(types, below)
  PROVE  ReaderInv' /\ BlockDone(types, below)
<1>1. /\ Signatures /\ Place /\ Stack /\ Binding /\ Placed /\ body # 0
  BY DEF ReaderInv, Place
<1>2. /\ Here \in DOMAIN Items(body) /\ It = Items(body)[Here] /\ It \in MessageItem
      /\ Open(Items(body))[Here] = AfterItem(Depths, It)
  BY <1>1, NextItem
<1>3. /\ It.outs \in Seq(Nat) /\ \A k \in DOMAIN It.outs : It.outs[k] < Len(Table)
      /\ \A k \in DOMAIN It.outs : k \in DOMAIN types
  <2>1. It.outs \in Seq(Nat)
    BY <1>2 DEF MessageItem
  <2> QED
    BY <2>1 DEF Settable
<1> DEFINE res == Defs(types, Attached(TableMeta(It.outs)))
           new == NewItem(It, <<>>, res, <<>>, NoName)
           s == Append(Func.items, new)
           top == [enter |-> Here, scope |-> {<<body, Here, k>> : k \in DOMAIN types},
                   last  |-> 0, owner |-> 0, todo |-> <<>>]
<1>4. /\ AddItem(new) /\ ReadMetadata(TableMeta(It.outs)) /\ Bind(It.outs, Here)
      /\ blocks' = Append(below, top)
      /\ UNCHANGED <<file, body, funcOps, verifies, reading>>
  <2>1. AddItem(new)
    BY DEF OpenBlock
  <2>2. ReadMetadata(TableMeta(It.outs)) /\ Bind(It.outs, Here)
    BY DEF OpenBlock
  <2>3. blocks' = Append(below, top)
    BY DEF OpenBlock
  <2>4. UNCHANGED <<file, body, funcOps, verifies, reading>>
    BY DEF OpenBlock
  <2> QED
    BY <2>1, <2>2, <2>3, <2>4
<1>5. /\ res \in Seq(Def) /\ DOMAIN res = DOMAIN types /\ TypesOf(res) = types
      /\ readResult' \in {"success", "failure"}
      /\ readResult' = "success" =>
            /\ readResult = "success"
            /\ \A k \in DOMAIN It.outs : res[k].meta = Decode(Table[It.outs[k] + 1].meta)
  BY <1>1, <1>3, <1>4, SourcesGet
<1>6. <<>> \in Metadata /\ <<>> \in Seq(Value) /\ NoName \in Names \cup {NoName}
  <2>1. <<>> \in Seq(Entry)
    OBVIOUS
  <2> QED
    BY <2>1 DEF Metadata
<1> HIDE DEF res
<1>7. /\ new \in Item /\ new.tag = "enter" /\ new.ins = <<>> /\ new.res = res
      /\ new.ref = NoName /\ new.regions = It.regions
  <2>1. PICK none : none = <<>>
    OBVIOUS
  <2>2. new = NewItem(It, none, res, none, NoName)
    BY <2>1
  <2>3. none \in Metadata /\ none \in Seq(Value)
    BY <1>6, <2>1
  <2> HIDE DEF new
  <2>4. /\ new \in Item /\ new.tag = It.tag /\ new.ins = none /\ new.res = res
        /\ new.ref = NoName /\ new.regions = It.regions
    BY <1>2, <1>5, <1>6, <2>2, <2>3, NewItemSpec
  <2> QED
    BY <2>1, <2>4
<1> HIDE DEF new
<1>8. /\ s \in Seq(Item) /\ NewItems(s)
      /\ Len(s) = Here /\ DOMAIN s = 1 .. Here /\ Here \in DOMAIN s /\ s[Here] = new
      /\ \A i \in DOMAIN Func.items : i \in DOMAIN s /\ i # Here /\ s[i] = Func.items[i]
      /\ \A i \in DOMAIN s : i \in DOMAIN Func.items \/ i = Here
      /\ KeepsItems(s)
  BY <1>1, <1>4, <1>7, ItemAdded
<1> HIDE DEF s
<1>9. Going /\ verifies' \in BOOLEAN
  BY <1>1, <1>4 DEF Going, Placed
<1>10. top \in Block
  <2>1. body \in Nat \ {0} /\ Here \in Nat \ {0}
    BY <1>1, BodyParts
  <2> DEFINE scope == {<<body, Here, k>> : k \in DOMAIN types}
  <2>2. scope \in SUBSET Value
    BY <2>1 DEF Value
  <2> HIDE DEF scope
  <2>3. <<>> \in Seq(Seq(Types))
    OBVIOUS
  <2> QED
    BY <2>1, <2>2, <2>3 DEF Block, scope
<1>11. top.enter = Here /\ top.owner = 0 /\ top.todo = <<>>
  OBVIOUS
<1> HIDE DEF top
<1> DEFINE n == Len(blocks)
<1>12. /\ blocks' \in Seq(Block) /\ n \in Nat /\ DOMAIN blocks = 1 .. n
       /\ DOMAIN blocks' = 1 .. n + 1 /\ blocks'[n + 1] = top
       /\ \A k \in 1 .. n : blocks'[k] = below[k]
  BY <1>1, <1>4, <1>10 DEF Stack
<1>13. Depths' = AfterItem(Depths, It)
  <2>1. Depths' = [k \in 1 .. n + 1 |-> IF k <= n THEN Len(below[k].todo) ELSE 0]
    BY <1>11, <1>12 DEF Depths
  <2> DEFINE d == [k \in DOMAIN Depths |-> IF k < Len(Depths) THEN Depths[k] ELSE Depths[k] - 1]
  <2>2. AfterItem(Depths, It) = Append(d, 0)
    BY DEF AfterItem, ScfKinds
  <2>3. /\ Depths = [k \in 1 .. n |-> Len(blocks[k].todo)]
        /\ \A k \in 1 .. n : blocks[k] \in Block
    BY <1>1, <1>12 DEF Depths, Stack
  <2>4. \A k \in 1 .. n : Len(blocks[k].todo) \in Nat
    BY <2>3 DEF Block
  <2>5. Depths \in Seq(Nat) /\ Len(Depths) = n /\ DOMAIN Depths = 1 .. n
    <3>1. Depths = [k \in 1 .. n |-> Depths[k]] /\ \A k \in 1 .. n : Depths[k] \in Nat
      BY <2>3, <2>4
    <3> QED
      BY <1>12, <3>1, ListSeq
  <2>6. d = [k \in 1 .. n |-> Len(below[k].todo)]
    BY <1>12, <2>3, <2>5
  <2>7. \A k \in 1 .. n : d[k] \in Int
    BY <2>3, <2>4, <2>5
  <2> HIDE DEF d
  <2>8. d \in Seq(Int) /\ Len(d) = n
    BY <1>12, <2>6, <2>7, ListSeq
  <2>9. Append(d, 0) = [k \in 1 .. n + 1 |-> IF k <= n THEN d[k] ELSE 0]
    <3>1. /\ Append(d, 0) \in Seq(Int) /\ Len(Append(d, 0)) = n + 1
          /\ \A k \in 1 .. n + 1 : Append(d, 0)[k] = IF k <= n THEN d[k] ELSE 0
      BY <1>12, <2>8
    <3> DEFINE e == Append(d, 0)
    <3>2. e = [k \in 1 .. n + 1 |-> e[k]]
      <4>1. e \in Seq(Int) /\ Len(e) = n + 1
        BY <3>1
      <4> HIDE DEF e
      <4> QED
        BY <4>1
    <3> HIDE DEF e
    <3>3. \A k \in 1 .. n + 1 : e[k] = IF k <= n THEN d[k] ELSE 0
      BY <3>1 DEF e
    <3>4. e = [k \in 1 .. n + 1 |-> IF k <= n THEN d[k] ELSE 0]
      BY <3>2, <3>3
    <3> QED
      BY <3>4 DEF e
  <2> QED
    BY <1>12, <2>1, <2>2, <2>6, <2>9
<1>14. Len(s) <= Len(Items(body)) /\ Depths' = Open(Items(body))[Len(s)]
  BY <1>1, <1>2, <1>8, <1>13, BodyParts
<1>15. Stack'
  <2>1. Func'.items = s
    BY <1>1, <1>8, <1>9, ItemsChanged
  <2>2. ASSUME NEW k \in 1 .. n + 1
        PROVE  /\ blocks'[k].enter \in DOMAIN s
               /\ blocks'[k].owner # 0 => /\ blocks'[k].owner \in DOMAIN s
                                          /\ blocks'[k].last = blocks'[k].owner
               /\ blocks'[k].owner = 0 => blocks'[k].todo = <<>>
    <3>1. CASE k = n + 1
      BY <1>8, <1>11, <1>12, <3>1
    <3>2. CASE k \in 1 .. n
      <4>1. blocks'[k] = below[k] /\ k \in DOMAIN blocks
        BY <1>12, <3>2
      <4>2. /\ blocks[k].enter \in DOMAIN Func.items
            /\ blocks[k].owner # 0 => /\ blocks[k].owner \in DOMAIN Func.items
                                      /\ blocks[k].last = blocks[k].owner
        BY <1>1, <4>1 DEF Stack
      <4> QED
        BY <1>8, <4>1, <4>2
    <3> QED
      BY <1>12, <3>1, <3>2
  <2> QED
    BY <1>12, <2>1, <2>2 DEF Stack
<1>16. Binding'
  <2>1. \A k \in DOMAIN It.outs : /\ k \in DOMAIN s[Here].res
                                  /\ k \in DOMAIN Items(body)[Here].outs
                                  /\ It.outs[k] = Items(body)[Here].outs[k]
    BY <1>2, <1>3, <1>5, <1>7, <1>8
  <2>2. Signatures /\ Place /\ Going /\ Binding /\ Bind(It.outs, Here)
    BY <1>1, <1>4, <1>9
  <2>3. s \in Seq(Item) /\ NewItems(s) /\ KeepsItems(s) /\ Here \in DOMAIN s
    BY <1>8
  <2>4. It.outs \in Seq(Nat)
    BY <1>3
  <2> QED
    BY <2>1, <2>2, <2>3, <2>4, BindingGrows
<1>17. ASSUME readResult' = "success", NEW i \in DOMAIN s PROVE PlacedItem(i, s[i])
  <2>1. CASE i \in DOMAIN Func.items
    <3>1. InRegion(i) => InRegion(i)'
      BY <1>12 DEF InRegion
    <3>2. InOwner(i) => InOwner(i)'
      BY <1>12 DEF InOwner
    <3> QED
      BY <1>1, <1>5, <1>8, <1>17, <2>1, <3>1, <3>2, PlacedStays
  <2>2. CASE i = Here
    <3>1. InRegion(i)'
      BY <1>11, <1>12, <2>2 DEF InRegion
    <3>2. ResultsPlaced(new.res, Items(body)[Here], Table)
      BY <1>2, <1>5, <1>7, <1>17 DEF ResultsPlaced
    <3> QED
      BY <1>8, <2>2, <3>1, <3>2 DEF PlacedItem
  <2> QED
    BY <1>8, <2>1, <2>2
<1>18. ReaderInv'
  <2>1. Resolved(body, Here, new.ins) /\ Callee(Here, new)
    BY <1>7 DEF Resolved, Callee
  <2>2. \A i \in DOMAIN s : \/ i \in DOMAIN Func.items
                            \/ Resolved(body, i, s[i].ins) /\ Callee(i, s[i])
    BY <1>8, <2>1
  <2>3. readResult' = "success" =>
            readResult = "success" /\ \A i \in DOMAIN s : PlacedItem(i, s[i])
    BY <1>5, <1>17
  <2> QED
    BY <1>5, <1>8, <1>9, <1>14, <1>15, <1>16, <2>2, <2>3, BodyStep
<1>19. Extended(<<>>, types, NoName)
  BY <1>5, <1>7, <1>8 DEF Extended
<1> QED
  BY <1>9, <1>11, <1>12, <1>18, <1>19 DEF BlockDone

\* A single list of metadata.
LEMMA SingleRead ==
  ASSUME Signatures, Placed, NEW meta \in Seq(Nat), ReadMetadata(<<meta>>)
  PROVE  /\ Attached(<<meta>>)[1] \in Metadata
         /\ readResult' \in {"success", "failure"}
         /\ readResult' = "success" =>
               readResult = "success" /\ Attached(<<meta>>)[1] = Decode(meta)
<1> DEFINE ms == <<meta>>
<1>1. DOMAIN ms = 1 .. 1 /\ ms[1] = meta /\ \A k \in 1 .. 1 : ms[k] \in Seq(Nat)
  OBVIOUS
<1>2. file.strings \in Seq(Names) /\ readResult \in {"success", "failure"}
  BY FileParts DEF Placed
<1> HIDE DEF ms
<1>3. ReadMetadata(ms)
  BY DEF ms
<1>4. /\ \A k \in 1 .. 1 : Attached(ms)[k] \in Metadata
      /\ readResult' \in {"success", "failure"}
      /\ readResult' = "success" =>
            readResult = "success" /\ \A k \in 1 .. 1 : Attached(ms)[k] = Decode(ms[k])
  BY <1>1, <1>2, <1>3, MetadataRead
<1>5. 1 \in 1 .. 1
  OBVIOUS
<1> QED
  BY <1>1, <1>4, <1>5 DEF ms

\* A region is left: the region gets its metadata, the block is closed.
LEMMA RegionLeft ==
  ASSUME ReaderInv, LeaveRegion
  PROVE  /\ ReaderInv' /\ Going /\ Extended(ValuesOf(It.ins), TypesOf(<<>>), NoName)
         /\ DOMAIN blocks' = 1 .. Len(blocks) - 1
         /\ \A k \in DOMAIN blocks' : blocks'[k] = blocks[k]
<1>1. /\ Signatures /\ Place /\ Stack /\ Binding /\ Placed
      /\ reading = "bodies" /\ body # 0 /\ blocks # <<>> /\ Top.todo = <<>> /\ Top.owner = 0
      /\ It.tag = "leave"
  BY DEF ReaderInv, LeaveRegion, AtItem, Place
<1>2. /\ Here \in DOMAIN Items(body) /\ It = Items(body)[Here] /\ It \in MessageItem
      /\ Open(Items(body))[Here] = AfterItem(Depths, It) /\ It.meta = <<>>
  BY <1>1, NextItem
<1>3. It.ins \in Seq(Nat) /\ Readable(It.ins)
  <2>1. Verdict(LeaveChecks(It)) = "passed"
    BY DEF LeaveRegion
  <2> QED
    BY <1>2, <2>1, LeavePassed DEF MessageItem
<1> DEFINE ins == ValuesOf(It.ins)
           meta == Items(body)[Top.enter].meta
           got == Attached(<<meta>>)[1]
           new == NewItem(It, ins, <<>>, <<>>, NoName)
           rest == [Func.items EXCEPT ![Top.enter].meta = got]
           s == Append(rest, new)
           n == Len(blocks)
<1>4. /\ NewItems(s) /\ ReadMetadata(<<meta>>)
      /\ blocks' = SubSeq(blocks, 1, n - 1)
      /\ UNCHANGED <<file, body, bound, funcOps, reading>>
  <2>1. NewItems(s)
    <3> DEFINE e == Append([owned.funcs[body].items EXCEPT ![Top.enter].meta = got], new)
    <3>1. owned' = [owned EXCEPT !.funcs[body].items = e]
      BY Zenon DEF LeaveRegion, Items
    <3>2. s = e
      BY DEF Func
    <3> HIDE DEF s, e
    <3> QED
      BY <3>1, <3>2 DEF NewItems
  <2>2. ReadMetadata(<<meta>>)
    BY DEF LeaveRegion, Items
  <2>3. blocks' = SubSeq(blocks, 1, n - 1) /\ UNCHANGED <<file, body, bound, funcOps, reading>>
    BY DEF LeaveRegion
  <2> QED
    BY <2>1, <2>2, <2>3
<1>5. verifies' \in BOOLEAN
  BY <1>1 DEF LeaveRegion, Placed
<1>6. ins \in Seq(Value) /\ Resolved(body, Here, ins)
  BY <1>1, <1>2, <1>3, ValuesRead
<1>7. /\ Top \in Block /\ Top.enter \in DOMAIN Func.items /\ Top.enter \in DOMAIN Items(body)
      /\ Func.items \in Seq(Item) /\ Items(body) \in Seq(MessageItem)
      /\ Here = Len(Func.items) + 1 /\ Here \in Nat \ {0}
  <2>1. /\ Func.items \in Seq(Item) /\ Items(body) \in Seq(MessageItem)
        /\ Here = Len(Func.items) + 1 /\ Here \in Nat \ {0}
        /\ Len(Func.items) <= Len(Items(body))
    BY <1>1, BodyParts DEF Place
  <2>2. Top \in Block /\ Top.enter \in DOMAIN Func.items
    BY <1>1 DEF Stack, Top
  <2> QED
    BY <2>1, <2>2
<1>8. meta \in Seq(Nat)
  <2>1. Items(body)[Top.enter] \in MessageItem
    BY <1>7
  <2> QED
    BY <2>1 DEF MessageItem
<1>9. /\ got \in Metadata /\ readResult' \in {"success", "failure"}
      /\ readResult' = "success" => readResult = "success" /\ got = Decode(meta)
  <2>1. PICK m : m = meta
    OBVIOUS
  <2> QED
    BY <1>1, <1>4, <1>8, <2>1, SingleRead
<1> HIDE DEF ins, got
<1>10. /\ new \in Item /\ new.tag = "leave" /\ new.ins = ins /\ new.res = <<>> /\ new.meta = <<>>
       /\ new.ref = NoName /\ new.regions = It.regions
  <2>1. PICK none : none = <<>>
    OBVIOUS
  <2>2. new = NewItem(It, ins, none, none, NoName)
    BY <2>1
  <2>3. none \in Metadata /\ none \in Seq(Def) /\ NoName \in Names \cup {NoName}
    <3>1. <<>> \in Seq(Entry) /\ <<>> \in Seq(Def)
      OBVIOUS
    <3> QED
      BY <2>1, <3>1 DEF Metadata
  <2> HIDE DEF new
  <2>4. /\ new \in Item /\ new.tag = It.tag /\ new.ins = ins /\ new.res = none
        /\ new.meta = none /\ new.ref = NoName /\ new.regions = It.regions
    BY <1>2, <1>6, <2>2, <2>3, NewItemSpec
  <2> QED
    BY <1>1, <2>1, <2>4
<1> HIDE DEF new
<1>11. /\ rest \in Seq(Item) /\ Len(rest) = Len(Func.items) /\ DOMAIN rest = DOMAIN Func.items
       /\ \A i \in DOMAIN Func.items : /\ i # Top.enter => rest[i] = Func.items[i]
                                       /\ Keeps(rest[i], Func.items[i])
                                       /\ rest[i].res = Func.items[i].res
       /\ rest[Top.enter].meta = got
  <2> DEFINE items == Func.items
             e == Top.enter
             changed == [items[e] EXCEPT !.meta = got]
  <2>1. rest = [items EXCEPT ![e] = changed]
    OBVIOUS
  <2>2. items \in Seq(Item) /\ e \in DOMAIN items
    BY <1>7
  <2> HIDE DEF items, e, rest
  <2>3. items[e] \in Item
    BY <2>2
  <2>4. /\ changed \in Item /\ changed.tag = items[e].tag /\ changed.ins = items[e].ins
        /\ changed.regions = items[e].regions
        /\ changed.ref = items[e].ref /\ changed.res = items[e].res /\ changed.meta = got
    BY <1>9, <2>3 DEF Item
  <2> HIDE DEF changed
  <2>5. /\ rest \in Seq(Item) /\ Len(rest) = Len(items) /\ DOMAIN rest = DOMAIN items
        /\ \A i \in DOMAIN items : rest[i] = IF i = e THEN changed ELSE items[i]
    BY <2>1, <2>2, <2>4
  <2>6. \A i \in DOMAIN items : Keeps(rest[i], items[i]) /\ rest[i].res = items[i].res
    BY <2>4, <2>5 DEF Keeps
  <2> QED
    BY <2>2, <2>4, <2>5, <2>6 DEF items, e
<1> HIDE DEF rest
<1>12. /\ s \in Seq(Item) /\ Len(s) = Here /\ DOMAIN s = 1 .. Here
       /\ s[Here] = new
       /\ \A i \in DOMAIN Func.items : i \in DOMAIN s /\ i # Here /\ s[i] = rest[i]
       /\ \A i \in DOMAIN s : i \in DOMAIN Func.items \/ i = Here
  <2>1. Len(rest) \in Nat /\ Len(rest) + 1 = Here /\ DOMAIN Func.items = 1 .. Len(rest)
    BY <1>7, <1>11
  <2> QED
    BY <1>10, <1>11, <2>1
<1> HIDE DEF s
<1>13. Going /\ KeepsItems(s)
  <2>1. Going
    BY <1>1, <1>4 DEF Going
  <2>2. KeepsItems(s)
    BY <1>11, <1>12 DEF KeepsItems
  <2> QED
    BY <2>1, <2>2
<1>14. /\ blocks \in Seq(Block) /\ n \in Nat \ {0} /\ DOMAIN blocks = 1 .. n
       /\ blocks' \in Seq(Block) /\ DOMAIN blocks' = 1 .. n - 1
       /\ \A k \in 1 .. n - 1 : blocks'[k] = blocks[k]
  BY <1>1, <1>4 DEF Stack
<1>15. Depths' = AfterItem(Depths, It)
  <2>1. Depths = [k \in 1 .. n |-> Len(blocks[k].todo)] /\ \A k \in 1 .. n : blocks[k] \in Block
    BY <1>14 DEF Depths
  <2>2. Depths' = [k \in 1 .. n - 1 |-> Len(blocks[k].todo)]
    BY <1>14 DEF Depths
  <2>3. AfterItem(Depths, It) = SubSeq(Depths, 1, Len(Depths) - 1)
    BY <1>1 DEF AfterItem, ScfKinds
  <2> DEFINE d == Depths
  <2>4. \A k \in 1 .. n : d[k] \in Nat
    BY <2>1 DEF Block
  <2>5. d = [k \in 1 .. n |-> d[k]]
    BY <2>1
  <2> HIDE DEF d
  <2>6. d \in Seq(Nat) /\ Len(d) = n
    BY <1>14, <2>4, <2>5, ListSeq
  <2>7. SubSeq(d, 1, n - 1) = [k \in 1 .. n - 1 |-> d[k]]
    BY <1>14, <2>6
  <2> QED
    BY <1>14, <2>1, <2>2, <2>3, <2>6, <2>7 DEF d
<1>16. Len(s) <= Len(Items(body)) /\ Depths' = Open(Items(body))[Len(s)]
  BY <1>1, <1>2, <1>7, <1>12, <1>15
<1>17. Stack'
  <2>1. Func'.items = s
    BY <1>1, <1>4, <1>12, <1>13, ItemsChanged
  <2>2. ASSUME NEW k \in 1 .. n - 1
        PROVE  /\ blocks'[k].enter \in DOMAIN s
               /\ blocks'[k].owner # 0 => /\ blocks'[k].owner \in DOMAIN s
                                          /\ blocks'[k].last = blocks'[k].owner
               /\ blocks'[k].owner = 0 => blocks'[k].todo = <<>>
    <3>1. blocks'[k] = blocks[k] /\ k \in DOMAIN blocks
      BY <1>14
    <3>2. /\ blocks[k].enter \in DOMAIN Func.items
          /\ blocks[k].owner # 0 => /\ blocks[k].owner \in DOMAIN Func.items
                                    /\ blocks[k].last = blocks[k].owner
          /\ blocks[k].owner = 0 => blocks[k].todo = <<>>
      BY <1>1, <3>1 DEF Stack
    <3> QED
      BY <1>12, <3>1, <3>2
  <2> QED
    BY <1>14, <2>1, <2>2 DEF Stack
<1>18. Binding'
  BY <1>1, <1>4, <1>12, <1>13, BindingKept DEF KeepBound
<1>19. ASSUME readResult' = "success", NEW i \in DOMAIN s PROVE PlacedItem(i, s[i])
  <2>1. CASE i = Here
    <3>1. Decode(Items(body)[Here].meta) = <<>>
      <4>1. Items(body)[Here].meta = <<>> /\ DOMAIN <<>> = {}
        BY <1>2
      <4> QED
        BY <4>1 DEF Decode
    <3>2. ResultsPlaced(new.res, Items(body)[Here], Table)
      BY <1>10 DEF ResultsPlaced
    <3> QED
      BY <1>10, <1>12, <2>1, <3>1, <3>2 DEF PlacedItem
  <2>2. CASE i \in DOMAIN Func.items
    <3>1. i # 0
      BY <1>7, <2>2
    <3>2. InOwner(i) => InOwner(i)'
      <4> SUFFICES ASSUME NEW k \in DOMAIN blocks, blocks[k].owner = i PROVE InOwner(i)'
        BY DEF InOwner
      <4>1. k # n
        BY <1>1, <3>1 DEF Top
      <4> QED
        BY <1>14, <4>1 DEF InOwner
    <3>3. i # Top.enter => (InRegion(i) => InRegion(i)')
      <4> SUFFICES ASSUME NEW k \in DOMAIN blocks, blocks[k].enter = i, i # Top.enter
                   PROVE  InRegion(i)'
        BY DEF InRegion
      <4>1. k # n
        BY DEF Top
      <4> QED
        BY <1>14, <4>1 DEF InRegion
    <3>4. CASE i # Top.enter
      BY <1>1, <1>9, <1>11, <1>12, <1>19, <2>2, <3>2, <3>3, <3>4, PlacedStays
    <3>5. CASE i = Top.enter
      <4>1. ItemPlaced(body, i) /\ Func.items = owned.funcs[body].items
        <5>1. body \in DOMAIN owned.funcs /\ Func.items = owned.funcs[body].items
          BY <1>1, BodyParts DEF Func
        <5> QED
          BY <1>1, <1>9, <1>19, <2>2, <5>1 DEF Placed
      <4>2. InOwner(i) \/ ResultsPlaced(Func.items[i].res, Items(body)[i], Table)
        BY <4>1 DEF ItemPlaced, OwnerOpen, Table
      <4>3. s[i].meta = Decode(Items(body)[i].meta) /\ s[i].res = Func.items[i].res
        BY <1>9, <1>11, <1>12, <1>19, <2>2, <3>5
      <4> QED
        BY <3>2, <4>2, <4>3 DEF PlacedItem
    <3> QED
      BY <3>4, <3>5
  <2> QED
    BY <1>12, <2>1, <2>2
<1>20. ReaderInv'
  <2>1. Resolved(body, Here, new.ins) /\ Callee(Here, new)
    BY <1>6, <1>10 DEF Callee
  <2>2. \A i \in DOMAIN s : \/ i \in DOMAIN Func.items
                            \/ Resolved(body, i, s[i].ins) /\ Callee(i, s[i])
    BY <1>12, <2>1
  <2>3. readResult' = "success" =>
            readResult = "success" /\ \A i \in DOMAIN s : PlacedItem(i, s[i])
    BY <1>9, <1>19
  <2> QED
    BY <1>4, <1>5, <1>9, <1>12, <1>13, <1>16, <1>17, <1>18, <2>2, <2>3, BodyStep
<1>21. Extended(ins, TypesOf(<<>>), NoName)
  BY <1>1, <1>4, <1>10, <1>12, <1>13 DEF Extended
<1> QED
  BY <1>13, <1>14, <1>20, <1>21 DEF ins

\* An operation with regions is finished: its results are bound and annotated,
\* and so is the operation, which is the last one of the block.
LEMMA ScfFinished ==
  ASSUME ReaderInv, FinishScf
  PROVE  ReaderInv' /\ Going /\ Annotated /\ SameTodo
<1>1. /\ Signatures /\ Place /\ Stack /\ Binding /\ Placed
      /\ reading = "bodies" /\ body # 0 /\ blocks # <<>> /\ Top.todo = <<>> /\ Top.owner # 0
  <2>1. AtOwnerEnd
    BY Zenon DEF FinishScf
  <2> QED
    BY <2>1 DEF ReaderInv, AtOwnerEnd, Place
<1> DEFINE o == Top.owner
           it == Items(body)[o]
           types == TypesOf(Func.items[o].res)
           metas == Attached(Lists(it.outs, it.meta))
           res == Defs(types, SubSeq(metas, 1, Len(it.outs)))
           last == metas[Len(metas)]
           s == [Func.items EXCEPT ![o].res = res, ![o].meta = last]
           top == [Top EXCEPT !.owner = 0,
                              !.scope = Top.scope \cup {<<body, o, k>> : k \in DOMAIN types}]
           n == Len(blocks)
<1>2. /\ Top \in Block /\ o \in DOMAIN Func.items /\ Top.last = o
      /\ Top.enter \in DOMAIN Func.items
  BY <1>1 DEF Stack, Top
<1>3. /\ Func.items \in Seq(Item) /\ Items(body) \in Seq(MessageItem) /\ o \in DOMAIN Items(body)
      /\ Len(Func.items) <= Len(Items(body)) /\ body \in Nat \ {0} /\ o \in Nat \ {0}
  <2>1. /\ Func.items \in Seq(Item) /\ Items(body) \in Seq(MessageItem)
        /\ Len(Func.items) <= Len(Items(body)) /\ body \in Nat \ {0}
    BY <1>1, BodyParts DEF Place
  <2> QED
    BY <1>2, <2>1
<1>4. /\ NewItems(s) /\ ReadMetadata(Lists(it.outs, it.meta)) /\ Bind(it.outs, o)
      /\ blocks' = [blocks EXCEPT ![n] = top]
      /\ UNCHANGED <<file, body, funcOps, verifies, reading>>
  <2>1. NewItems(s)
    <3> DEFINE e == [owned.funcs[body].items EXCEPT ![o].res = res, ![Top.last].meta = last]
    <3>1. owned' = [owned EXCEPT !.funcs[body].items = e]
      BY Zenon DEF FinishScf, Items, Lists, LastOperation
    <3>2. s = e
      BY <1>2 DEF Func
    <3> HIDE DEF s, e
    <3> QED
      BY <3>1, <3>2 DEF NewItems
  <2>2. ReadMetadata(Lists(it.outs, it.meta)) /\ Bind(it.outs, o)
    BY Zenon DEF FinishScf, Items, Lists
  <2>3. blocks' = [blocks EXCEPT ![n] = top]
    BY Zenon DEF FinishScf
  <2>4. UNCHANGED <<file, body, funcOps, verifies, reading>>
    BY Zenon DEF FinishScf
  <2> QED
    BY <2>1, <2>2, <2>3, <2>4
<1>5. it \in MessageItem /\ Func.items[o] \in Item
  BY <1>2, <1>3
<1>6. it.outs \in Seq(Nat) /\ it.meta \in Seq(Nat) /\ Func.items[o].res \in Seq(Def)
  BY <1>5 DEF MessageItem, Item
<1>7. types \in Seq(Types) /\ Len(types) = Len(Func.items[o].res)
      /\ DOMAIN types = DOMAIN Func.items[o].res
  <2> DEFINE ds == Func.items[o].res
             t == TypesOf(ds)
  <2>1. ds \in Seq(Def)
    BY <1>6
  <2> HIDE DEF ds
  <2>2. Len(ds) \in Nat /\ DOMAIN ds = 1 .. Len(ds) /\ \A k \in 1 .. Len(ds) : ds[k] \in Def
    BY <2>1
  <2>3. t = [k \in 1 .. Len(ds) |-> ds[k].type]
    BY <2>2 DEF TypesOf
  <2>4. t = [k \in 1 .. Len(ds) |-> t[k]] /\ \A k \in 1 .. Len(ds) : t[k] \in Types
    BY <2>2, <2>3 DEF Def
  <2> HIDE DEF t
  <2>5. t \in Seq(Types) /\ Len(t) = Len(ds) /\ DOMAIN t = 1 .. Len(ds)
    BY <2>2, <2>4, ListSeq
  <2> QED
    BY <2>2, <2>5 DEF t, ds
<1>8. Settable(it.outs) /\ Len(it.outs) <= Len(types)
  <2> DEFINE outs == it.outs
             m == Len(Func.items[o].res)
  <2>1. Verdict(FinishChecks(o)) = "passed"
    BY Zenon DEF FinishScf
  <2>2. Settable(Take(outs, m)) /\ ~(Len(outs) > m)
    BY <2>1, FinishPassed
  <2>3. m \in Nat /\ outs \in Seq(Nat) /\ m = Len(types)
    BY <1>6, <1>7
  <2> HIDE DEF outs, m, types
  <2>4. Len(outs) <= m /\ Take(outs, m) = outs
    BY <2>2, <2>3, TakeSpec
  <2>5. Settable(outs) /\ Len(outs) <= Len(types)
    BY <2>2, <2>3, <2>4
  <2> QED
    BY <2>5 DEF outs, types
<1>9. /\ \A k \in DOMAIN it.outs : it.outs[k] < Len(Table)
      /\ \A k \in DOMAIN it.outs : k \in DOMAIN types
  <2> DEFINE outs == it.outs
  <2>1. outs \in Seq(Nat) /\ Settable(outs) /\ Len(outs) <= Len(types) /\ types \in Seq(Types)
    BY <1>6, <1>7, <1>8
  <2> HIDE DEF outs, types
  <2>2. \A k \in DOMAIN outs : outs[k] < Len(Table)
    BY <2>1 DEF Settable
  <2>3. \A k \in DOMAIN outs : k \in DOMAIN types
    BY <2>1
  <2> QED
    BY <2>2, <2>3 DEF outs, types
<1>10. /\ res \in Seq(Def) /\ DOMAIN res = DOMAIN types /\ TypesOf(res) = types
       /\ last \in Metadata
       /\ readResult' \in {"success", "failure"}
       /\ readResult' = "success" =>
             /\ readResult = "success"
             /\ last = Decode(it.meta)
             /\ \A k \in DOMAIN it.outs : res[k].meta = Decode(Table[it.outs[k] + 1].meta)
  <2>1. metas = Attached(Lists(it.outs, it.meta)) /\ ReadMetadata(Lists(it.outs, it.meta))
    BY <1>4
  <2> HIDE DEF metas, it, types
  <2>2. res = Defs(types, SubSeq(metas, 1, Len(it.outs)))
    OBVIOUS
  <2> HIDE DEF res
  <2>3. /\ res \in Seq(Def) /\ DOMAIN res = DOMAIN types /\ TypesOf(res) = types
        /\ metas[Len(metas)] \in Metadata
        /\ readResult' \in {"success", "failure"}
        /\ readResult' = "success" =>
              /\ readResult = "success"
              /\ metas[Len(metas)] = Decode(it.meta)
              /\ \A k \in DOMAIN it.outs : k \in DOMAIN types =>
                    res[k].meta = Decode(Table[it.outs[k] + 1].meta)
    BY <1>1, <1>6, <1>7, <1>9, <2>1, <2>2, ResultsGet
  <2> QED
    BY <1>9, <2>3
<1> HIDE DEF res, last
<1>11. /\ s \in Seq(Item) /\ Len(s) = Len(Func.items) /\ DOMAIN s = DOMAIN Func.items
       /\ \A i \in DOMAIN Func.items : i # o => s[i] = Func.items[i]
       /\ s[o].res = res /\ s[o].meta = last /\ Keeps(s[o], Func.items[o])
  <2> DEFINE items == Func.items
             changed == [items[o] EXCEPT !.res = res, !.meta = last]
  <2>1. items \in Seq(Item) /\ o \in DOMAIN items /\ TypesOf(items[o].res) = types
    BY <1>2, <1>3
  <2>2. s = [items EXCEPT ![o] = changed]
    BY <2>1
  <2> HIDE DEF items, s, types, o
  <2>3. items[o] \in Item
    BY <2>1
  <2>4. /\ changed \in Item /\ changed.tag = items[o].tag /\ changed.ins = items[o].ins
        /\ changed.regions = items[o].regions
        /\ changed.ref = items[o].ref /\ changed.res = res /\ changed.meta = last
    BY <1>10, <2>3 DEF Item
  <2> HIDE DEF changed
  <2>5. /\ s \in Seq(Item) /\ Len(s) = Len(items) /\ DOMAIN s = DOMAIN items
        /\ \A i \in DOMAIN items : i # o => s[i] = items[i]
        /\ s[o] = changed
    BY <2>1, <2>2, <2>4
  <2>6. Keeps(s[o], items[o])
    BY <1>10, <2>1, <2>4, <2>5 DEF Keeps
  <2> QED
    BY <2>4, <2>5, <2>6 DEF items
<1> HIDE DEF s
<1>12. Going /\ KeepsItems(s) /\ verifies' \in BOOLEAN
  <2>1. Going
    BY <1>1, <1>4 DEF Going
  <2>2. ASSUME NEW i \in DOMAIN Func.items PROVE i \in DOMAIN s /\ Keeps(s[i], Func.items[i])
    <3>1. CASE i = o
      BY <1>11, <3>1
    <3>2. CASE i # o
      BY <1>11, <3>2 DEF Keeps
    <3> QED
      BY <3>1, <3>2
  <2> QED
    BY <1>1, <1>4, <2>1, <2>2 DEF KeepsItems, Placed
<1>13. /\ top \in Block /\ top.todo = <<>> /\ top.owner = 0 /\ top.enter = Top.enter
  <2> DEFINE more == {<<body, o, k>> : k \in DOMAIN types}
             t == Top
  <2>1. more \subseteq Value
    BY <1>3, <1>7 DEF Value
  <2>2. t \in Block /\ t.todo = <<>> /\ top = [t EXCEPT !.owner = 0, !.scope = t.scope \cup more]
    BY <1>1, <1>2
  <2> HIDE DEF more, t, top
  <2>3. /\ top \in Block /\ top.todo = <<>> /\ top.owner = 0 /\ top.enter = t.enter
    BY <2>1, <2>2 DEF Block
  <2> QED
    BY <2>3 DEF t
<1> HIDE DEF top
<1>14. Depths' = Open(Items(body))[Len(s)]
  <2>1. /\ Depths \in Seq(Nat) /\ Len(Depths) = Len(blocks)
        /\ Depths' = [Depths EXCEPT ![Len(blocks)] = Len(top.todo)]
        /\ Len(blocks) \in DOMAIN blocks
    BY <1>1, <1>4, <1>13, TopReplaced
  <2>2. Depths[Len(blocks)] = Len(top.todo)
    BY <1>1, <1>13, <2>1 DEF Depths, Top
  <2>3. Depths' = Depths
    BY <2>1, <2>2
  <2> QED
    BY <1>1, <1>11, <2>3 DEF Place
<1>15. Stack'
  BY <1>1, <1>2, <1>4, <1>11, <1>12, <1>13, StackTop
<1>16. Binding'
  <2>1. \A k \in DOMAIN it.outs : /\ k \in DOMAIN s[o].res
                                  /\ k \in DOMAIN Items(body)[o].outs
                                  /\ it.outs[k] = Items(body)[o].outs[k]
    BY <1>9, <1>10, <1>11
  <2>2. Signatures /\ Place /\ Going /\ Binding /\ Bind(it.outs, o)
    BY <1>1, <1>4, <1>12
  <2>3. s \in Seq(Item) /\ NewItems(s) /\ KeepsItems(s) /\ o \in DOMAIN s
    BY <1>2, <1>4, <1>11, <1>12
  <2> HIDE DEF o, it
  <2>4. it.outs \in Seq(Nat)
    BY <1>6
  <2> QED
    BY <2>1, <2>2, <2>3, <2>4, BindingGrows
<1>17. ASSUME readResult' = "success", NEW i \in DOMAIN s PROVE PlacedItem(i, s[i])
  <2>1. CASE i = o
    <3>1. s[i].meta = Decode(Items(body)[i].meta)
      BY <1>10, <1>11, <1>17, <2>1
    <3>2. ResultsPlaced(s[i].res, Items(body)[i], Table)
      BY <1>9, <1>10, <1>11, <1>17, <2>1 DEF ResultsPlaced
    <3> QED
      BY <3>1, <3>2 DEF PlacedItem
  <2>2. CASE i # o
    <3>1. /\ DOMAIN blocks' = DOMAIN blocks /\ Len(blocks) \in DOMAIN blocks
          /\ \A k \in DOMAIN blocks : /\ blocks'[k].enter = blocks[k].enter
                                      /\ k # Len(blocks) => blocks'[k].owner = blocks[k].owner
      BY <1>1, <1>4, <1>13, TopReplaced DEF Top
    <3>2. InRegion(i) => InRegion(i)'
      BY <3>1 DEF InRegion
    <3>3. InOwner(i) => InOwner(i)'
      BY <2>2, <3>1 DEF InOwner, Top
    <3> QED
      BY <1>1, <1>10, <1>11, <1>17, <2>2, <3>2, <3>3, PlacedStays
  <2> QED
    BY <2>1, <2>2
<1>18. ReaderInv'
  <2>1. \A i \in DOMAIN s : i \in DOMAIN Func.items
    BY <1>11
  <2>2. readResult' = "success" =>
            readResult = "success" /\ \A i \in DOMAIN s : PlacedItem(i, s[i])
    BY <1>10, <1>17
  <2> QED
    BY <1>3, <1>4, <1>10, <1>11, <1>12, <1>14, <1>15, <1>16, <2>1, <2>2, BodyStep
<1>19. Annotated
  BY <1>4, <1>11, <1>12 DEF Annotated
<1>20. SameTodo
  BY <1>1, <1>4, <1>13, TopReplaced DEF Top, SameTodo
<1> QED
  BY <1>12, <1>18, <1>19, <1>20

\* The handlers of operations without regions.
LEMMA FlatRead ==
  ASSUME ReaderInv, ReadFlatOp
  PROVE  /\ ReaderInv'
         /\ OpDone(ValuesOf(Take(It.ins, Len(Signature[It.tag].ins))), Signature[It.tag].res, NoName)
<1>1. AtItem /\ It.tag \in FlatKinds /\ Verdict(FlatChecks(It)) = "passed"
      /\ AddOp(Signature[It.tag].res, NoName)
  BY DEF ReadFlatOp
<1>2. It.tag # "call"
  BY <1>1, FormatAssumption
<1>3. Signature[It.tag].res \in Seq(Types)
  <2>1. Signature[It.tag] \in [ins : Seq(Types), res : Seq(Types)]
    BY <1>1, SignatureAssumption
  <2> QED
    BY <2>1
<1>4. /\ Readable(Take(It.ins, Len(Signature[It.tag].ins)))
      /\ Settable(Take(It.outs, Len(Signature[It.tag].res)))
  BY <1>1, FlatPassed
<1>5. Readable(Take(It.ins, IF It.tag = "call" THEN Len(It.ins) ELSE Len(Signature[It.tag].ins)))
  BY <1>2, <1>4
<1>6. ReaderInv' /\ OpDone(ValuesOf(Take(It.ins, IF It.tag = "call" THEN Len(It.ins)
                                      ELSE Len(Signature[It.tag].ins))), Signature[It.tag].res, NoName)
  BY <1>1, <1>2, <1>3, <1>4, <1>5, OpAdded
<1> QED
  BY <1>2, <1>6

\* deserializeCustom keeps the invariant.
LEMMA CustomRead ==
  ASSUME ReaderInv, ReadCustom
  PROVE  /\ ReaderInv'
         /\ OpDone(ValuesOf(Take(It.ins, Len(Signature[It.tag].ins))), Signature[It.tag].res,
                   file.strings[It.ref + 1])
<1>1. AtItem /\ It.tag = "custom" /\ Verdict(CustomChecks(It)) = "passed"
      /\ AddOp(Signature[It.tag].res, file.strings[It.ref + 1])
  BY DEF ReadCustom
<1>2. Signature[It.tag].res \in Seq(Types)
  <2>1. Signature[It.tag] \in [ins : Seq(Types), res : Seq(Types)]
    BY <1>1, SignatureAssumption
  <2> QED
    BY <2>1
<1>3. /\ ~(It.ref >= Len(file.strings))
      /\ Readable(Take(It.ins, Len(Signature[It.tag].ins)))
      /\ Settable(Take(It.outs, Len(Signature[It.tag].res)))
  BY <1>1, CustomPassed
<1>4. file.strings[It.ref + 1] \in Names
  <2>1. /\ Signatures /\ Place /\ Stack /\ body # 0 /\ blocks # <<>>
    BY <1>1 DEF ReaderInv, AtItem, Place
  <2>2. It \in MessageItem
    BY <2>1, NextItem
  <2>3. It.ref \in Nat
    BY <2>2 DEF MessageItem
  <2>4. file.strings \in Seq(Names)
    BY <2>1, FileParts
  <2> QED
    BY <1>3, <2>3, <2>4
<1>5. Readable(Take(It.ins, IF It.tag = "call" THEN Len(It.ins) ELSE Len(Signature[It.tag].ins)))
  BY <1>1, <1>3
<1>6. ReaderInv' /\ OpDone(ValuesOf(Take(It.ins, IF It.tag = "call" THEN Len(It.ins)
                                      ELSE Len(Signature[It.tag].ins))), Signature[It.tag].res,
                           file.strings[It.ref + 1])
  BY <1>1, <1>2, <1>3, <1>4, <1>5, OpAdded
<1> QED
  BY <1>1, <1>6

\* deserializeFunc keeps the invariant.
LEMMA CallRead ==
  ASSUME ReaderInv, ReadCall
  PROVE  /\ ReaderInv' /\ It.ref + 1 \in DOMAIN owned.funcs
         /\ OpDone(ValuesOf(It.ins), owned.funcs[It.ref + 1].outs, owned.funcs[It.ref + 1].name)
<1> DEFINE callee == owned.funcs[funcOps[It.ref]]
<1>1. AtItem /\ It.tag = "call" /\ Verdict(CallChecks(It)) = "passed"
      /\ AddOp(CallResults(It.ref), callee.name)
  BY DEF ReadCall
<1>2. /\ Signatures /\ Place /\ Stack /\ body # 0 /\ blocks # <<>>
  BY <1>1 DEF ReaderInv, AtItem, Place
<1>3. /\ It.ref \in DOMAIN funcOps /\ Readable(It.ins)
      /\ Settable(Take(It.outs, Len(CallResults(It.ref))))
  BY <1>1, CallPassed
<1>4. funcOps[It.ref] = It.ref + 1 /\ It.ref + 1 \in DOMAIN owned.funcs
  <2>1. owned.funcs \in Seq(Function)
    BY <1>2 DEF Signatures, Module
  <2> QED
    BY <1>2, <1>3, <2>1 DEF Signatures
<1>5. callee \in Function /\ CallResults(It.ref) = callee.outs
      /\ callee = owned.funcs[It.ref + 1]
  <2>1. owned.funcs \in Seq(Function)
    BY <1>2 DEF Signatures, Module
  <2> QED
    BY <1>4, <2>1 DEF CallResults
<1> HIDE DEF callee
<1>6. callee.name \in Names \cup {NoName} /\ callee.outs \in Seq(Types)
  BY <1>5 DEF Function
<1>7. It.ins \in Seq(Nat)
  <2>1. It \in MessageItem
    BY <1>2, NextItem
  <2> QED
    BY <2>1 DEF MessageItem
<1>8. Take(It.ins, Len(It.ins)) = It.ins
  <2>1. Len(It.ins) \in Nat
    BY <1>7
  <2> QED
    BY <1>7, <2>1, TakeSpec
<1>9. Readable(Take(It.ins, IF It.tag = "call" THEN Len(It.ins) ELSE Len(Signature[It.tag].ins)))
  BY <1>1, <1>3, <1>8
<1>10. AddOp(callee.outs, callee.name) /\ Settable(Take(It.outs, Len(callee.outs)))
  BY <1>1, <1>3, <1>5 DEF callee
<1>11. ReaderInv' /\ OpDone(ValuesOf(Take(It.ins, IF It.tag = "call" THEN Len(It.ins)
                                       ELSE Len(Signature[It.tag].ins))), callee.outs, callee.name)
  BY <1>1, <1>4, <1>5, <1>6, <1>9, <1>10, OpAdded
<1> QED
  BY <1>1, <1>4, <1>5, <1>8, <1>11

\* Types of operands and of definitions of the table.
LEMMA InTypesSpec ==
  ASSUME Signatures, Place, Stack, Binding, body # 0, blocks # <<>>, Readable(It.ins),
         NEW from \in Nat \ {0}, from <= Len(It.ins) + 1
  PROVE  InTypes(from) \in Seq(Types)
<1>1. Here \in DOMAIN Items(body) /\ It \in MessageItem
  BY NextItem
<1>2. It.ins \in Seq(Nat)
  BY <1>1 DEF MessageItem
<1> DEFINE ids == It.ins
           n == Len(ids) - from + 1
           f == [k \in 1 .. n |-> TypeAt(bound[ids[from + k - 1]])]
<1>3. \A k \in 1 .. Len(ids) : TypeAt(bound[ids[k]]) \in Types
  BY <1>1, <1>2, ValuesRead
<1>4. Len(ids) \in Nat /\ n \in Nat
  BY <1>2
<1>5. InTypes(from) = f
  BY DEF InTypes
<1>6. \A k \in 1 .. n : f[k] \in Types
  <2> TAKE k \in 1 .. n
  <2>1. from + k - 1 \in 1 .. Len(ids)
    BY <1>4
  <2>2. f[k] = TypeAt(bound[ids[from + k - 1]])
    OBVIOUS
  <2> HIDE DEF f
  <2> QED
    BY <1>3, <2>1, <2>2
<1>7. f = [k \in 1 .. n |-> f[k]]
  OBVIOUS
<1> HIDE DEF f, n
<1> QED
  BY <1>4, <1>5, <1>6, <1>7, ListSeq

\* The types that the value table gives to results are types.
LEMMA TableTypesSpec ==
  ASSUME Signatures, Place, Stack, body # 0, blocks # <<>>, InTable(It.outs)
  PROVE  TableTypes(It.outs) \in Seq(Types)
<1>1. It \in MessageItem
  BY NextItem
<1> DEFINE ids == It.outs
           n == Len(ids)
           t == Table
           f == TableTypes(ids)
           R == [type : Types, meta : Seq(Nat)]
<1>2. ids \in Seq(Nat) /\ t \in Seq(R) /\ \A k \in DOMAIN ids : ids[k] < Len(t)
  BY <1>1, BodyParts DEF MessageItem, InTable
<1>3. f = [k \in DOMAIN ids |-> t[ids[k] + 1].type]
  BY DEF TableTypes
<1> HIDE DEF ids, t, f, R
<1>4. \A k \in DOMAIN ids : t[ids[k] + 1] \in R
  <2> TAKE k \in DOMAIN ids
  <2>1. ids[k] \in Nat /\ ids[k] < Len(t)
    BY <1>2
  <2>2. ids[k] + 1 \in DOMAIN t
    BY <1>2, <2>1
  <2> QED
    BY <1>2, <2>2
<1>5. \A k \in DOMAIN ids : f[k] \in Types
  BY <1>3, <1>4 DEF R
<1>6. n \in Nat /\ DOMAIN ids = 1 .. n
  BY <1>2
<1>7. f = [k \in 1 .. n |-> f[k]]
  BY <1>3, <1>6
<1> HIDE DEF n
<1> QED
  BY <1>5, <1>6, <1>7, ListSeq DEF f, ids

\* The handlers of operations with regions.
LEMMA SwitchRead ==
  ASSUME ReaderInv, ReadSwitch
  PROVE  /\ ReaderInv'
         /\ ScfDone(TableTypes(It.outs), [r \in 1 .. RegionCount(It) |-> InTypes(2)])
<1> DEFINE n == RegionCount(It)
           todo == [r \in 1 .. n |-> InTypes(2)]
<1>1. AtItem /\ It.tag = "switch" /\ Verdict(SwitchChecks(It)) = "passed"
      /\ OpenScf(TableTypes(It.outs), todo, {1})
  BY DEF ReadSwitch
<1>2. Signatures /\ Place /\ Stack /\ Binding /\ body # 0 /\ blocks # <<>>
  BY <1>1 DEF ReaderInv, AtItem, Place
<1>3. It.ins # <<>> /\ InTable(It.outs) /\ Readable(It.ins)
  BY <1>1, SwitchPassed
<1>4. It \in MessageItem
  BY <1>2, NextItem
<1>5. It.ins \in Seq(Nat) /\ It.regions \in Seq(BOOLEAN)
  BY <1>4 DEF MessageItem
<1>6. InTypes(2) \in Seq(Types) /\ TableTypes(It.outs) \in Seq(Types)
  <2>1. 2 \in Nat \ {0} /\ 2 <= Len(It.ins) + 1
    BY <1>3, <1>5
  <2> QED
    BY <1>2, <1>3, <2>1, InTypesSpec, TableTypesSpec
<1>7. n \in Nat
  <2> DEFINE present == {r \in DOMAIN It.regions : It.regions[r]}
  <2>1. n = Cardinality(present)
    BY <1>1 DEF RegionCount
  <2>2. Len(It.regions) \in Nat /\ DOMAIN It.regions = 1 .. Len(It.regions)
    BY <1>5
  <2>3. IsFiniteSet(1 .. Len(It.regions)) /\ present \subseteq 1 .. Len(It.regions)
    BY <2>2, FS_Interval
  <2>4. IsFiniteSet(present)
    BY <2>3, FS_Subset
  <2> QED
    BY <2>1, <2>4, FS_CardinalityType
<1>8. todo \in Seq(Seq(Types)) /\ Len(todo) = n
  <2>1. todo = [r \in 1 .. n |-> todo[r]] /\ \A r \in 1 .. n : todo[r] \in Seq(Types)
    BY <1>6
  <2> HIDE DEF todo, n
  <2> QED
    BY <1>7, <2>1, ListSeq
<1> HIDE DEF todo
<1>9. ReaderInv' /\ ScfDone(TableTypes(It.outs), todo)
  BY <1>1, <1>3, <1>6, <1>8, ScfOpened DEF ScfKinds
<1> QED
  BY <1>9 DEF todo

\* deserializeFor up to its region keeps the invariant.
LEMMA ForRead ==
  ASSUME ReaderInv, ReadFor
  PROVE  /\ ReaderInv'
         /\ ScfDone(InTypes(4), << <<TypeAt(bound[It.ins[1]])>> \o InTypes(4) >>)
<1> DEFINE first == <<TypeAt(bound[It.ins[1]])>> \o InTypes(4)
           todo == <<first>>
<1>1. AtItem /\ It.tag = "for" /\ Verdict(ForChecks(It)) = "passed"
      /\ OpenScf(InTypes(4), todo, {1, 2, 3})
  BY DEF ReadFor
<1>2. Signatures /\ Place /\ Stack /\ Binding /\ body # 0 /\ blocks # <<>>
  BY <1>1 DEF ReaderInv, AtItem, Place
<1>3. ~(Len(It.ins) < 3) /\ Readable(It.ins)
  BY <1>1, ForPassed
<1>4. It \in MessageItem /\ Here \in DOMAIN Items(body)
  BY <1>2, NextItem
<1>5. It.ins \in Seq(Nat)
  BY <1>4 DEF MessageItem
<1>6. InTypes(4) \in Seq(Types)
  <2>1. 4 \in Nat \ {0} /\ 4 <= Len(It.ins) + 1
    BY <1>3, <1>5
  <2> QED
    BY <1>2, <1>3, <2>1, InTypesSpec
<1>7. TypeAt(bound[It.ins[1]]) \in Types
  <2>1. \A k \in 1 .. Len(It.ins) : TypeAt(bound[It.ins[k]]) \in Types
    BY <1>2, <1>3, <1>4, <1>5, ValuesRead
  <2>2. 1 \in 1 .. Len(It.ins)
    BY <1>3, <1>5
  <2> QED
    BY <2>1, <2>2
<1>8. first \in Seq(Types)
  <2>1. PICK t \in Types : t = TypeAt(bound[It.ins[1]])
    BY <1>7
  <2>2. <<t>> \in Seq(Types)
    OBVIOUS
  <2>3. <<t>> \o InTypes(4) \in Seq(Types)
    BY <1>6, <2>2
  <2> QED
    BY <2>1, <2>3
<1> HIDE DEF first
<1>9. todo \in Seq(Seq(Types)) /\ Len(todo) = 1
  BY <1>8
<1>10. RegionCount(It) = 1
  BY <1>1 DEF RegionCount
<1> HIDE DEF todo
<1>11. ReaderInv' /\ ScfDone(InTypes(4), todo)
  BY <1>1, <1>3, <1>6, <1>9, <1>10, ScfOpened DEF ScfKinds
<1> QED
  BY <1>11 DEF todo, first

\* deserializeWhile up to its first region keeps the invariant.
LEMMA WhileRead ==
  ASSUME ReaderInv, ReadWhile
  PROVE  /\ ReaderInv'
         /\ ScfDone(TableTypes(It.outs), <<InTypes(1), TableTypes(It.outs)>>)
<1> DEFINE outs == TableTypes(It.outs)
           ins == InTypes(1)
           todo == <<ins, outs>>
<1>1. AtItem /\ It.tag = "while" /\ Verdict(WhileChecks(It)) = "passed"
      /\ OpenScf(outs, todo, {})
  BY DEF ReadWhile
<1>2. Signatures /\ Place /\ Stack /\ Binding /\ body # 0 /\ blocks # <<>>
  BY <1>1 DEF ReaderInv, AtItem, Place
<1>3. InTable(It.outs) /\ Readable(It.ins)
  BY <1>1, WhilePassed
<1>4. It \in MessageItem
  BY <1>2, NextItem
<1>5. It.ins \in Seq(Nat)
  BY <1>4 DEF MessageItem
<1>6. ins \in Seq(Types) /\ outs \in Seq(Types)
  <2>1. 1 \in Nat \ {0} /\ 1 <= Len(It.ins) + 1
    BY <1>5
  <2> QED
    BY <1>2, <1>3, <2>1, InTypesSpec, TableTypesSpec
<1> HIDE DEF ins, outs
<1>7. todo \in Seq(Seq(Types)) /\ Len(todo) = 2
  BY <1>6
<1>8. RegionCount(It) = 2
  BY <1>1 DEF RegionCount
<1> HIDE DEF todo
<1>9. ReaderInv' /\ ScfDone(outs, todo)
  BY <1>1, <1>3, <1>6, <1>7, <1>8, ScfOpened DEF ScfKinds
<1> QED
  BY <1>9 DEF todo, ins, outs

\* The blocks of functions and regions.
LEMMA FunctionEntered ==
  ASSUME ReaderInv, EnterFunction
  PROVE  ReaderInv' /\ BlockDone(Func.ins, <<>>)
<1>1. /\ reading = "bodies" /\ blocks = <<>> /\ Func.items = <<>>
      /\ Verdict(EnterChecks(It)) = "passed" /\ OpenBlock(Func.ins, <<>>)
  BY DEF EnterFunction, AtFunctionEntry
<1>2. Signatures /\ Place /\ Stack /\ body # 0
  BY <1>1 DEF ReaderInv, Place
<1>3. It.tag = "enter" /\ Settable(It.outs)
  BY <1>1, <1>2, NextItem, EnterPassed
<1>4. Func.ins \in Seq(Types) /\ Len(It.outs) <= Len(Func.ins)
  <2>1. Func \in Function /\ Func = owned.funcs[body] /\ body \in DOMAIN owned.funcs
        /\ Here = Len(Func.items) + 1 /\ It = Items(body)[Here]
    BY <1>1, <1>2, BodyParts, NextItem DEF Func
  <2>2. It = Items(body)[1]
    BY <1>1, <2>1
  <2>3. Len(Func.ins) = Len(It.outs)
    BY <1>2, <2>1, <2>2 DEF Signatures
  <2>4. Func.ins \in Seq(Types)
    BY <2>1 DEF Function
  <2>5. Len(Func.ins) \in Nat
    BY <2>4
  <2> QED
    BY <2>3, <2>4, <2>5
<1>5. PICK below : below = <<>>
  OBVIOUS
<1>6. /\ below \in Seq(Block) /\ DOMAIN below = DOMAIN blocks /\ Len(below) = Len(blocks)
      /\ DOMAIN blocks = {} /\ OpenBlock(Func.ins, below)
  BY <1>1, <1>5
<1>7. ReaderInv' /\ BlockDone(Func.ins, below)
  BY <1>1, <1>3, <1>4, <1>6, BlockOpened
<1> QED
  BY <1>5, <1>7

\* The block of a region: the operation has one region less to come.
LEMMA RegionEntered ==
  ASSUME ReaderInv, EnterRegion
  PROVE  /\ ReaderInv' /\ Going /\ Extended(<<>>, Head(Top.todo), NoName)
         /\ DOMAIN blocks' = 1 .. Len(blocks) + 1 /\ blocks'[Len(blocks) + 1].todo = <<>>
         /\ \A k \in 1 .. Len(blocks) :
               blocks'[k].todo = IF k < Len(blocks) THEN blocks[k].todo ELSE Tail(Top.todo)
<1> DEFINE n == Len(blocks)
           below == [blocks EXCEPT ![n].todo = Tail(@)]
           types == Head(Top.todo)
<1>1. /\ reading = "bodies" /\ blocks # <<>> /\ Top.todo # <<>>
      /\ Verdict(EnterChecks(It)) = "passed" /\ OpenBlock(types, below)
  BY DEF EnterRegion, AtRegionEntry
<1>2. Signatures /\ Place /\ Stack /\ body # 0
  BY <1>1 DEF ReaderInv, Place
<1>3. /\ blocks \in Seq(Block) /\ n \in Nat /\ n \in DOMAIN blocks /\ Len(blocks) > 0
      /\ Top = blocks[n] /\ Top \in Block
  BY <1>1, <1>2 DEF Stack, Top
<1>4. /\ It.tag = "enter" /\ Settable(It.outs) /\ ~(Len(It.outs) > Len(types))
  BY <1>1, <1>2, <1>3, NextItem, EnterPassed
<1>5. Top.todo \in Seq(Seq(Types)) /\ types \in Seq(Types)
      /\ Tail(Top.todo) \in Seq(Seq(Types)) /\ Len(Tail(Top.todo)) = Len(Top.todo) - 1
  <2> DEFINE S == Seq(Types)
             todo == Top.todo
  <2>1. todo \in Seq(S) /\ todo # <<>>
    BY <1>1, <1>3 DEF Block
  <2> HIDE DEF S, todo
  <2>2. Head(todo) \in S /\ Tail(todo) \in Seq(S) /\ Len(Tail(todo)) = Len(todo) - 1
    BY <2>1
  <2> QED
    BY <2>1, <2>2 DEF S, todo
<1>6. Len(It.outs) <= Len(types)
  <2>1. It.outs \in Seq(Nat)
    BY <1>1, <1>2, NextItem DEF MessageItem
  <2> HIDE DEF types
  <2>2. Len(It.outs) \in Nat /\ Len(types) \in Nat
    BY <1>5, <2>1
  <2> QED
    BY <1>4, <2>2
<1>7. /\ below \in Seq(Block) /\ DOMAIN below = DOMAIN blocks /\ Len(below) = n
      /\ \A k \in DOMAIN blocks : k # n => below[k] = blocks[k]
      /\ below[n].enter = Top.enter /\ below[n].owner = Top.owner /\ below[n].last = Top.last
      /\ below[n].todo = Tail(Top.todo)
  <2> DEFINE t == Top
             less == [t EXCEPT !.todo = Tail(t.todo)]
  <2>1. t \in Block /\ Tail(t.todo) \in Seq(Seq(Types))
    BY <1>3, <1>5
  <2>2. below = [blocks EXCEPT ![n] = less]
    BY <1>3
  <2> HIDE DEF t, below
  <2>3. /\ less \in Block /\ less.enter = t.enter /\ less.owner = t.owner /\ less.last = t.last
        /\ less.todo = Tail(t.todo)
    BY <2>1 DEF Block
  <2> HIDE DEF less
  <2>4. /\ below \in Seq(Block) /\ DOMAIN below = DOMAIN blocks /\ Len(below) = n
        /\ \A k \in DOMAIN blocks : k # n => below[k] = blocks[k]
        /\ below[n] = less
    BY <1>3, <2>2, <2>3
  <2> QED
    BY <2>3, <2>4 DEF t
<1> HIDE DEF below, types
<1>8. ASSUME NEW k \in DOMAIN blocks
      PROVE  /\ below[k].enter = blocks[k].enter
             /\ below[k].owner = blocks[k].owner /\ below[k].last = blocks[k].last
             /\ below[k].owner = 0 => below[k].todo = <<>>
             /\ Len(below[k].todo) = IF k < Len(blocks) THEN Len(blocks[k].todo)
                                     ELSE Len(blocks[k].todo) - 1
  <2>1. blocks[k].owner = 0 => blocks[k].todo = <<>>
    BY <1>2 DEF Stack
  <2>2. CASE k = n
    <3>1. blocks[k].owner # 0 /\ blocks[k] = Top
      BY <1>1, <1>3, <2>1, <2>2
    <3>2. ~(k < Len(blocks))
      BY <1>3, <2>2
    <3>3. /\ below[k].enter = Top.enter /\ below[k].owner = Top.owner
          /\ below[k].last = Top.last /\ below[k].todo = Tail(Top.todo)
      BY <1>7, <2>2
    <3>4. Len(below[k].todo) = Len(Top.todo) - 1
      BY <1>5, <3>3
    <3> QED
      BY <3>1, <3>2, <3>3, <3>4
  <2>3. CASE k # n
    <3>1. k < n
      BY <1>3, <2>3
    <3> QED
      BY <1>7, <2>1, <2>3, <3>1
  <2> QED
    BY <2>2, <2>3
<1>9. ReaderInv' /\ BlockDone(types, below)
  BY <1>1, <1>4, <1>5, <1>6, <1>7, <1>8, BlockOpened
<1>10. \A k \in 1 .. n : below[k].todo = IF k < n THEN blocks[k].todo ELSE Tail(Top.todo)
  BY <1>3, <1>7
<1> QED
  BY <1>9, <1>10 DEF BlockDone, types

----------------------------------------------------------------------------
(* The steps between the bodies.                                           *)

\* Operands keep what they resolve to while the functions stay.
LEMMA OperandsStay ==
  ASSUME OperandsResolve, owned'.funcs = owned.funcs, file' = file
  PROVE  OperandsResolve'
<1>1. ASSUME NEW f \in DOMAIN owned'.funcs, NEW i \in DOMAIN owned'.funcs[f].items
      PROVE  Resolved(f, i, owned.funcs[f].items[i].ins)'
  <2>1. Resolved(f, i, owned'.funcs[f].items[i].ins)
    BY AllResolved
  <2> QED
    BY <2>1 DEF Resolved, Items
<1>2. (\A f \in DOMAIN owned.funcs : \A i \in DOMAIN owned.funcs[f].items :
          Resolved(f, i, owned.funcs[f].items[i].ins))'
  BY <1>1
<1> QED
  BY <1>2, AllResolved, PTL

\* A step that builds nothing.
Stays == /\ owned'.funcs = owned.funcs
         /\ UNCHANGED <<file, body, blocks, bound, funcOps>>

\* A step that builds nothing keeps the invariant when the call goes where
\* it may go.
LEMMA FuncsStay ==
  ASSUME ReaderInv, Stays, owned' \in Module,
         reading' \in {"start", "signatures", "bodies", "module", "rejected", "undefined"},
         reading' = "bodies" => body # 0,
         reading' = "signatures" => body = 0,
         reading' = "start" => body = 0 /\ owned.funcs = <<>>,
         reading' = "module" =>
            /\ body = Len(file.functions) /\ blocks = <<>> /\ (body # 0 => Func.items # <<>>)
            /\ readResult' = "success" /\ owned'.meta = Decode(file.meta),
         readResult' \in {"success", "failure"}, verifies' \in BOOLEAN,
         readResult' = "success" => readResult = "success"
  PROVE  ReaderInv'
<1>1. Signatures /\ Place /\ Stack /\ Binding /\ OperandsResolve /\ Placed /\ Called
  BY DEF ReaderInv
<1>2. Func' = Func /\ (\A f : Items(f)' = Items(f)) /\ Depths' = Depths
  BY DEF Stays, Func, Items, Depths
<1>3. Signatures'
  BY <1>1 DEF Signatures, Stays, Items
<1>4. Place'
  BY <1>1, <1>2 DEF Place, Stays, Items
<1>5. Stack'
  BY <1>1, <1>2 DEF Stack, Stays
<1>6. Binding'
  BY <1>1, <1>2 DEF Binding, Carries, Stays, Items
<1>7. OperandsResolve'
  BY <1>1, OperandsStay DEF Stays
<1>8. Called'
  BY <1>1 DEF Called, Stays, Items
<1>9. Placed'
  <2>1. ASSUME NEW f \in DOMAIN owned.funcs, NEW i \in DOMAIN owned.funcs[f].items
        PROVE  ItemPlaced(f, i)' = ItemPlaced(f, i)
    BY DEF Stays, ItemPlaced, Items, RegionOpen, OwnerOpen, InRegion, InOwner, ResultsPlaced,
           Decode
  <2>2. ASSUME NEW f \in DOMAIN owned.funcs, readResult' = "success"
        PROVE  /\ owned'.funcs[f].meta = Decode(file.functions[f].meta)'
               /\ \A i \in DOMAIN owned'.funcs[f].items : ItemPlaced(f, i)'
    BY <1>1, <2>1, <2>2 DEF Placed, Stays, Decode
  <2>3. reading' = "module" => readResult' = "success" /\ owned'.meta = Decode(file.meta)'
    BY DEF Stays, Decode
  <2> QED
    BY <2>2, <2>3 DEF Placed, Stays
<1> QED
  BY <1>3, <1>4, <1>5, <1>6, <1>7, <1>8, <1>9 DEF ReaderInv

\* The check before the first loop keeps the invariant.
LEMMA Begun == ReaderInv /\ BeginModule => ReaderInv'
<1> SUFFICES ASSUME ReaderInv, BeginModule PROVE ReaderInv'
  OBVIOUS
<1>1. reading = "start" /\ reading' \in {"signatures", "rejected"}
  BY DEF BeginModule
<1>2. Stays /\ UNCHANGED <<readResult, verifies>> /\ owned' = owned
  BY DEF BeginModule, Stays
<1>3. body = 0 /\ owned \in Module /\ readResult \in {"success", "failure"} /\ verifies \in BOOLEAN
  BY <1>1 DEF ReaderInv, Place, Signatures, Placed
<1> QED
  BY <1>1, <1>2, <1>3, FuncsStay

\* A check of a signature that fails keeps the invariant.
LEMMA SignatureStopped == ReaderInv /\ StopAtSignature => ReaderInv'
<1> SUFFICES ASSUME ReaderInv, StopAtSignature PROVE ReaderInv'
  OBVIOUS
<1>1. reading' \in Outcomes
  BY SignaturePassed DEF StopAtSignature
<1>2. Stays /\ UNCHANGED <<readResult, verifies>> /\ owned' = owned
  BY DEF StopAtSignature, Stays
<1>3. owned \in Module /\ readResult \in {"success", "failure"} /\ verifies \in BOOLEAN
  BY DEF ReaderInv, Signatures, Placed
<1> QED
  BY <1>1, <1>2, <1>3, FuncsStay DEF Outcomes

\* A check of a body that fails keeps the invariant.
LEMMA BodyStopped ==
  ASSUME ReaderInv, StopInBody
  PROVE  ReaderInv' /\ reading' \in Outcomes
<1>1. Verdict(CurrentChecks) # "passed" /\ reading' = Verdict(CurrentChecks)
  BY DEF StopInBody
<1>2. Stays /\ UNCHANGED <<readResult, verifies>> /\ owned' = owned
  BY DEF StopInBody, Stays
<1>3. owned \in Module /\ readResult \in {"success", "failure"} /\ verifies \in BOOLEAN
  BY DEF ReaderInv, Signatures, Placed
<1>4. reading' \in Outcomes
  <2>1. CASE AtFunctionEntry \/ AtRegionEntry
    BY <1>1, <2>1, EnterPassed DEF CurrentChecks
  <2>2. CASE ~(AtFunctionEntry \/ AtRegionEntry) /\ AtOwnerEnd
    BY <1>1, <2>2, FinishPassed DEF CurrentChecks
  <2>3. CASE ~(AtFunctionEntry \/ AtRegionEntry) /\ ~AtOwnerEnd /\ AtItem
    <3>1. /\ Signatures /\ Place /\ Stack /\ body # 0 /\ blocks # <<>> /\ Top.todo = <<>>
      BY <2>3 DEF ReaderInv, AtItem, Place
    <3>2. It \in MessageItem /\ It.tag # "enter"
      BY <3>1, NextItem
    <3>3. It.tag \in FlatKinds \cup {"custom", "call", "switch", "for", "while", "leave"}
      BY <3>2 DEF MessageItem, Tags, ScfKinds, Bounds
    <3>4. Verdict(ItemChecks(It)) # "passed" /\ reading' = Verdict(ItemChecks(It))
      BY <1>1, <2>3 DEF CurrentChecks
    <3>5. CASE It.tag \in FlatKinds
      <4>1. ItemChecks(It) = FlatChecks(It)
        BY <3>5, FormatAssumption DEF ItemChecks, ScfKinds, Bounds
      <4> QED
        BY <3>4, <4>1, FlatPassed
    <3>6. CASE It.tag = "custom"
      BY <3>4, <3>6, CustomPassed, FormatAssumption DEF ItemChecks
    <3>7. CASE It.tag = "call"
      BY <3>4, <3>7, CallPassed, FormatAssumption DEF ItemChecks
    <3>8. CASE It.tag = "switch"
      BY <3>4, <3>8, SwitchPassed, FormatAssumption DEF ItemChecks, ScfKinds
    <3>9. CASE It.tag = "for"
      BY <3>4, <3>9, ForPassed, FormatAssumption DEF ItemChecks, ScfKinds
    <3>10. CASE It.tag = "while"
      BY <3>4, <3>10, WhilePassed, FormatAssumption DEF ItemChecks, ScfKinds
    <3>11. CASE It.tag = "leave"
      BY <3>4, <3>11, LeavePassed, FormatAssumption DEF ItemChecks, Bounds
    <3> QED
      BY <3>3, <3>5, <3>6, <3>7, <3>8, <3>9, <3>10, <3>11
  <2> QED
    BY <2>1, <2>2, <2>3 DEF StopInBody
<1> QED
  BY <1>1, <1>2, <1>3, <1>4, FuncsStay DEF Outcomes

\* The end of deserializeModule keeps the invariant: a module is returned
\* only if all metadata could be read, that of the module included.
LEMMA ModuleFinished == ReaderInv /\ FinishModule => ReaderInv'
<1> SUFFICES ASSUME ReaderInv, FinishModule PROVE ReaderInv'
  OBVIOUS
<1> DEFINE got == Attached(<<file.meta>>)[1]
<1>1. Signatures /\ Placed /\ owned \in Module
  BY DEF ReaderInv, Signatures
<1>2. /\ blocks = <<>> /\ body = Len(file.functions) /\ (body # 0 => Func.items # <<>>)
      /\ ReadMetadata(<<file.meta>>)
      /\ owned' = [owned EXCEPT !.meta = got, !.strings = file.strings]
      /\ UNCHANGED <<file, body, blocks, bound, funcOps, verifies>>
  BY DEF FinishModule, BetweenBodies
<1>3. reading' \in {"module", "rejected"} /\ (reading' = "module" => readResult' = "success")
  BY DEF FinishModule
<1>4. /\ got \in Metadata /\ readResult' \in {"success", "failure"}
      /\ readResult' = "success" => readResult = "success" /\ got = Decode(file.meta)
  <2>1. PICK m : m = file.meta
    OBVIOUS
  <2> QED
    BY <1>1, <1>2, <2>1, FileParts, SingleRead
<1> HIDE DEF got
<1>5. owned' \in Module /\ owned'.funcs = owned.funcs /\ owned'.meta = got
  BY <1>1, <1>2, <1>4, FileParts DEF Module
<1>6. Stays /\ verifies' \in BOOLEAN
  BY <1>1, <1>2, <1>5 DEF Stays, Placed
<1> QED
  BY <1>2, <1>3, <1>4, <1>5, <1>6, FuncsStay

\* An index that is not past the end leads to an element.
LEMMA ElementAt ==
  ASSUME NEW S, NEW s \in Seq(S), NEW m \in Nat, ~(m >= Len(s))
  PROVE  m + 1 \in DOMAIN s /\ s[m + 1] \in S
OBVIOUS

\* A remainder of a number below the divisor is that number, of the divisor 0.
LEMMA SmallRemainder ==
  ASSUME NEW w \in Nat \ {0}, NEW m \in Nat
  PROVE  (m < w => m % w = m) /\ w % w = 0
OBVIOUS

\* The step adds the function of the message that is next, without items.
SignatureAdded ==
    LET n == Len(owned.funcs)
        func == file.functions[n + 1]
        types(ids) == [k \in DOMAIN ids |-> func.values[ids[k] + 1].type]
        new == owned'.funcs[n + 1]
    IN /\ body = 0 /\ UNCHANGED <<file, body, reading>>
       /\ n \in Nat /\ DOMAIN owned.funcs = 1 .. n /\ DOMAIN owned'.funcs = 1 .. n + 1
       /\ \A f \in 1 .. n : owned'.funcs[f] = owned.funcs[f]
       /\ new.name = file.strings[func.name + 1]
       /\ new.ins = types(func.items[1].outs)
       /\ new.outs = types(func.items[Len(func.items)].ins)
       /\ new.items = <<>> /\ func.items # <<>> /\ reading = "signatures"

\* A signature is read: no body has been begun, so the new function has the
\* next index, which is free because no index has wrapped.
LEMMA SignatureRead ==
  ASSUME ReaderInv, ReadSignature
  PROVE  ReaderInv' /\ SignatureAdded
<1> DEFINE func == NextSignature
           n == Len(owned.funcs)
           types(ids) == [k \in DOMAIN ids |-> func.values[ids[k] + 1].type]
           last == Len(func.items)
           got == Attached(<<func.meta>>)[1]
           new == [name  |-> file.strings[func.name + 1],
                   ins   |-> types(func.items[1].outs),
                   outs  |-> types(func.items[last].ins),
                   meta  |-> got,
                   items |-> <<>>]
           id == n % U16
<1>1. Signatures /\ Place /\ Stack /\ Binding /\ Placed
  BY DEF ReaderInv
<1>2. /\ reading = "signatures" /\ n < Len(file.functions)
      /\ Verdict(SignatureChecks(func)) = "passed"
      /\ owned' = [owned EXCEPT !.funcs = Append(owned.funcs, new)]
      /\ ReadMetadata(<<func.meta>>)
      /\ funcOps' = [x \in DOMAIN funcOps \cup {id} |-> IF x = id THEN n + 1 ELSE funcOps[x]]
      /\ UNCHANGED <<file, body, blocks, bound, verifies, reading>>
  BY Zenon DEF ReadSignature, MoreSignatures
<1>3. body = 0 /\ blocks = <<>> /\ DOMAIN bound = {}
  BY <1>1, <1>2 DEF Place
<1>4. /\ file.functions \in Seq(MessageFunction) /\ file.strings \in Seq(Names)
      /\ owned \in Module /\ owned.funcs \in Seq(Function) /\ n \in Nat
  BY <1>1, FileParts DEF Signatures, Module
<1>5. /\ n + 1 \in DOMAIN file.functions /\ func = file.functions[n + 1]
      /\ func \in MessageFunction /\ file \in Files
  <2> HIDE DEF func, n
  <2>1. ~(n >= Len(file.functions))
    <3>1. Len(file.functions) \in Nat
      BY <1>4
    <3> QED
      BY <1>2, <1>4, <3>1
  <2>2. n + 1 \in DOMAIN file.functions /\ file.functions[n + 1] \in MessageFunction
    BY <1>4, <2>1, ElementAt
  <2>3. func = file.functions[n + 1]
    BY DEF func, n, NextSignature
  <2>4. file \in Files
    BY <1>1 DEF Signatures
  <2> QED
    BY <2>2, <2>3, <2>4
<1>6. /\ func.name \in Nat /\ func.meta \in Seq(Nat) /\ func.items \in Seq(MessageItem)
      /\ func.values \in Seq([type : Types, meta : Seq(Nat)])
  BY <1>5 DEF MessageFunction
<1>7. /\ func.hasBody
      /\ \A k \in DOMAIN func.items[1].outs : ~(func.items[1].outs[k] >= Len(func.values))
      /\ \A k \in DOMAIN func.items[last].ins : ~(func.items[last].ins[k] >= Len(func.values))
      /\ ~(func.name >= Len(file.strings)) /\ ~FuncIdTaken
  BY <1>2, SignaturePassed
<1>8. func.items # <<>> /\ 1 \in DOMAIN func.items /\ last \in DOMAIN func.items
  <2>1. func.items # <<>>
    BY <1>5, <1>7, FilesAssumption DEF WellNested
  <2> HIDE DEF func
  <2> QED
    BY <1>6, <2>1
<1>9. ASSUME NEW ids \in Seq(Nat), \A k \in DOMAIN ids : ~(ids[k] >= Len(func.values))
      PROVE  types(ids) \in Seq(Types) /\ Len(types(ids)) = Len(ids)
  <2> DEFINE values == func.values
             l == Len(ids)
             t == types(ids)
  <2>1. l \in Nat /\ DOMAIN ids = 1 .. l /\ values \in Seq([type : Types, meta : Seq(Nat)])
    BY <1>6
  <2> HIDE DEF values
  <2>2. ASSUME NEW k \in 1 .. l PROVE t[k] \in Types
    <3>1. ids[k] \in Nat /\ ids[k] < Len(values)
      BY <1>9, <2>1 DEF values
    <3>2. PICK m : m = ids[k]
      OBVIOUS
    <3>3. m \in Nat /\ ~(m >= Len(values))
      BY <1>9, <2>1, <3>1, <3>2 DEF values
    <3>4. values[m + 1] \in [type : Types, meta : Seq(Nat)]
      BY <2>1, <3>3, ElementAt
    <3> QED
      BY <2>1, <3>2, <3>4 DEF values
  <2>3. t = [k \in 1 .. l |-> t[k]]
    BY <2>1
  <2> HIDE DEF t, l
  <2>4. t \in Seq(Types) /\ Len(t) = l
    BY <2>1, <2>2, <2>3, ListSeq
  <2> QED
    BY <2>4 DEF t, l
<1>10. func.items[1].outs \in Seq(Nat) /\ func.items[last].ins \in Seq(Nat)
  <2> HIDE DEF func, last
  <2>1. func.items[1] \in MessageItem /\ func.items[last] \in MessageItem
    BY <1>6, <1>8
  <2> QED
    BY <2>1 DEF MessageItem
<1>11. /\ types(func.items[1].outs) \in Seq(Types)
       /\ Len(types(func.items[1].outs)) = Len(func.items[1].outs)
       /\ types(func.items[last].ins) \in Seq(Types)
  BY <1>7, <1>9, <1>10
<1>12. file.strings[func.name + 1] \in Names
  <2>1. func.name + 1 \in DOMAIN file.strings
    BY <1>4, <1>6, <1>7
  <2> QED
    BY <1>4, <2>1
<1>13. /\ got \in Metadata /\ readResult' \in {"success", "failure"}
       /\ readResult' = "success" => readResult = "success" /\ got = Decode(func.meta)
  <2>1. PICK m : m = func.meta
    OBVIOUS
  <2> QED
    BY <1>1, <1>2, <1>6, <2>1, SingleRead
<1> HIDE DEF types, got
<1>14. new \in Function
  BY <1>11, <1>12, <1>13 DEF Function
<1>15. /\ new.items = <<>> /\ new.meta = got
       /\ Len(new.ins) = Len(func.items[1].outs)
       /\ new.name = file.strings[func.name + 1]
       /\ new.ins = types(func.items[1].outs) /\ new.outs = types(func.items[last].ins)
  BY <1>11
<1>16. n < U16 /\ id = n
  <2>1. DOMAIN funcOps = 0 .. n - 1 /\ n <= U16 /\ U16 \in Nat \ {0}
    BY <1>1, SignatureAssumption DEF Signatures
  <2>2. n % U16 \notin DOMAIN funcOps
    BY <1>7 DEF FuncIdTaken
  <2>3. n # U16
    <3> SUFFICES ASSUME n = U16 PROVE FALSE
      OBVIOUS
    <3>1. n % U16 = 0
      BY <2>1, SmallRemainder
    <3> QED
      BY <1>4, <2>1, <2>2, <3>1
  <2>4. n < U16
    <3> HIDE DEF n
    <3> QED
      BY <1>4, <2>1, <2>3
  <2>5. n % U16 = n
    BY <1>4, <2>1, <2>4, SmallRemainder
  <2> QED
    BY <2>4, <2>5
<1> HIDE DEF new, id, func
<1>17. /\ owned'.funcs \in Seq(Function) /\ Len(owned'.funcs) = n + 1
       /\ DOMAIN owned.funcs = 1 .. n /\ DOMAIN owned'.funcs = 1 .. n + 1
       /\ \A f \in 1 .. n : owned'.funcs[f] = owned.funcs[f]
       /\ owned'.funcs[n + 1] = new /\ owned' \in Module
  <2> DEFINE fs == owned.funcs
             longer == Append(fs, new)
  <2>1. /\ longer \in Seq(Function) /\ Len(longer) = n + 1 /\ DOMAIN longer = 1 .. n + 1
        /\ \A f \in 1 .. n : longer[f] = fs[f]
        /\ longer[n + 1] = new /\ DOMAIN fs = 1 .. n
    <3> HIDE DEF fs
    <3>1. fs \in Seq(Function) /\ n = Len(fs)
      BY <1>4 DEF fs
    <3> QED
      BY <1>14, <3>1
  <2> HIDE DEF longer
  <2>2. owned' \in Module /\ owned'.funcs = longer
    BY <1>2, <1>4, <2>1 DEF Module, longer
  <2> QED
    BY <2>1, <2>2
<1>18. \A f \in DOMAIN owned'.funcs : owned'.funcs[f].items = <<>>
  <2>1. \A f \in DOMAIN owned.funcs : f > 0 => owned.funcs[f].items = <<>>
    BY <1>1, <1>3 DEF Place
  <2> QED
    BY <1>4, <1>15, <1>17, <2>1
<1>19. Signatures'
  <2>1. ASSUME NEW f \in DOMAIN owned'.funcs
        PROVE  /\ file.functions[f].hasBody
               /\ Len(owned'.funcs[f].ins) = Len(Items(f)[1].outs)
    <3>1. CASE f \in 1 .. n
      BY <1>1, <1>17, <3>1 DEF Signatures
    <3>2. CASE f = n + 1
      BY <1>5, <1>7, <1>15, <1>17, <3>2 DEF Items
    <3> QED
      BY <1>4, <1>17, <3>1, <3>2
  <2>2. DOMAIN funcOps' = 0 .. (n + 1) - 1 /\ \A x \in DOMAIN funcOps' : funcOps'[x] = x + 1
    <3>1. DOMAIN funcOps = 0 .. n - 1 /\ \A x \in DOMAIN funcOps : funcOps[x] = x + 1
      BY <1>1 DEF Signatures
    <3> QED
      BY <1>2, <1>4, <1>16, <3>1
  <2>3. n + 1 <= Len(file.functions) /\ n + 1 <= U16
    BY <1>2, <1>4, <1>16, SignatureAssumption
  <2> QED
    BY <1>2, <1>5, <1>17, <2>1, <2>2, <2>3 DEF Signatures, Items
<1>20. Place'
  BY <1>1, <1>2, <1>3, <1>4, <1>17, <1>18 DEF Place
<1>21. Stack'
  BY <1>2, <1>3 DEF Stack
<1>22. Binding'
  BY <1>2, <1>3 DEF Binding
<1>23. OperandsResolve' /\ Called'
  <2>1. (\A f \in DOMAIN owned.funcs : DOMAIN owned.funcs[f].items = {})'
    BY <1>18
  <2> QED
    BY <2>1 DEF OperandsResolve, Called
<1>24. Placed'
  <2>1. ASSUME NEW f \in DOMAIN owned'.funcs, readResult' = "success"
        PROVE  owned'.funcs[f].meta = Decode(file.functions[f].meta)
    <3>1. CASE f \in 1 .. n
      BY <1>1, <1>13, <1>17, <2>1, <3>1 DEF Placed
    <3>2. CASE f = n + 1
      BY <1>5, <1>13, <1>15, <1>17, <2>1, <3>2
    <3> QED
      BY <1>4, <1>17, <3>1, <3>2
  <2>2. verifies' \in BOOLEAN /\ reading' # "module"
    BY <1>1, <1>2 DEF Placed
  <2> QED
    BY <1>2, <1>13, <1>18, <2>1, <2>2 DEF Placed, Decode
<1>25. ReaderInv'
  BY <1>19, <1>20, <1>21, <1>22, <1>23, <1>24 DEF ReaderInv
<1>26. SignatureAdded
  BY <1>2, <1>3, <1>4, <1>5, <1>8, <1>15, <1>17 DEF SignatureAdded, types, func
<1> QED
  BY <1>25, <1>26

\* The next body is begun: the last one is complete, the next one empty.
LEMMA BodyBegun == ReaderInv /\ BeginBody => ReaderInv'
<1> SUFFICES ASSUME ReaderInv, BeginBody PROVE ReaderInv'
  OBVIOUS
<1>1. Signatures /\ Place /\ Stack /\ OperandsResolve /\ Placed /\ Called
  BY DEF ReaderInv
<1>2. /\ reading \in {"signatures", "bodies"} /\ Len(owned.funcs) = Len(file.functions)
      /\ blocks = <<>> /\ (body # 0 => Func.items # <<>>)
      /\ body < Len(file.functions) /\ body' = body + 1
      /\ bound' = [x \in {} |-> <<>>] /\ reading' = "bodies"
      /\ UNCHANGED <<file, owned, blocks, funcOps, readResult, verifies>>
  BY DEF BeginBody, BetweenBodies, MoreBodies, ClearBound
<1>3. /\ file.functions \in Seq(MessageFunction) /\ owned.funcs \in Seq(Function)
      /\ body \in Nat /\ body + 1 \in DOMAIN owned.funcs /\ body + 1 \in DOMAIN file.functions
  BY <1>1, <1>2, FileParts DEF Signatures, Module, Place
<1>4. Func'.items = <<>>
  BY <1>1, <1>2, <1>3 DEF Place, Func
<1>5. Nesting(Open(Items(body + 1)), Items(body + 1)) /\ Items(body + 1) \in Seq(MessageItem)
  <2>1. file.functions[body + 1] \in MessageFunction /\ file.functions[body + 1].hasBody
        /\ file \in Files
    BY <1>1, <1>3 DEF Signatures
  <2>2. Items(body + 1) \in Seq(MessageItem)
    BY <2>1 DEF MessageFunction, Items
  <2>3. WellNested(Items(body + 1))
    BY <1>3, <2>1, FilesAssumption DEF Items
  <2> QED
    BY <2>2, <2>3, Tree
<1>6. Open(Items(body + 1))[0] = <<>> /\ Len(Items(body + 1)) \in Nat
  BY <1>5 DEF Nesting
<1>7. Signatures'
  BY <1>1, <1>2 DEF Signatures, Items
<1>8. Place'
  <2>1. ASSUME NEW f \in DOMAIN owned.funcs
        PROVE  /\ f < body + 1 => Len(owned.funcs[f].items) = Len(Items(f))
               /\ f > body + 1 => owned.funcs[f].items = <<>>
    <3>1. CASE f < body
      BY <1>1, <1>3, <3>1 DEF Place
    <3>2. CASE f = body
      <4>1. body # 0
        BY <1>3, <3>2
      <4> QED
        BY <1>1, <1>2, <1>3, <3>2, <4>1, BodyComplete DEF Func
    <3>3. CASE f > body
      BY <1>1, <1>3, <3>3 DEF Place
    <3> QED
      BY <1>3, <3>1, <3>2, <3>3
  <2>2. Depths' = <<>> /\ Len(Func.items)' = 0
    BY <1>2, <1>4 DEF Depths
  <2>3. Items(body)' = Items(body + 1)
    BY <1>2 DEF Items
  <2>4. Len(Func.items)' <= Len(Items(body)') /\ Depths' = Open(Items(body)')[Len(Func.items)']
    BY <1>6, <2>2, <2>3
  <2>5. body' \in 0 .. Len(owned.funcs)
    BY <1>2, <1>3
  <2>6. \A f \in DOMAIN owned'.funcs :
            /\ f < body' => Len(owned'.funcs[f].items) = Len(Items(f)')
            /\ f > body' => owned'.funcs[f].items = <<>>
    BY <1>2, <2>1 DEF Items
  <2> QED
    BY <1>2, <1>3, <2>4, <2>5, <2>6 DEF Place
<1>9. Stack'
  BY <1>1, <1>2 DEF Stack
<1>10. Binding'
  BY <1>2 DEF Binding
<1>11. OperandsResolve'
  BY <1>1, <1>2, OperandsStay
<1>12. Called'
  BY <1>1, <1>2 DEF Called, Items
<1>13. Placed'
  <2>1. ASSUME NEW f \in DOMAIN owned.funcs, NEW i \in DOMAIN owned.funcs[f].items
        PROVE  ItemPlaced(f, i)' = ItemPlaced(f, i)
    <3>1. RegionOpen(f, i)' = RegionOpen(f, i) /\ OwnerOpen(f, i)' = OwnerOpen(f, i)
      BY <1>2 DEF RegionOpen, OwnerOpen, InRegion, InOwner
    <3> QED
      BY <1>2, <3>1 DEF ItemPlaced, Items, ResultsPlaced, Decode
  <2>2. ASSUME NEW f \in DOMAIN owned.funcs, readResult' = "success"
        PROVE  /\ owned'.funcs[f].meta = Decode(file.functions[f].meta)'
               /\ \A i \in DOMAIN owned'.funcs[f].items : ItemPlaced(f, i)'
    BY <1>1, <1>2, <2>1, <2>2 DEF Placed, Decode
  <2> QED
    BY <1>1, <1>2, <2>2 DEF Placed
<1> QED
  BY <1>7, <1>8, <1>9, <1>10, <1>11, <1>12, <1>13 DEF ReaderInv

----------------------------------------------------------------------------
(* The invariant holds, and with it what the runs check.                   *)

\* Before the call nothing is rebuilt.
LEMMA ReaderStart == Init => ReaderInv
<1> SUFFICES ASSUME Init PROVE ReaderInv
  OBVIOUS
<1>1. /\ file \in Files /\ owned = [strings |-> <<>>, meta |-> <<>>, funcs |-> <<>>]
      /\ body = 0 /\ blocks = <<>> /\ bound = [x \in {} |-> <<>>]
      /\ funcOps = [x \in {} |-> 0] /\ readResult = "success" /\ verifies = TRUE
      /\ reading = "start"
  BY DEF Init, ReaderInit
<1>2. file \in Message /\ U16 \in Nat \ {0}
  BY <1>1, SignatureAssumption
<1>3. Len(file.functions) \in Nat
  BY <1>2 DEF Message
<1>4. owned \in Module /\ owned.funcs = <<>> /\ Len(owned.funcs) = 0
  <2>1. <<>> \in Seq(Names) /\ <<>> \in Seq(Entry) /\ <<>> \in Seq(Function)
    OBVIOUS
  <2>2. <<>> \in Metadata
    BY <2>1 DEF Metadata
  <2> QED
    BY <1>1, <2>1, <2>2 DEF Module
<1>5. Signatures
  BY <1>1, <1>2, <1>3, <1>4 DEF Signatures
<1>6. Place
  BY <1>1, <1>4 DEF Place
<1>7. Stack /\ Binding
  BY <1>1 DEF Stack, Binding
<1>8. OperandsResolve /\ Called /\ Placed
  BY <1>1, <1>4 DEF OperandsResolve, Called, Placed
<1> QED
  BY <1>5, <1>6, <1>7, <1>8 DEF ReaderInv

\* Every action keeps the invariant.
LEMMA ReaderStep == ReaderInv /\ [ReaderNext]_readVars => ReaderInv'
<1> SUFFICES ASSUME ReaderInv, [ReaderNext]_readVars PROVE ReaderInv'
  OBVIOUS
<1>1. CASE BeginModule
  BY <1>1, Begun
<1>2. CASE ReadSignature
  BY <1>2, SignatureRead
<1>3. CASE StopAtSignature
  BY <1>3, SignatureStopped
<1>4. CASE BeginBody
  BY <1>4, BodyBegun
<1>5. CASE EnterFunction
  BY <1>5, FunctionEntered
<1>6. CASE EnterRegion
  BY <1>6, RegionEntered
<1>7. CASE LeaveRegion
  BY <1>7, RegionLeft
<1>8. CASE ReadFlatOp
  BY <1>8, FlatRead
<1>9. CASE ReadCustom
  BY <1>9, CustomRead
<1>10. CASE ReadCall
  BY <1>10, CallRead
<1>11. CASE ReadSwitch
  BY <1>11, SwitchRead
<1>12. CASE ReadFor
  BY <1>12, ForRead
<1>13. CASE ReadWhile
  BY <1>13, WhileRead
<1>14. CASE FinishScf
  BY <1>14, ScfFinished
<1>15. CASE StopInBody
  BY <1>15, BodyStopped
<1>16. CASE FinishModule
  BY <1>16, ModuleFinished
<1>17. CASE UNCHANGED readVars
  <2>1. UNCHANGED <<file, owned, body, blocks, bound, funcOps, readResult, verifies, reading>>
    BY <1>17 DEF readVars, readerVars
  <2>2. Stays /\ owned' = owned /\ UNCHANGED <<readResult, verifies, reading>>
    BY <2>1 DEF Stays
  <2>3. /\ owned \in Module /\ readResult \in {"success", "failure"} /\ verifies \in BOOLEAN
        /\ reading \in {"start", "signatures", "bodies", "module", "rejected", "undefined"}
        /\ reading = "bodies" => body # 0
        /\ reading = "signatures" => body = 0
        /\ reading = "start" => body = 0 /\ owned.funcs = <<>>
        /\ reading = "module" =>
              /\ body = Len(file.functions) /\ blocks = <<>> /\ (body # 0 => Func.items # <<>>)
              /\ readResult = "success" /\ owned.meta = Decode(file.meta)
    BY DEF ReaderInv, Signatures, Place, Placed
  <2> QED
    BY <2>2, <2>3, FuncsStay
<1> QED
  BY <1>1, <1>2, <1>3, <1>4, <1>5, <1>6, <1>7, <1>8, <1>9, <1>10, <1>11, <1>12, <1>13, <1>14,
     <1>15, <1>16, <1>17 DEF ReaderNext

\* The invariant holds in every reachable state.
LEMMA ReaderInvariant == Spec => []ReaderInv
BY ReaderStart, ReaderStep, PTL DEF Spec

\* What is bound is a value of the module, under an index of the message.
LEMMA BoundTyped ==
  ASSUME Signatures, Place, Binding
  PROVE  DOMAIN bound \subseteq Nat /\ Range(bound) \subseteq Value
<1> SUFFICES ASSUME NEW x \in DOMAIN bound PROVE x \in Nat /\ bound[x] \in Value
  BY DEF Range
<1> DEFINE v == bound[x]
           items == Items(body)
<1>1. Carries(v, x)
  BY DEF Binding
<1>2. body # 0
  BY DEF Place
<1>3. Func.items \in Seq(Item) /\ items \in Seq(MessageItem) /\ Len(Func.items) <= Len(items)
  BY <1>2, BodyParts DEF Place
<1>4. /\ v \in Value /\ v[2] \in DOMAIN Func.items /\ v[3] \in DOMAIN items[v[2]].outs
      /\ items[v[2]].outs[v[3]] = x
  BY <1>1 DEF Carries
<1> HIDE DEF v, items
<1>5. v[2] \in DOMAIN items
  BY <1>3, <1>4
<1>6. items[v[2]] \in MessageItem
  BY <1>3, <1>5
<1>7. items[v[2]].outs \in Seq(Nat)
  BY <1>6 DEF MessageItem
<1>8. x \in Nat
  BY <1>4, <1>7
<1> QED
  BY <1>4, <1>8 DEF v

\* The reader's variables keep their kinds (ReaderTypeOK): the context's tables
\* only lead to values and functions that exist.
THEOREM ReaderTypeCorrect == Spec => []ReaderTypeOK
<1>1. ASSUME ReaderInv PROVE ReaderTypeOK
  <2>1. Signatures /\ Place /\ Stack /\ Binding /\ Placed
    BY <1>1 DEF ReaderInv
  <2>2. file \in Message
    BY <2>1, FileParts
  <2>3. owned \in [strings : Seq(Names), meta : Metadata, funcs : Seq(Function)]
    BY <2>1 DEF Signatures, Module
  <2>4. DOMAIN bound \subseteq Nat /\ Range(bound) \subseteq Value
    BY <2>1, BoundTyped
  <2>5. DOMAIN funcOps \subseteq 0 .. U16 - 1 /\ Range(funcOps) \subseteq DOMAIN owned.funcs
    <3>1. owned.funcs \in Seq(Function)
      BY <2>3
    <3> DEFINE n == Len(owned.funcs)
    <3>2. /\ n \in Nat /\ DOMAIN owned.funcs = 1 .. n /\ n <= U16 /\ U16 \in Nat
          /\ DOMAIN funcOps = 0 .. n - 1 /\ \A x \in DOMAIN funcOps : funcOps[x] = x + 1
      BY <2>1, <3>1, SignatureAssumption DEF Signatures
    <3> HIDE DEF n
    <3> QED
      BY <3>2 DEF Range
  <2> QED
    BY <2>1, <2>2, <2>3, <2>4, <2>5 DEF ReaderTypeOK, Place, Stack, Placed
<1> QED
  BY <1>1, ReaderInvariant, PTL

\* Every operand of the rebuilt module is the definition that carries its
\* index, in the same function and before the use (OperandsResolve).
THEOREM OperandsResolved == Spec => []OperandsResolve
<1>1. ReaderInv => OperandsResolve
  BY DEF ReaderInv
<1> QED
  BY <1>1, ReaderInvariant, PTL

\* When a module is returned no block is open, so every item has its metadata.
LEMMA Annotations == ReaderInv => MetadataPlaced
<1>1. ASSUME ReaderInv, reading = "module"
      PROVE  /\ owned.meta = Decode(file.meta)
             /\ \A f \in DOMAIN owned.funcs :
                   /\ owned.funcs[f].meta = Decode(file.functions[f].meta)
                   /\ \A i \in DOMAIN owned.funcs[f].items :
                         LET new == owned.funcs[f].items[i]
                             old == file.functions[f].items[i]
                         IN /\ new.meta = Decode(old.meta)
                            /\ \A k \in DOMAIN old.outs \cap DOMAIN new.res :
                                  new.res[k].meta
                                     = Decode(file.functions[f].values[old.outs[k] + 1].meta)
  <2>1. Place /\ Placed
    BY <1>1 DEF ReaderInv
  <2>2. blocks = <<>> /\ readResult = "success" /\ owned.meta = Decode(file.meta)
    BY <1>1, <2>1 DEF Place, Placed
  <2>3. ASSUME NEW f \in DOMAIN owned.funcs, NEW i \in DOMAIN owned.funcs[f].items
        PROVE  /\ owned.funcs[f].items[i].meta = Decode(Items(f)[i].meta)
               /\ ResultsPlaced(owned.funcs[f].items[i].res, Items(f)[i],
                                file.functions[f].values)
    <3>1. ItemPlaced(f, i)
      BY <2>1, <2>2 DEF Placed
    <3>2. ~RegionOpen(f, i) /\ ~OwnerOpen(f, i)
      BY <2>2 DEF RegionOpen, OwnerOpen, InRegion, InOwner
    <3> QED
      BY <3>1, <3>2 DEF ItemPlaced
  <2>4. \A f \in DOMAIN owned.funcs : owned.funcs[f].meta = Decode(file.functions[f].meta)
    BY <2>1, <2>2 DEF Placed
  <2> QED
    BY <2>2, <2>3, <2>4 DEF Items, ResultsPlaced
<1> QED
  BY <1>1 DEF MetadataPlaced

\* In a module that is returned every owner carries the metadata the message
\* gives it (MetadataPlaced): no region is open and no operation unfinished.
THEOREM MetadataInPlace == Spec => []MetadataPlaced
BY Annotations, ReaderInvariant, PTL

\* When a module is returned the last body that was begun is complete.
LEMMA Completion == ReaderInv => CallsResolve
<1>1. ASSUME ReaderInv, reading = "module"
      PROVE  /\ Len(owned.funcs) = Len(file.functions)
             /\ \A f \in DOMAIN owned.funcs :
                   Len(owned.funcs[f].items) = Len(file.functions[f].items)
  <2>1. Signatures /\ Place
    BY <1>1 DEF ReaderInv
  <2>2. owned.funcs \in Seq(Function) /\ file.functions \in Seq(MessageFunction)
    BY <2>1, FileParts DEF Signatures, Module
  <2> DEFINE n == Len(owned.funcs)
             m == Len(file.functions)
  <2>3. n \in Nat /\ m \in Nat /\ DOMAIN owned.funcs = 1 .. n
    BY <2>2
  <2>4. /\ body = m /\ blocks = <<>> /\ (body # 0 => Func.items # <<>>)
        /\ body \in 0 .. n /\ n <= m
    BY <1>1, <2>1 DEF Place, Signatures
  <2>5. ASSUME NEW f \in DOMAIN owned.funcs
        PROVE  Len(owned.funcs[f].items) = Len(Items(f))
    <3>1. CASE f < body
      BY <2>1, <3>1 DEF Place
    <3>2. CASE f = body
      <4>1. body # 0
        BY <2>3, <3>2
      <4> QED
        BY <2>1, <2>4, <3>2, <4>1, BodyComplete DEF Func
    <3> HIDE DEF n, m
    <3> QED
      BY <2>3, <2>4, <3>1, <3>2
  <2>6. n = m
    <3> HIDE DEF n, m
    <3> QED
      BY <2>3, <2>4
  <2> QED
    BY <2>5, <2>6 DEF Items
<1>2. ReaderInv => Called
  BY DEF ReaderInv
<1> QED
  BY <1>1, <1>2 DEF CallsResolve, Called, Items

\* A module that is returned has every function of the message, complete, and
\* its calls call what the message calls (CallsResolve).
THEOREM CallsResolved == Spec => []CallsResolve
BY Completion, ReaderInvariant, PTL

----------------------------------------------------------------------------
(***************************************************************************)
(* What the reader makes of a message that encodes a module: that module.  *)
(*                                                                         *)
(* A module p is given with, for each of its functions, the types of the   *)
(* block arguments that are still to come after each item of its body, for *)
(* every region that is open there.                                        *)
(***************************************************************************)

\* The types of operands, in the body they belong to, and of the arguments of
\* the regions of an operation, as the verifier requires them.
OperandTypes(items, i) ==
    [k \in DOMAIN items[i].ins |->
        TypesOf(items[items[i].ins[k][2]].res)[items[i].ins[k][3]]]
RegionTypes(items, i) ==
    LET ins == OperandTypes(items, i)
    IN CASE items[i].tag = "switch" -> [r \in DOMAIN items[i].regions |-> Tail(ins)]
         [] items[i].tag = "for"    -> << <<ins[1]>> \o SubSeq(ins, 4, Len(ins)) >>
         [] items[i].tag = "while"  -> <<ins, TypesOf(items[i].res)>>

\* What is still to come after an item.
AfterTypes(open, items, i) ==
    CASE items[i].tag = "enter"     ->
            Append([k \in DOMAIN open |-> IF k < Len(open) THEN open[k] ELSE Tail(open[k])], <<>>)
      [] items[i].tag = "leave"     -> SubSeq(open, 1, Len(open) - 1)
      [] items[i].tag \in ScfKinds  -> [open EXCEPT ![Len(open)] = RegionTypes(items, i)]
      [] OTHER                      -> open
Regions(open, items) ==
    /\ open \in [0 .. Len(items) -> Seq(Seq(Seq(Types)))]
    /\ open[0] = <<>>
    /\ \A i \in DOMAIN items :
          /\ open[i] = AfterTypes(open[i - 1], items, i)
          /\ i = 1 \/ open[i - 1] # <<>>
          /\ items[i].tag = "enter" <=> i = 1 \/ open[i - 1][Len(open[i - 1])] # <<>>
          /\ items[i].tag = "enter" /\ i # 1 =>
                TypesOf(items[i].res) = Head(open[i - 1][Len(open[i - 1])])

\* The operand v of an item of the module, and the index x in the message.
Leads(f, v, x) ==
    /\ v[1] = f
    /\ v[2] \in DOMAIN Items(f) /\ v[3] \in DOMAIN Items(f)[v[2]].outs
    /\ Items(f)[v[2]].outs[v[3]] = x

\* The message holds an item of the module, which the verifier accepts.
EncodesItem(p, f, i) ==
    LET items == p.funcs[f].items
        old == items[i]
        new == Items(f)[i]
        table == file.functions[f].values
        types == OperandTypes(items, i)
    IN /\ new.tag = old.tag /\ new.regions = old.regions /\ Decode(new.meta) = old.meta
       /\ Len(new.ins) = Len(old.ins)
       /\ \A k \in DOMAIN old.ins : Leads(f, old.ins[k], new.ins[k])
       /\ Len(new.outs) = Len(old.res)
       /\ \A k \in DOMAIN old.res :
             /\ table[new.outs[k] + 1].type = old.res[k].type
             /\ Decode(table[new.outs[k] + 1].meta) = old.res[k].meta
       /\ old.tag \notin {"custom", "call"} => old.ref = NoName
       /\ old.tag = "custom" => file.strings[new.ref + 1] = old.ref
       /\ old.tag = "call" => /\ p.funcs[new.ref + 1].name = old.ref
                              /\ TypesOf(old.res) = p.funcs[new.ref + 1].outs
       /\ old.tag \in FlatKinds \cup {"custom"} =>
             /\ Len(old.ins) = Len(Signature[old.tag].ins)
             /\ TypesOf(old.res) = Signature[old.tag].res
       /\ old.tag = "switch" => RegionCount(new) = Len(old.regions)
       /\ old.tag = "for" => TypesOf(old.res) = SubSeq(types, 4, Len(types))
       /\ old.tag = "enter" => old.ins = <<>>
       /\ old.tag = "leave" => old.res = <<>>

\* An index is defined once.
DefinedOnce(f) ==
    \A i, j \in DOMAIN Items(f) :
        \A k \in DOMAIN Items(f)[i].outs : \A l \in DOMAIN Items(f)[j].outs :
            Items(f)[i].outs[k] = Items(f)[j].outs[l] => i = j /\ k = l

EncodesFunction(p, f) ==
    LET old == p.funcs[f]
        new == file.functions[f]
        last == Items(f)[Len(Items(f))]
    IN /\ file.strings[new.name + 1] = old.name
       /\ Decode(new.meta) = old.meta
       /\ Len(new.items) = Len(old.items)
       /\ old.ins = TypesOf(old.items[1].res)
       /\ old.outs = [k \in DOMAIN last.ins |-> new.values[last.ins[k] + 1].type]
       /\ DefinedOnce(f)
       /\ \A i \in DOMAIN old.items : EncodesItem(p, f, i)

Encodes(p, open) ==
    /\ p \in Module
    /\ file.strings = p.strings
    /\ Decode(file.meta) = p.meta
    /\ Len(file.functions) = Len(p.funcs)
    /\ \A f \in DOMAIN p.funcs : EncodesFunction(p, f) /\ Regions(open[f], p.funcs[f].items)

\* What is rebuilt is that module, but for its metadata; so are the types of
\* the block arguments that the reader expects.
Same(new, old) ==
    /\ new.tag = old.tag /\ new.ins = old.ins /\ new.ref = old.ref
    /\ new.regions = old.regions /\ TypesOf(new.res) = TypesOf(old.res)
SameSignature(new, old) == new.name = old.name /\ new.ins = old.ins /\ new.outs = old.outs
SameItems(p) ==
    \A f \in DOMAIN owned.funcs :
        /\ SameSignature(owned.funcs[f], p.funcs[f])
        /\ \A i \in DOMAIN owned.funcs[f].items :
              Same(owned.funcs[f].items[i], p.funcs[f].items[i])
Expects(open) ==
    body # 0 =>
        /\ DOMAIN blocks = DOMAIN open[body][Len(Func.items)]
        /\ \A k \in DOMAIN blocks : blocks[k].todo = open[body][Len(Func.items)][k]
Rebuilds(p, open) ==
    /\ Encodes(p, open)
    /\ SameItems(p)
    /\ Expects(open)
    /\ reading = "module" => owned.strings = file.strings

\* The message does not change, so neither does what it encodes.
LEMMA EncodesStays ==
  ASSUME NEW p, NEW open, Encodes(p, open), file' = file
  PROVE  Encodes(p, open)'
<1>1. \A f : Items(f)' = Items(f)
  BY DEF Items
<1>2. \A m : Decode(m)' = Decode(m)
  BY DecodeKept
<1>3. \A f, v, x : Leads(f, v, x)' <=> Leads(f, v, x)
  BY <1>1 DEF Leads
<1>4. \A f : DefinedOnce(f)' <=> DefinedOnce(f)
  BY <1>1 DEF DefinedOnce
<1>5. \A f, i : EncodesItem(p, f, i)' <=> EncodesItem(p, f, i)
  <2> TAKE f, i
  <2> QED
    BY DEF EncodesItem, Items, Decode, Leads
<1>6. \A f : EncodesFunction(p, f)' <=> EncodesFunction(p, f)
  BY <1>1, <1>2, <1>4, <1>5 DEF EncodesFunction
<1> QED
  BY <1>2, <1>6 DEF Encodes

\* The parts of the module are of their kinds.
LEMMA EncodedParts ==
  ASSUME NEW p, NEW open, Encodes(p, open), Signatures, NEW f \in DOMAIN file.functions
  PROVE  /\ f \in Nat \ {0} /\ f \in DOMAIN p.funcs /\ p.funcs \in Seq(Function)
         /\ p.funcs[f] \in Function /\ p.funcs[f].items \in Seq(Item)
         /\ EncodesFunction(p, f) /\ Regions(open[f], p.funcs[f].items)
         /\ Len(Items(f)) = Len(p.funcs[f].items)
         /\ DOMAIN Items(f) = DOMAIN p.funcs[f].items
         /\ Items(f) \in Seq(MessageItem)
<1>1. p.funcs \in Seq(Function) /\ Len(file.functions) = Len(p.funcs)
  BY DEF Encodes, Module
<1>2. file.functions \in Seq(MessageFunction)
  BY FileParts
<1>4. f \in Nat \ {0} /\ f \in DOMAIN p.funcs
  BY <1>1, <1>2
<1>5. p.funcs[f] \in Function /\ file.functions[f] \in MessageFunction
  BY <1>1, <1>2, <1>4
<1>6. p.funcs[f].items \in Seq(Item) /\ Items(f) \in Seq(MessageItem)
  BY <1>5 DEF Function, MessageFunction, Items
<1>7. EncodesFunction(p, f) /\ Regions(open[f], p.funcs[f].items)
  BY <1>4 DEF Encodes
<1>8. Len(Items(f)) = Len(p.funcs[f].items)
  BY <1>7 DEF EncodesFunction, Items
<1> QED
  BY <1>1, <1>4, <1>5, <1>6, <1>7, <1>8

\* The parts of the module that correspond to a function rebuilt are of their kinds.
LEMMA ModuleParts ==
  ASSUME NEW p, NEW open, Encodes(p, open), Signatures, NEW f \in DOMAIN owned.funcs
  PROVE  /\ f \in Nat \ {0} /\ f \in DOMAIN p.funcs /\ p.funcs \in Seq(Function)
         /\ p.funcs[f] \in Function /\ p.funcs[f].items \in Seq(Item)
         /\ EncodesFunction(p, f) /\ Regions(open[f], p.funcs[f].items)
         /\ Len(Items(f)) = Len(p.funcs[f].items)
         /\ DOMAIN Items(f) = DOMAIN p.funcs[f].items
         /\ Items(f) \in Seq(MessageItem)
<1>1. /\ file.functions \in Seq(MessageFunction) /\ owned.funcs \in Seq(Function)
      /\ Len(owned.funcs) <= Len(file.functions)
  BY FileParts DEF Signatures, Module
<1>2. f \in DOMAIN file.functions
  BY <1>1
<1> QED
  BY <1>2, EncodedParts

\* The item that is read next is the item of the module at that place.
LEMMA ItemEncoded ==
  ASSUME NEW p, NEW open, Encodes(p, open), Signatures, Place, Stack, body # 0,
         blocks # <<>> \/ Func.items = <<>>
  PROVE  LET items == p.funcs[body].items
         IN /\ items \in Seq(Item) /\ Here \in DOMAIN items /\ items[Here] \in Item
            /\ EncodesItem(p, body, Here) /\ It = Items(body)[Here] /\ It \in MessageItem
            /\ It.tag = items[Here].tag /\ It.regions = items[Here].regions
            /\ DOMAIN It.ins = DOMAIN items[Here].ins /\ Len(It.ins) = Len(items[Here].ins)
            /\ DOMAIN It.outs = DOMAIN items[Here].res /\ Len(It.outs) = Len(items[Here].res)
<1>1. body \in DOMAIN owned.funcs
  BY BodyParts
<1>2. Here \in DOMAIN Items(body) /\ It = Items(body)[Here] /\ It \in MessageItem
  BY NextItem
<1>3. /\ p.funcs[body].items \in Seq(Item) /\ EncodesFunction(p, body)
      /\ Here \in DOMAIN p.funcs[body].items
  BY <1>1, <1>2, ModuleParts
<1>4. EncodesItem(p, body, Here) /\ p.funcs[body].items[Here] \in Item
  BY <1>3 DEF EncodesFunction
<1>5. /\ It.tag = p.funcs[body].items[Here].tag /\ It.regions = p.funcs[body].items[Here].regions
      /\ Len(It.ins) = Len(p.funcs[body].items[Here].ins)
      /\ Len(It.outs) = Len(p.funcs[body].items[Here].res)
  BY <1>2, <1>4 DEF EncodesItem
<1>6. /\ p.funcs[body].items[Here].ins \in Seq(Value) /\ p.funcs[body].items[Here].res \in Seq(Def)
      /\ It.ins \in Seq(Nat) /\ It.outs \in Seq(Nat)
  BY <1>2, <1>4 DEF Item, MessageItem
<1> QED
  BY <1>2, <1>3, <1>4, <1>5, <1>6

\* Two items that define the index of an operand are the same, so what is
\* bound to the index is the operand of the module.
LEMMA OperandsSame ==
  ASSUME NEW p, NEW open, Rebuilds(p, open), Signatures, Place, Stack, Binding, body # 0,
         blocks # <<>>, Readable(It.ins)
  PROVE  LET items == p.funcs[body].items
         IN /\ ValuesOf(It.ins) = items[Here].ins
            /\ \A k \in DOMAIN It.ins : TypeAt(bound[It.ins[k]]) = OperandTypes(items, Here)[k]
<1> DEFINE items == p.funcs[body].items
<1>1. Encodes(p, open)
  BY DEF Rebuilds
<1>2. /\ items \in Seq(Item) /\ Here \in DOMAIN items /\ items[Here] \in Item
      /\ EncodesItem(p, body, Here) /\ It = Items(body)[Here] /\ It \in MessageItem
      /\ DOMAIN It.ins = DOMAIN items[Here].ins
  BY <1>1, ItemEncoded
<1>3. /\ Here \in DOMAIN Items(body) /\ Items(body) \in Seq(MessageItem)
      /\ body \in DOMAIN owned.funcs /\ Func = owned.funcs[body] /\ Func.items \in Seq(Item)
  BY NextItem, BodyParts DEF Func
<1>4. EncodesFunction(p, body) /\ DOMAIN Items(body) = DOMAIN items
  BY <1>1, <1>3, ModuleParts
<1>5. ASSUME NEW k \in DOMAIN It.ins
      PROVE  /\ bound[It.ins[k]] = items[Here].ins[k]
             /\ TypeAt(bound[It.ins[k]]) = OperandTypes(items, Here)[k]
  <2> DEFINE v == bound[It.ins[k]]
             w == items[Here].ins[k]
  <2>1. It.ins \in Seq(Nat) /\ It.ins[k] \in DOMAIN bound
    BY <1>2 DEF MessageItem, Readable, Range
  <2>2. Carries(v, It.ins[k])
    BY <2>1 DEF Binding
  <2>3. Leads(body, w, It.ins[k])
    BY <1>2 DEF EncodesItem
  <2>4. w \in Value
    <3>1. items[Here].ins \in Seq(Value)
      BY <1>2 DEF Item
    <3> QED
      BY <1>2, <3>1
  <2>5. /\ v \in Value /\ v[1] = body /\ v[2] \in DOMAIN Func.items
        /\ v[3] \in DOMAIN Func.items[v[2]].res
        /\ v[3] \in DOMAIN Items(body)[v[2]].outs /\ Items(body)[v[2]].outs[v[3]] = It.ins[k]
    BY <2>2 DEF Carries
  <2>6. /\ w[1] = body /\ w[2] \in DOMAIN Items(body) /\ w[3] \in DOMAIN Items(body)[w[2]].outs
        /\ Items(body)[w[2]].outs[w[3]] = It.ins[k]
    BY <2>3 DEF Leads
  <2>7. v[2] \in DOMAIN Items(body)
    BY <1>3, <2>5 DEF Place
  <2>8. v[2] = w[2] /\ v[3] = w[3]
    <3>1. DefinedOnce(body)
      BY <1>4 DEF EncodesFunction
    <3> HIDE DEF v, w
    <3>2. \A m \in DOMAIN Items(body)[v[2]].outs : \A l \in DOMAIN Items(body)[w[2]].outs :
             Items(body)[v[2]].outs[m] = Items(body)[w[2]].outs[l] => v[2] = w[2] /\ m = l
      BY <2>6, <2>7, <3>1 DEF DefinedOnce
    <3> QED
      BY <2>5, <2>6, <3>2
  <2>9. v = <<v[1], v[2], v[3]>> /\ w = <<w[1], w[2], w[3]>>
    BY <2>4, <2>5 DEF Value
  <2>10. v = w
    BY <2>5, <2>6, <2>8, <2>9
  <2>11. Same(Func.items[v[2]], items[v[2]])
    BY <1>3, <2>5 DEF Rebuilds, SameItems
  <2>12. TypesOf(Func.items[v[2]].res)[v[3]] = Func.items[v[2]].res[v[3]].type
    BY <2>5 DEF TypesOf
  <2>13. TypeAt(v) = TypesOf(items[v[2]].res)[v[3]]
    BY <2>11, <2>12 DEF TypeAt, Same
  <2>14. OperandTypes(items, Here)[k] = TypesOf(items[w[2]].res)[w[3]]
    BY <1>2 DEF OperandTypes
  <2> QED
    BY <2>10, <2>13, <2>14
<1>6. ValuesOf(It.ins) = [k \in DOMAIN It.ins |-> items[Here].ins[k]]
  BY <1>5 DEF ValuesOf
<1>7. items[Here].ins = [k \in DOMAIN It.ins |-> items[Here].ins[k]]
  <2>1. items[Here].ins \in Seq(Value)
    BY <1>2 DEF Item
  <2> QED
    BY <1>2, <2>1
<1> QED
  BY <1>5, <1>6, <1>7

\* The types of a part of the operands.
LEMMA InTypesSame ==
  ASSUME NEW p, NEW open, Rebuilds(p, open), Signatures, Place, Stack, Binding, body # 0,
         blocks # <<>>, Readable(It.ins), NEW from \in Nat \ {0}, from <= Len(It.ins) + 1
  PROVE  LET types == OperandTypes(p.funcs[body].items, Here)
         IN InTypes(from) = SubSeq(types, from, Len(types)) /\ Len(types) = Len(It.ins)
            /\ DOMAIN types = DOMAIN It.ins
<1> DEFINE types == OperandTypes(p.funcs[body].items, Here)
           n == Len(It.ins)
<1>1. Encodes(p, open)
  BY DEF Rebuilds
<1>2. It \in MessageItem /\ DOMAIN It.ins = DOMAIN p.funcs[body].items[Here].ins
  BY <1>1, ItemEncoded
<1>3. It.ins \in Seq(Nat) /\ n \in Nat /\ DOMAIN It.ins = 1 .. n
  BY <1>2 DEF MessageItem
<1>4. types = [k \in 1 .. n |-> types[k]]
  BY <1>2, <1>3 DEF OperandTypes
<1>5. \A k \in 1 .. n : TypeAt(bound[It.ins[k]]) = types[k]
  BY <1>3, OperandsSame
<1>6. InTypes(from) = [k \in 1 .. n - from + 1 |-> TypeAt(bound[It.ins[from + k - 1]])]
  BY DEF InTypes
<1> HIDE DEF types, n
<1>7. InTypes(from) = [k \in 1 .. n - from + 1 |-> types[from + k - 1]]
  <2>1. \A k \in 1 .. n - from + 1 : from + k - 1 \in 1 .. n
    BY <1>3 DEF n
  <2> QED
    BY <1>5, <1>6, <2>1
<1>8. DOMAIN types = 1 .. n /\ n \in Nat
  BY <1>3, <1>4
<1>9. types \in Seq({types[k] : k \in 1 .. n}) /\ Len(types) = n
  BY <1>4, <1>8
<1>10. SubSeq(types, from, n) = [k \in 1 .. n - from + 1 |-> types[from + k - 1]]
  BY <1>3, <1>8, <1>9 DEF n
<1> QED
  BY <1>3, <1>7, <1>8, <1>9, <1>10 DEF types, n

\* The step that adds the item of the module that is next goes on rebuilding
\* the module.
LEMMA ItemRebuilt ==
  ASSUME NEW p, NEW open, Rebuilds(p, open), Signatures, Place, Stack, Going,
         blocks # <<>> \/ Func.items = <<>>,
         NEW ins, NEW types, NEW ref, Extended(ins, types, ref),
         ins = p.funcs[body].items[Here].ins,
         types = TypesOf(p.funcs[body].items[Here].res),
         ref = p.funcs[body].items[Here].ref,
         DOMAIN blocks' = DOMAIN open[body][Here],
         \A k \in DOMAIN blocks' : blocks'[k].todo = open[body][Here][k]
  PROVE  Rebuilds(p, open)'
<1> DEFINE items == p.funcs[body].items
<1>1. Encodes(p, open) /\ SameItems(p)
  BY DEF Rebuilds
<1>2. body # 0 /\ reading = "bodies" /\ file' = file /\ body' = body /\ reading' = reading
  BY DEF Going, Place
<1>3. PICK s \in Seq(Item) :
        /\ NewItems(s) /\ KeepsItems(s) /\ DOMAIN s = 1 .. Here
        /\ s[Here].tag = It.tag /\ s[Here].regions = It.regions
        /\ s[Here].ins = ins /\ TypesOf(s[Here].res) = types /\ s[Here].ref = ref
  BY DEF Extended
<1>4. /\ body \in DOMAIN owned.funcs /\ DOMAIN owned'.funcs = DOMAIN owned.funcs
      /\ Func'.items = s /\ owned'.funcs[body].items = s
      /\ \A f \in DOMAIN owned.funcs :
            /\ f # body => owned'.funcs[f] = owned.funcs[f]
            /\ owned'.funcs[f].name = owned.funcs[f].name
            /\ owned'.funcs[f].ins = owned.funcs[f].ins
            /\ owned'.funcs[f].outs = owned.funcs[f].outs
  BY <1>3, ItemsChanged
<1>5. It.tag = items[Here].tag /\ It.regions = items[Here].regions
  BY <1>1, <1>2, ItemEncoded
<1>6. /\ Func = owned.funcs[body] /\ Func.items \in Seq(Item)
      /\ Here = Len(Func.items) + 1 /\ Here \in Nat \ {0}
      /\ DOMAIN Func.items = 1 .. Here - 1
  <2>1. Func = owned.funcs[body] /\ Func.items \in Seq(Item) /\ Here = Len(Func.items) + 1
    BY <1>2, BodyParts DEF Func
  <2> DEFINE n == Len(Func.items)
  <2>2. n \in Nat /\ DOMAIN Func.items = 1 .. n
    <3>1. Func.items \in Seq(Item)
      BY <2>1
    <3> HIDE <2>1
    <3> QED
      BY <3>1
  <2>4. Here = n + 1
    BY <2>1
  <2> HIDE DEF n
  <2>3. Here - 1 = n /\ Here \in Nat \ {0}
    BY <2>2, <2>4
  <2> QED
    BY <2>1, <2>2, <2>3
<1>7. ASSUME NEW i \in DOMAIN s PROVE Same(s[i], items[i])
  <2>1. CASE i = Here
    BY <1>3, <1>5, <2>1 DEF Same
  <2>2. CASE i # Here
    <3>1. i \in DOMAIN Func.items
      <4>1. i \in 1 .. Here /\ Here \in Nat \ {0}
        BY <1>3, <1>6
      <4>2. i \in 1 .. Here - 1
        BY <2>2, <4>1
      <4> QED
        BY <1>6, <4>2
    <3>2. Keeps(s[i], Func.items[i]) /\ Same(Func.items[i], items[i])
      BY <1>1, <1>3, <1>4, <1>6, <3>1 DEF KeepsItems, SameItems
    <3> QED
      BY <3>2 DEF Keeps, Same
  <2> QED
    BY <2>1, <2>2
<1>8. SameItems(p)'
  <2> SUFFICES ASSUME NEW f \in DOMAIN owned'.funcs
               PROVE  /\ SameSignature(owned'.funcs[f], p.funcs[f])
                      /\ \A i \in DOMAIN owned'.funcs[f].items :
                            Same(owned'.funcs[f].items[i], p.funcs[f].items[i])
    BY DEF SameItems
  <2>1. SameSignature(owned'.funcs[f], p.funcs[f])
    BY <1>1, <1>4 DEF SameItems, SameSignature
  <2>2. CASE f = body
    BY <1>4, <1>7, <2>1, <2>2
  <2>3. CASE f # body
    BY <1>1, <1>4, <2>1, <2>3 DEF SameItems
  <2> QED
    BY <2>2, <2>3
<1>9. Len(Func'.items) = Here
  <2>1. s \in Seq(Item) /\ DOMAIN s = 1 .. Here /\ Here \in Nat
    BY <1>3, <1>6
  <2>2. Len(s) = Here
    BY <2>1
  <2> QED
    BY <1>4, <2>2
<1>10. Expects(open)'
  BY <1>2, <1>9 DEF Expects
<1>11. Encodes(p, open)'
  BY <1>1, <1>2, EncodesStays
<1> QED
  BY <1>2, <1>8, <1>10, <1>11 DEF Rebuilds

\* What is to come when the walk is inside a block, and after its next item.
LEMMA Expected ==
  ASSUME NEW p, NEW open, Rebuilds(p, open), Signatures, Place, Stack, body # 0,
         blocks # <<>> \/ Func.items = <<>>
  PROVE  LET items == p.funcs[body].items
             now == open[body][Len(Func.items)]
         IN /\ now \in Seq(Seq(Seq(Types))) /\ DOMAIN now = DOMAIN blocks /\ Len(now) = Len(blocks)
            /\ DOMAIN blocks = 1 .. Len(blocks) /\ Len(blocks) \in Nat
            /\ \A k \in DOMAIN blocks : blocks[k].todo = now[k]
            /\ open[body][Here] = AfterTypes(now, items, Here)
            /\ blocks # <<>> => Len(blocks) \in DOMAIN blocks /\ Top.todo = now[Len(blocks)]
            /\ Here # 1 /\ items[Here].tag = "enter" =>
                  TypesOf(items[Here].res) = Head(now[Len(now)])
<1> DEFINE items == p.funcs[body].items
           now == open[body][Len(Func.items)]
<1>1. Encodes(p, open) /\ Expects(open)
  BY DEF Rebuilds
<1>2. body \in DOMAIN owned.funcs /\ Here = Len(Func.items) + 1 /\ Here \in Nat \ {0}
  BY BodyParts
<1>3. items \in Seq(Item) /\ Here \in DOMAIN items
  BY <1>1, ItemEncoded
<1>4. Regions(open[body], items)
  BY <1>1, <1>2, ModuleParts
<1>5. Here - 1 = Len(Func.items) /\ Here - 1 \in 0 .. Len(items)
  BY <1>2, <1>3, BodyParts
<1>6. now \in Seq(Seq(Seq(Types))) /\ open[body][Here] = AfterTypes(now, items, Here)
  BY <1>3, <1>4, <1>5 DEF Regions
<1>7. Here # 1 /\ items[Here].tag = "enter" => TypesOf(items[Here].res) = Head(now[Len(now)])
  BY <1>3, <1>4, <1>5 DEF Regions
<1>8. DOMAIN now = DOMAIN blocks /\ \A k \in DOMAIN blocks : blocks[k].todo = now[k]
  BY <1>1 DEF Expects
<1>9. blocks \in Seq(Block)
  BY DEF Stack
<1> HIDE DEF now, items
<1>10. DOMAIN blocks = 1 .. Len(blocks) /\ Len(blocks) \in Nat /\ Len(now) = Len(blocks)
  BY <1>6, <1>8, <1>9
<1>11. blocks # <<>> => Len(blocks) \in DOMAIN blocks /\ Top.todo = now[Len(blocks)]
  BY <1>8, <1>9, <1>10 DEF Top
<1> QED
  BY <1>6, <1>7, <1>8, <1>10, <1>11 DEF now, items

\* An instruction without regions.
LEMMA OpRebuilt ==
  ASSUME NEW p, NEW open, Rebuilds(p, open), Signatures, Place, Stack,
         blocks # <<>>, NEW ins, NEW types, NEW ref, OpDone(ins, types, ref),
         It.tag \in FlatKinds \cup {"custom", "call"},
         ins = p.funcs[body].items[Here].ins,
         types = TypesOf(p.funcs[body].items[Here].res),
         ref = p.funcs[body].items[Here].ref
  PROVE  Rebuilds(p, open)'
<1> DEFINE items == p.funcs[body].items
<1>1. Going /\ Extended(ins, types, ref) /\ SameTodo
  BY DEF OpDone
<1>2. body # 0
  BY <1>1 DEF Going, Place
<1>3. It.tag = items[Here].tag
  BY <1>2, ItemEncoded DEF Rebuilds
<1>4. open[body][Here] = open[body][Len(Func.items)]
  <2>1. items[Here].tag \notin {"enter", "leave"} \cup ScfKinds
    BY <1>3, FormatAssumption DEF Bounds, ScfKinds
  <2> QED
    BY <1>2, <2>1, Expected DEF AfterTypes
<1>5. DOMAIN blocks' = DOMAIN open[body][Here]
      /\ \A k \in DOMAIN blocks' : blocks'[k].todo = open[body][Here][k]
  BY <1>1, <1>2, <1>4, Expected DEF SameTodo
<1> QED
  BY <1>1, <1>5, ItemRebuilt

\* An operation with regions.
LEMMA ScfRebuilt ==
  ASSUME NEW p, NEW open, Rebuilds(p, open), Signatures, Place, Stack, Binding,
         blocks # <<>>, Readable(It.ins), NEW types, NEW todo, ScfDone(types, todo),
         It.tag \in ScfKinds,
         types = TypesOf(p.funcs[body].items[Here].res),
         todo = RegionTypes(p.funcs[body].items, Here)
  PROVE  Rebuilds(p, open)'
<1> DEFINE items == p.funcs[body].items
           now == open[body][Len(Func.items)]
<1>1. /\ Going /\ Extended(ValuesOf(It.ins), types, NoName)
      /\ DOMAIN blocks' = DOMAIN blocks /\ Len(blocks) \in DOMAIN blocks
      /\ blocks'[Len(blocks)].todo = todo
      /\ \A k \in DOMAIN blocks : k # Len(blocks) => blocks'[k].todo = blocks[k].todo
  BY DEF ScfDone
<1>2. body # 0
  BY <1>1 DEF Going, Place
<1>3. It.tag = items[Here].tag /\ EncodesItem(p, body, Here)
  BY <1>2, ItemEncoded DEF Rebuilds
<1>4. items[Here].ref = NoName
  BY <1>3 DEF EncodesItem, ScfKinds
<1>5. /\ now \in Seq(Seq(Seq(Types))) /\ DOMAIN now = DOMAIN blocks /\ Len(now) = Len(blocks)
      /\ \A k \in DOMAIN blocks : blocks[k].todo = now[k]
      /\ open[body][Here] = AfterTypes(now, items, Here)
  BY <1>2, Expected
<1>6. open[body][Here] = [now EXCEPT ![Len(now)] = RegionTypes(items, Here)]
  <2>1. items[Here].tag \in ScfKinds /\ items[Here].tag \notin {"enter", "leave"}
    BY <1>3 DEF ScfKinds
  <2> QED
    BY <1>5, <2>1 DEF AfterTypes
<1>7. ValuesOf(It.ins) = items[Here].ins
  BY <1>2, OperandsSame
<1> HIDE DEF now
<1>8. DOMAIN blocks' = DOMAIN open[body][Here]
      /\ \A k \in DOMAIN blocks' : blocks'[k].todo = open[body][Here][k]
  BY <1>1, <1>5, <1>6
<1> QED
  BY <1>1, <1>4, <1>7, <1>8, ItemRebuilt

\* The blocks of an operation that is complete are gone, and it is annotated.
LEMMA AnnotatedRebuilt ==
  ASSUME NEW p, NEW open, Rebuilds(p, open), Signatures, Place, Going, Annotated, SameTodo
  PROVE  Rebuilds(p, open)'
<1>1. Encodes(p, open) /\ SameItems(p) /\ Expects(open)
  BY DEF Rebuilds
<1>2. body # 0 /\ reading = "bodies" /\ file' = file /\ body' = body /\ reading' = reading
  BY DEF Going, Place
<1>3. PICK s \in Seq(Item) : NewItems(s) /\ KeepsItems(s) /\ DOMAIN s = DOMAIN Func.items
  BY DEF Annotated
<1>4. /\ body \in DOMAIN owned.funcs /\ DOMAIN owned'.funcs = DOMAIN owned.funcs
      /\ Func'.items = s /\ owned'.funcs[body].items = s
      /\ \A f \in DOMAIN owned.funcs :
            /\ f # body => owned'.funcs[f] = owned.funcs[f]
            /\ owned'.funcs[f].name = owned.funcs[f].name
            /\ owned'.funcs[f].ins = owned.funcs[f].ins
            /\ owned'.funcs[f].outs = owned.funcs[f].outs
  BY <1>3, ItemsChanged
<1>5. Func = owned.funcs[body] /\ Func.items \in Seq(Item)
  BY <1>2, BodyParts DEF Func
<1>6. ASSUME NEW i \in DOMAIN s PROVE Same(s[i], p.funcs[body].items[i])
  <2>1. Keeps(s[i], Func.items[i]) /\ Same(Func.items[i], p.funcs[body].items[i])
    BY <1>1, <1>3, <1>4, <1>5 DEF KeepsItems, SameItems
  <2> QED
    BY <2>1 DEF Keeps, Same
<1>7. SameItems(p)'
  <2> SUFFICES ASSUME NEW f \in DOMAIN owned'.funcs
               PROVE  /\ SameSignature(owned'.funcs[f], p.funcs[f])
                      /\ \A i \in DOMAIN owned'.funcs[f].items :
                            Same(owned'.funcs[f].items[i], p.funcs[f].items[i])
    BY DEF SameItems
  <2>1. SameSignature(owned'.funcs[f], p.funcs[f])
    BY <1>1, <1>4 DEF SameItems, SameSignature
  <2>2. CASE f = body
    BY <1>4, <1>6, <2>1, <2>2
  <2>3. CASE f # body
    BY <1>1, <1>4, <2>1, <2>3 DEF SameItems
  <2> QED
    BY <2>2, <2>3
<1>8. Len(Func'.items) = Len(Func.items)
  <2>1. s \in Seq(Item) /\ Func.items \in Seq(Item) /\ DOMAIN s = DOMAIN Func.items
    BY <1>3, <1>5
  <2>2. Len(s) = Len(Func.items)
    BY <2>1
  <2> QED
    BY <1>4, <2>2
<1>9. Expects(open)'
  BY <1>1, <1>2, <1>8 DEF Expects, SameTodo
<1>10. Encodes(p, open)'
  BY <1>1, <1>2, EncodesStays
<1> QED
  BY <1>2, <1>7, <1>9, <1>10 DEF Rebuilds

\* A list that is as long as it may be is taken whole.
LEMMA TakeAll ==
  ASSUME NEW S, NEW s \in Seq(S), NEW n \in Nat, Len(s) = n
  PROVE  Take(s, n) = s
BY DEF Take

\* The instructions without regions.
LEMMA FlatRebuilt ==
  ASSUME NEW p, NEW open, Rebuilds(p, open), ReaderInv, ReadFlatOp \/ ReadCustom
  PROVE  Rebuilds(p, open)'
<1> DEFINE old == p.funcs[body].items[Here]
           ref == IF It.tag = "custom" THEN file.strings[It.ref + 1] ELSE NoName
<1>1. Signatures /\ Place /\ Stack /\ Binding
  BY DEF ReaderInv
<1>2. /\ It.tag \in FlatKinds \cup {"custom"} /\ blocks # <<>> /\ reading = "bodies" /\ body # 0
      /\ ReadFlatOp => It.tag \in FlatKinds
      /\ ReadCustom => It.tag = "custom"
  BY <1>1 DEF ReadFlatOp, ReadCustom, AtItem, Place
<1>3. /\ EncodesItem(p, body, Here) /\ It = Items(body)[Here] /\ It \in MessageItem
      /\ It.tag = old.tag /\ Len(It.ins) = Len(old.ins)
  BY <1>1, <1>2, ItemEncoded DEF Rebuilds
<1>4. /\ Len(It.ins) = Len(Signature[It.tag].ins) /\ TypesOf(old.res) = Signature[It.tag].res
      /\ It.tag = "custom" => file.strings[It.ref + 1] = old.ref
      /\ It.tag # "custom" => old.ref = NoName
  BY <1>2, <1>3, FormatAssumption DEF EncodesItem
<1>5. Take(It.ins, Len(Signature[It.tag].ins)) = It.ins
  BY <1>3, <1>4, TakeAll DEF MessageItem
<1>6. OpDone(ValuesOf(It.ins), Signature[It.tag].res, ref)
  <2>1. CASE ReadFlatOp
    <3>1. It.tag # "custom"
      BY <1>2, <2>1, FormatAssumption
    <3> QED
      BY <1>5, <2>1, <3>1, FlatRead
  <2>2. CASE ReadCustom
    BY <1>2, <1>5, <2>2, CustomRead
  <2> QED
    BY <2>1, <2>2
<1>7. Readable(It.ins)
  <2>1. CASE ReadFlatOp
    BY <1>5, <2>1, FlatPassed DEF ReadFlatOp
  <2>2. CASE ReadCustom
    BY <1>5, <2>2, CustomPassed DEF ReadCustom
  <2> QED
    BY <2>1, <2>2
<1>8. ValuesOf(It.ins) = old.ins
  BY <1>1, <1>2, <1>7, OperandsSame
<1>9. ref = old.ref
  BY <1>4
<1> HIDE DEF ref
<1> QED
  BY <1>1, <1>2, <1>4, <1>6, <1>8, <1>9, OpRebuilt

\* A call: the callee's signature is that of the module.
LEMMA CallRebuilt ==
  ASSUME NEW p, NEW open, Rebuilds(p, open), ReaderInv, ReadCall
  PROVE  Rebuilds(p, open)'
<1> DEFINE old == p.funcs[body].items[Here]
           callee == owned.funcs[It.ref + 1]
<1>1. Signatures /\ Place /\ Stack /\ Binding
  BY DEF ReaderInv
<1>2. It.tag = "call" /\ blocks # <<>> /\ reading = "bodies" /\ body # 0 /\ Readable(It.ins)
  BY <1>1, CallPassed DEF ReadCall, AtItem, Place
<1>3. EncodesItem(p, body, Here) /\ It = Items(body)[Here] /\ It.tag = old.tag
  BY <1>1, <1>2, ItemEncoded DEF Rebuilds
<1>4. /\ p.funcs[It.ref + 1].name = old.ref
      /\ TypesOf(old.res) = p.funcs[It.ref + 1].outs
  BY <1>2, <1>3 DEF EncodesItem
<1>5. It.ref + 1 \in DOMAIN owned.funcs /\ OpDone(ValuesOf(It.ins), callee.outs, callee.name)
  BY CallRead
<1>6. SameSignature(callee, p.funcs[It.ref + 1])
  BY <1>5 DEF Rebuilds, SameItems
<1>7. ValuesOf(It.ins) = old.ins
  BY <1>1, <1>2, OperandsSame
<1>8. callee.outs = TypesOf(old.res) /\ callee.name = old.ref
  BY <1>4, <1>6 DEF SameSignature
<1> HIDE DEF callee
<1> QED
  BY <1>1, <1>2, <1>5, <1>7, <1>8, OpRebuilt

\* The results' types, where they come from the table.
LEMMA TableTypesSame ==
  ASSUME NEW p, NEW open, Rebuilds(p, open), Signatures, Place, Stack, body # 0, blocks # <<>>
  PROVE  TableTypes(It.outs) = TypesOf(p.funcs[body].items[Here].res)
<1> DEFINE old == p.funcs[body].items[Here]
<1>1. /\ EncodesItem(p, body, Here) /\ It = Items(body)[Here]
      /\ DOMAIN It.outs = DOMAIN old.res
  BY ItemEncoded DEF Rebuilds
<1>2. \A k \in DOMAIN old.res : Table[It.outs[k] + 1].type = old.res[k].type
  BY <1>1 DEF EncodesItem, Table
<1> QED
  BY <1>1, <1>2 DEF TableTypes, TypesOf

\* The types of operands are a list.
LEMMA OperandTypesSeq ==
  ASSUME NEW items, NEW i, items[i].ins \in Seq(Value)
  PROVE  \E S : OperandTypes(items, i) \in Seq(S)
<1> DEFINE n == Len(items[i].ins)
           T(k) == TypesOf(items[items[i].ins[k][2]].res)[items[i].ins[k][3]]
<1>1. n \in Nat /\ OperandTypes(items, i) = [k \in 1 .. n |-> T(k)]
  BY DEF OperandTypes
<1> HIDE DEF n, T
<1>2. OperandTypes(items, i) \in Seq({T(k) : k \in 1 .. n})
  BY <1>1
<1> QED
  BY <1>2

\* The operations with regions.
LEMMA SwitchRebuilt ==
  ASSUME NEW p, NEW open, Rebuilds(p, open), ReaderInv, ReadSwitch
  PROVE  Rebuilds(p, open)'
<1> DEFINE items == p.funcs[body].items
           types == OperandTypes(items, Here)
<1>1. Signatures /\ Place /\ Stack /\ Binding
  BY DEF ReaderInv
<1>2. /\ It.tag = "switch" /\ blocks # <<>> /\ reading = "bodies" /\ body # 0 /\ Readable(It.ins)
      /\ It.ins # <<>>
  BY <1>1, SwitchPassed DEF ReadSwitch, AtItem, Place
<1>3. /\ items[Here] \in Item /\ It \in MessageItem
      /\ EncodesItem(p, body, Here) /\ It = Items(body)[Here] /\ It.tag = items[Here].tag
  BY <1>1, <1>2, ItemEncoded DEF Rebuilds
<1>4. RegionCount(It) = Len(items[Here].regions) /\ items[Here].regions \in Seq(BOOLEAN)
  BY <1>2, <1>3 DEF EncodesItem, Item
<1>5. ScfDone(TableTypes(It.outs), [r \in 1 .. RegionCount(It) |-> InTypes(2)])
  BY SwitchRead
<1>6. InTypes(2) = Tail(types)
  <2>1. It.ins \in Seq(Nat) /\ 2 <= Len(It.ins) + 1
    BY <1>2, <1>3 DEF MessageItem
  <2>2. InTypes(2) = SubSeq(types, 2, Len(types)) /\ Len(types) = Len(It.ins)
    BY <1>1, <1>2, <2>1, InTypesSame
  <2>3. \E S : types \in Seq(S)
    BY <1>3, OperandTypesSeq DEF Item
  <2> HIDE DEF types
  <2> QED
    BY <2>1, <2>2, <2>3
<1>7. [r \in 1 .. RegionCount(It) |-> InTypes(2)] = RegionTypes(items, Here)
  <2>1. DOMAIN items[Here].regions = 1 .. RegionCount(It)
    BY <1>4
  <2>2. RegionTypes(items, Here) = [r \in DOMAIN items[Here].regions |-> Tail(types)]
    BY <1>2, <1>3 DEF RegionTypes
  <2> QED
    BY <1>6, <2>1, <2>2
<1>8. TableTypes(It.outs) = TypesOf(items[Here].res)
  BY <1>1, <1>2, TableTypesSame
<1>9. It.tag \in ScfKinds
  BY <1>2 DEF ScfKinds
<1> QED
  BY <1>1, <1>2, <1>5, <1>7, <1>8, <1>9, ScfRebuilt

\* A for, whose regions take the loop variable and the values it carries.
LEMMA ForRebuilt ==
  ASSUME NEW p, NEW open, Rebuilds(p, open), ReaderInv, ReadFor
  PROVE  Rebuilds(p, open)'
<1> DEFINE items == p.funcs[body].items
           types == OperandTypes(items, Here)
           todo == << <<TypeAt(bound[It.ins[1]])>> \o InTypes(4) >>
<1>1. Signatures /\ Place /\ Stack /\ Binding
  BY DEF ReaderInv
<1>2. /\ It.tag = "for" /\ blocks # <<>> /\ reading = "bodies" /\ body # 0 /\ Readable(It.ins)
      /\ ~(Len(It.ins) < 3)
  BY <1>1, ForPassed DEF ReadFor, AtItem, Place
<1>3. /\ It \in MessageItem
      /\ EncodesItem(p, body, Here) /\ It = Items(body)[Here] /\ It.tag = items[Here].tag
  BY <1>1, <1>2, ItemEncoded DEF Rebuilds
<1>4. TypesOf(items[Here].res) = SubSeq(types, 4, Len(types))
  BY <1>2, <1>3 DEF EncodesItem
<1>5. ScfDone(InTypes(4), todo)
  BY ForRead
<1>6. It.ins \in Seq(Nat) /\ 4 <= Len(It.ins) + 1 /\ 1 \in DOMAIN It.ins
  BY <1>2, <1>3 DEF MessageItem
<1>7. InTypes(4) = SubSeq(types, 4, Len(types))
  BY <1>1, <1>2, <1>6, InTypesSame
<1>8. TypeAt(bound[It.ins[1]]) = types[1]
  BY <1>1, <1>2, <1>6, OperandsSame
<1>9. RegionTypes(items, Here) = << <<types[1]>> \o SubSeq(types, 4, Len(types)) >>
  BY <1>2, <1>3 DEF RegionTypes
<1>10. todo = RegionTypes(items, Here)
  BY <1>7, <1>8, <1>9
<1>11. It.tag \in ScfKinds /\ InTypes(4) = TypesOf(items[Here].res)
  BY <1>2, <1>4, <1>7 DEF ScfKinds
<1> HIDE DEF todo
<1> QED
  BY <1>1, <1>2, <1>5, <1>10, <1>11, ScfRebuilt

\* A while, whose first region takes its operands, the second its results.
LEMMA WhileRebuilt ==
  ASSUME NEW p, NEW open, Rebuilds(p, open), ReaderInv, ReadWhile
  PROVE  Rebuilds(p, open)'
<1> DEFINE items == p.funcs[body].items
           types == OperandTypes(items, Here)
<1>1. Signatures /\ Place /\ Stack /\ Binding
  BY DEF ReaderInv
<1>2. It.tag = "while" /\ blocks # <<>> /\ reading = "bodies" /\ body # 0 /\ Readable(It.ins)
  BY <1>1, WhilePassed DEF ReadWhile, AtItem, Place
<1>3. It \in MessageItem /\ It.tag = items[Here].tag /\ items[Here] \in Item
  BY <1>1, <1>2, ItemEncoded DEF Rebuilds
<1>4. ScfDone(TableTypes(It.outs), <<InTypes(1), TableTypes(It.outs)>>)
  BY WhileRead
<1>5. It.ins \in Seq(Nat) /\ 1 <= Len(It.ins) + 1
  BY <1>3 DEF MessageItem
<1>6. /\ InTypes(1) = SubSeq(types, 1, Len(types)) /\ Len(types) = Len(It.ins)
      /\ DOMAIN types = DOMAIN It.ins
  BY <1>1, <1>2, <1>5, InTypesSame
<1>7. SubSeq(types, 1, Len(types)) = types
  <2>1. \E S : types \in Seq(S)
    BY <1>3, OperandTypesSeq DEF Item
  <2> HIDE DEF types
  <2> QED
    BY <2>1
<1>8. TableTypes(It.outs) = TypesOf(items[Here].res)
  BY <1>1, <1>2, TableTypesSame
<1>9. RegionTypes(items, Here) = <<types, TypesOf(items[Here].res)>>
  BY <1>2, <1>3 DEF RegionTypes
<1>10. It.tag \in ScfKinds /\ <<InTypes(1), TableTypes(It.outs)>> = RegionTypes(items, Here)
  BY <1>2, <1>6, <1>7, <1>8, <1>9 DEF ScfKinds
<1> QED
  BY <1>1, <1>2, <1>4, <1>8, <1>10, ScfRebuilt

\* What is to come after the start and after the end of a block.
LEMMA AfterEnter ==
  ASSUME NEW S, NEW now \in Seq(S), NEW n \in Nat, Len(now) = n,
         NEW items, NEW i, items[i].tag = "enter", NEW after, after = AfterTypes(now, items, i)
  PROVE  /\ DOMAIN after = 1 .. n + 1 /\ after[n + 1] = <<>>
         /\ \A k \in 1 .. n : after[k] = IF k < n THEN now[k] ELSE Tail(now[k])
<1> DEFINE rest == [k \in DOMAIN now |-> IF k < Len(now) THEN now[k] ELSE Tail(now[k])]
<1>1. AfterTypes(now, items, i) = Append(rest, <<>>)
  BY DEF AfterTypes, ScfKinds
<1>2. /\ DOMAIN rest = 1 .. n /\ rest = [k \in 1 .. n |-> rest[k]]
      /\ \A k \in 1 .. n : rest[k] = IF k < n THEN now[k] ELSE Tail(now[k])
  OBVIOUS
<1> HIDE DEF rest
<1>3. rest \in Seq({rest[k] : k \in 1 .. n}) /\ Len(rest) = n
  <2> DEFINE Elements == {rest[k] : k \in 1 .. n}
  <2>1. \A k \in 1 .. n : rest[k] \in Elements
    OBVIOUS
  <2> HIDE DEF Elements
  <2>2. rest \in Seq(Elements) /\ Len(rest) = n
    BY <1>2, <2>1, ListSeq
  <2> QED
    BY <2>2 DEF Elements
<1>4. /\ DOMAIN Append(rest, <<>>) = 1 .. n + 1 /\ Append(rest, <<>>)[n + 1] = <<>>
      /\ \A k \in 1 .. n : Append(rest, <<>>)[k] = rest[k]
  BY <1>2, <1>3
<1> QED
  BY <1>1, <1>2, <1>4

\* After the end of a block the blocks around it wait for the same.
LEMMA AfterLeave ==
  ASSUME NEW S, NEW now \in Seq(S), NEW n \in Nat \ {0}, Len(now) = n,
         NEW items, NEW i, items[i].tag = "leave", NEW after, after = AfterTypes(now, items, i)
  PROVE  DOMAIN after = 1 .. n - 1 /\ \A k \in 1 .. n - 1 : after[k] = now[k]
<1>1. AfterTypes(now, items, i) = SubSeq(now, 1, Len(now) - 1)
  BY DEF AfterTypes, ScfKinds
<1> QED
  BY <1>1

\* A list is as long as its domain.
LEMMA DomainLength ==
  ASSUME NEW S, NEW s \in Seq(S), NEW n \in Nat, DOMAIN s = 1 .. n
  PROVE  Len(s) = n
OBVIOUS

\* The blocks: the entry block of a function has the arguments of its
\* signature, that of a region those its operation asks for.
LEMMA FunctionRebuilt ==
  ASSUME NEW p, NEW open, Rebuilds(p, open), ReaderInv, EnterFunction
  PROVE  Rebuilds(p, open)'
<1> DEFINE items == p.funcs[body].items
           now == open[body][Len(Func.items)]
<1>1. Signatures /\ Place /\ Stack
  BY DEF ReaderInv
<1>2. /\ Going /\ Extended(<<>>, Func.ins, NoName)
      /\ DOMAIN blocks' = 1 .. Len(blocks) + 1 /\ blocks'[Len(blocks) + 1].todo = <<>>
  BY FunctionEntered DEF BlockDone
<1>3. blocks = <<>> /\ Func.items = <<>> /\ body # 0
  BY <1>1, <1>2 DEF EnterFunction, AtFunctionEntry, Going, Place
<1>4. /\ Here = 1 /\ It.tag = items[Here].tag /\ EncodesItem(p, body, Here)
      /\ items[Here] \in Item
  BY <1>1, <1>3, ItemEncoded DEF Rebuilds, Here
<1>5. items[Here].tag = "enter" /\ items[Here].ins = <<>> /\ items[Here].ref = NoName
  <2>1. It.tag = "enter"
    BY <1>1, <1>3, NextItem
  <2> QED
    BY <1>4, <2>1 DEF EncodesItem
<1>6. Func.ins = TypesOf(items[Here].res)
  <2>1. body \in DOMAIN owned.funcs
    BY <1>1, <1>3, BodyParts
  <2>2. SameSignature(owned.funcs[body], p.funcs[body]) /\ EncodesFunction(p, body)
    BY <1>1, <2>1, ModuleParts DEF Rebuilds, SameItems
  <2> QED
    BY <1>4, <2>2 DEF SameSignature, EncodesFunction, Func
<1>7. /\ now \in Seq(Seq(Seq(Types))) /\ Len(now) = 0
      /\ open[body][Here] = AfterTypes(now, items, Here)
  BY <1>1, <1>3, Expected
<1> HIDE DEF now
<1>8. DOMAIN open[body][Here] = 1 .. 1 /\ open[body][Here][1] = <<>>
  <2>1. PICK n \in Nat : n = 0
    OBVIOUS
  <2>2. now \in Seq(Seq(Seq(Types))) /\ Len(now) = n
    BY <1>7, <2>1
  <2> HIDE DEF items
  <2>3. open[body][Here] = AfterTypes(now, items, Here) /\ items[Here].tag = "enter"
    BY <1>5, <1>7
  <2>4. DOMAIN open[body][Here] = 1 .. n + 1 /\ open[body][Here][n + 1] = <<>>
    BY <2>2, <2>3, AfterEnter
  <2> QED
    BY <2>1, <2>4
<1>9. /\ DOMAIN blocks' = DOMAIN open[body][Here]
      /\ \A k \in DOMAIN blocks' : blocks'[k].todo = open[body][Here][k]
  BY <1>2, <1>3, <1>8
<1> QED
  BY <1>1, <1>2, <1>3, <1>5, <1>6, <1>9, ItemRebuilt

\* The first item of a block in an operation, its arguments.
LEMMA RegionRebuilt ==
  ASSUME NEW p, NEW open, Rebuilds(p, open), ReaderInv, EnterRegion
  PROVE  Rebuilds(p, open)'
<1> DEFINE items == p.funcs[body].items
           now == open[body][Len(Func.items)]
           n == Len(blocks)
<1>1. Signatures /\ Place /\ Stack
  BY DEF ReaderInv
<1>2. /\ Going /\ Extended(<<>>, Head(Top.todo), NoName)
      /\ DOMAIN blocks' = 1 .. n + 1 /\ blocks'[n + 1].todo = <<>>
      /\ \A k \in 1 .. n :
            blocks'[k].todo = IF k < n THEN blocks[k].todo ELSE Tail(Top.todo)
  BY RegionEntered
<1>3. blocks # <<>> /\ Top.todo # <<>> /\ body # 0
  BY <1>1, <1>2 DEF EnterRegion, AtRegionEntry, Going, Place
<1>4. It.tag = items[Here].tag /\ EncodesItem(p, body, Here) /\ items[Here] \in Item
  BY <1>1, <1>3, ItemEncoded DEF Rebuilds
<1>5. items[Here].tag = "enter" /\ items[Here].ins = <<>> /\ items[Here].ref = NoName
  <2>1. It.tag = "enter"
    BY <1>1, <1>3, NextItem
  <2> QED
    BY <1>4, <2>1 DEF EncodesItem
<1>6. Here # 1
  <2>1. Func.items # <<>> /\ Func.items \in Seq(Item) /\ Here = Len(Func.items) + 1
    <3>1. blocks[1].enter \in DOMAIN Func.items /\ Func.items \in Seq(Item)
      BY <1>1, <1>3, BodyParts DEF Stack
    <3> QED
      BY <1>1, <1>3, <3>1, BodyParts
  <2> QED
    BY <2>1
<1>7. /\ now \in Seq(Seq(Seq(Types))) /\ Len(now) = n /\ n \in Nat /\ DOMAIN blocks = 1 .. n
      /\ DOMAIN now = 1 .. n /\ n \in DOMAIN blocks /\ Top.todo = now[n]
      /\ open[body][Here] = AfterTypes(now, items, Here)
      /\ TypesOf(items[Here].res) = Head(now[n])
      /\ \A k \in 1 .. n : blocks[k].todo = now[k]
  BY <1>1, <1>3, <1>5, <1>6, Expected
<1> HIDE DEF now, n
<1>9. /\ DOMAIN open[body][Here] = 1 .. n + 1 /\ open[body][Here][n + 1] = <<>>
      /\ \A k \in 1 .. n : open[body][Here][k] = IF k < n THEN now[k] ELSE Tail(now[k])
  <2> HIDE DEF items
  <2> QED
    BY <1>5, <1>7, AfterEnter
<1>10. /\ DOMAIN blocks' = DOMAIN open[body][Here]
       /\ \A k \in DOMAIN blocks' : blocks'[k].todo = open[body][Here][k]
  <2>1. ASSUME NEW k \in 1 .. n PROVE blocks'[k].todo = open[body][Here][k]
    <3>1. CASE k < n
      BY <1>2, <1>7, <1>9, <3>1
    <3>2. CASE ~(k < n)
      <4>1. k = n
        BY <1>7, <3>2
      <4> QED
        BY <1>2, <1>7, <1>9, <3>2, <4>1
    <3> QED
      BY <3>1, <3>2
  <2>2. \A k \in 1 .. n + 1 : k \in 1 .. n \/ k = n + 1
    BY <1>7
  <2> QED
    BY <1>2, <1>9, <2>1, <2>2
<1>11. Head(Top.todo) = TypesOf(items[Here].res)
  BY <1>7
<1> QED
  BY <1>1, <1>2, <1>3, <1>5, <1>10, <1>11, ItemRebuilt

\* The last item of a block, its terminator.
LEMMA LeaveRebuilt ==
  ASSUME NEW p, NEW open, Rebuilds(p, open), ReaderInv, LeaveRegion
  PROVE  Rebuilds(p, open)'
<1> DEFINE items == p.funcs[body].items
           now == open[body][Len(Func.items)]
           n == Len(blocks)
<1>1. Signatures /\ Place /\ Stack /\ Binding
  BY DEF ReaderInv
<1>2. /\ Going /\ Extended(ValuesOf(It.ins), TypesOf(<<>>), NoName)
      /\ DOMAIN blocks' = 1 .. n - 1 /\ \A k \in DOMAIN blocks' : blocks'[k] = blocks[k]
  BY RegionLeft
<1>3. blocks # <<>> /\ It.tag = "leave" /\ body # 0 /\ Readable(It.ins)
  BY <1>1, <1>2, LeavePassed DEF LeaveRegion, AtItem, Going, Place
<1>4. It.tag = items[Here].tag /\ EncodesItem(p, body, Here) /\ items[Here] \in Item
  BY <1>1, <1>3, ItemEncoded DEF Rebuilds
<1>5. items[Here].tag = "leave" /\ items[Here].res = <<>> /\ items[Here].ref = NoName
  BY <1>3, <1>4 DEF EncodesItem
<1>6. ValuesOf(It.ins) = items[Here].ins
  BY <1>1, <1>3, OperandsSame
<1>7. /\ now \in Seq(Seq(Seq(Types))) /\ Len(now) = n /\ n \in Nat /\ DOMAIN now = 1 .. n
      /\ DOMAIN blocks = 1 .. n
      /\ open[body][Here] = AfterTypes(now, items, Here)
      /\ \A k \in 1 .. n : blocks[k].todo = now[k]
      /\ n \in DOMAIN blocks
  BY <1>1, <1>3, Expected
<1> HIDE DEF now, n
<1>9. /\ DOMAIN open[body][Here] = 1 .. n - 1
      /\ \A k \in 1 .. n - 1 : open[body][Here][k] = now[k] /\ k \in 1 .. n
  <2>1. n \in Nat \ {0}
    BY <1>7
  <2>2. PICK i, after : i = Here /\ after = open[body][Here]
    OBVIOUS
  <2>3. items[i].tag = "leave" /\ after = AfterTypes(now, items, i)
    BY <1>5, <1>7, <2>2
  <2> HIDE DEF items
  <2>4. DOMAIN after = 1 .. n - 1 /\ \A k \in 1 .. n - 1 : after[k] = now[k]
    BY <1>7, <2>1, <2>3, AfterLeave
  <2>5. \A k \in 1 .. n - 1 : k \in 1 .. n
    BY <2>1
  <2> QED
    BY <2>2, <2>4, <2>5
<1>10. /\ DOMAIN blocks' = DOMAIN open[body][Here]
       /\ \A k \in DOMAIN blocks' : blocks'[k].todo = open[body][Here][k]
  BY <1>2, <1>7, <1>9
<1> QED
  BY <1>1, <1>2, <1>3, <1>5, <1>6, <1>10, ItemRebuilt

\* A signature: the name is in the strings, the types are in the value table.
LEMMA SignatureRebuilt ==
  ASSUME NEW p, NEW open, Rebuilds(p, open), ReaderInv, ReadSignature
  PROVE  Rebuilds(p, open)'
<1> DEFINE n == Len(owned.funcs)
           func == file.functions[n + 1]
           types(ids) == [k \in DOMAIN ids |-> func.values[ids[k] + 1].type]
           new == owned'.funcs[n + 1]
           old == p.funcs[n + 1]
<1>1. SignatureAdded /\ Signatures'
  BY SignatureRead DEF ReaderInv
<1>2. /\ body = 0 /\ UNCHANGED <<file, body, reading>> /\ reading = "signatures"
      /\ n \in Nat /\ DOMAIN owned.funcs = 1 .. n /\ DOMAIN owned'.funcs = 1 .. n + 1
      /\ \A f \in 1 .. n : owned'.funcs[f] = owned.funcs[f]
      /\ new.name = file.strings[func.name + 1]
      /\ new.ins = types(func.items[1].outs)
      /\ new.outs = types(func.items[Len(func.items)].ins)
      /\ new.items = <<>> /\ func.items # <<>>
  BY <1>1 DEF SignatureAdded
<1>3. Encodes(p, open)'
  BY <1>2, EncodesStays DEF Rebuilds
<1>4. SameSignature(new, old)
  <2>1. n + 1 \in DOMAIN file.functions
    <3>1. Len(owned'.funcs) <= Len(file'.functions) /\ owned'.funcs \in Seq(Function)
      BY <1>1 DEF Signatures, Module
    <3>2. file.functions \in Seq(MessageFunction)
      BY FileParts DEF ReaderInv
    <3> HIDE DEF n
    <3>3. n \in Nat /\ DOMAIN owned'.funcs = 1 .. n + 1 /\ file' = file
      BY <1>2
    <3>4. n + 1 \in Nat
      BY <3>3
    <3>5. Len(owned'.funcs) = n + 1
      BY <3>1, <3>3, <3>4, DomainLength
    <3>6. n + 1 <= Len(file.functions)
      BY <3>1, <3>3, <3>5
    <3> QED
      BY <3>2, <3>3, <3>6
  <2>2. /\ EncodesFunction(p, n + 1) /\ old.items \in Seq(Item)
        /\ Items(n + 1) \in Seq(MessageItem) /\ Len(Items(n + 1)) = Len(old.items)
        /\ DOMAIN Items(n + 1) = DOMAIN old.items
    BY <2>1, EncodedParts DEF Rebuilds, ReaderInv, Signatures
  <2> HIDE DEF n
  <2>3. /\ file.strings[func.name + 1] = old.name /\ old.ins = TypesOf(old.items[1].res)
        /\ old.outs = types(func.items[Len(func.items)].ins)
        /\ \A i \in DOMAIN old.items : EncodesItem(p, n + 1, i)
    BY <2>2 DEF EncodesFunction, Items
  <2>4. 1 \in DOMAIN old.items /\ func.items = Items(n + 1)
    <3>1. func.items = Items(n + 1)
      BY DEF Items
    <3>2. Items(n + 1) # <<>>
      BY <1>2, <3>1
    <3>3. 1 \in DOMAIN Items(n + 1)
      BY <2>2, <3>2
    <3> QED
      BY <2>2, <3>1, <3>3
  <2>5. EncodesItem(p, n + 1, 1) /\ old.items[1] \in Item /\ Items(n + 1)[1] \in MessageItem
    <3>1. EncodesItem(p, n + 1, 1)
      BY <2>3, <2>4
    <3>2. 1 \in DOMAIN Items(n + 1)
      BY <2>2, <2>4
    <3> QED
      BY <2>2, <2>4, <3>1, <3>2
  <2>6. /\ Len(Items(n + 1)[1].outs) = Len(old.items[1].res)
        /\ \A k \in DOMAIN old.items[1].res :
              func.values[Items(n + 1)[1].outs[k] + 1].type = old.items[1].res[k].type
    BY <2>5 DEF EncodesItem
  <2>7. DOMAIN Items(n + 1)[1].outs = DOMAIN old.items[1].res
    BY <2>5, <2>6 DEF Item, MessageItem
  <2>8. types(func.items[1].outs) = TypesOf(old.items[1].res)
    BY <2>4, <2>6, <2>7 DEF TypesOf
  <2> QED
    BY <1>2, <2>3, <2>8 DEF SameSignature
<1> HIDE DEF n
<1>5. SameItems(p)'
  <2> SUFFICES ASSUME NEW f \in DOMAIN owned'.funcs
               PROVE  /\ SameSignature(owned'.funcs[f], p.funcs[f])
                      /\ \A i \in DOMAIN owned'.funcs[f].items :
                            Same(owned'.funcs[f].items[i], p.funcs[f].items[i])
    BY DEF SameItems
  <2>1. CASE f \in 1 .. n
    <3>1. owned'.funcs[f] = owned.funcs[f] /\ f \in DOMAIN owned.funcs
      BY <1>2, <2>1
    <3> QED
      BY <3>1 DEF Rebuilds, SameItems
  <2>2. CASE f = n + 1
    <3>1. DOMAIN owned'.funcs[f].items = {}
      <4>1. owned'.funcs[f].items = <<>>
        BY <1>2, <2>2
      <4> QED
        BY <4>1
    <3> QED
      BY <1>4, <2>2, <3>1
  <2>3. f \in 1 .. n \/ f = n + 1
    <3>1. n \in Nat /\ f \in 1 .. n + 1
      BY <1>2
    <3> QED
      BY <3>1
  <2> QED
    BY <2>1, <2>2, <2>3
<1>6. Expects(open)'
  BY <1>2 DEF Expects
<1>7. reading' # "module"
  BY <1>2
<1> QED
  BY <1>3, <1>5, <1>6, <1>7 DEF Rebuilds

\* The steps that build nothing.
LEMMA OtherRebuilt ==
  ASSUME NEW p, NEW open, Rebuilds(p, open), ReaderInv,
         BeginModule \/ StopAtSignature \/ StopInBody \/ FinishModule \/ UNCHANGED readVars
  PROVE  Rebuilds(p, open)'
<1>1. Encodes(p, open) /\ SameItems(p) /\ Expects(open)
  BY DEF Rebuilds
<1>2. UNCHANGED <<file, body, blocks>>
  BY DEF BeginModule, StopAtSignature, StopInBody, FinishModule, readVars, readerVars
<1>3. /\ owned'.funcs = owned.funcs
      /\ reading' = "module" => owned'.strings = file.strings
  <2>1. CASE BeginModule
    BY <2>1 DEF BeginModule
  <2>2. CASE StopAtSignature
    <3>1. Verdict(SignatureChecks(NextSignature)) \in Outcomes
      BY <2>2, SignaturePassed DEF StopAtSignature
    <3> QED
      BY <2>2, <3>1 DEF StopAtSignature, Outcomes
  <2>3. CASE StopInBody
    <3>1. owned' = owned
      BY <2>3 DEF StopInBody
    <3>2. reading' # "module"
      BY <2>3, BodyStopped DEF Outcomes
    <3> QED
      BY <3>1, <3>2
  <2>4. CASE FinishModule
    <3>1. owned \in Module
      BY DEF ReaderInv, Signatures
    <3> QED
      BY <2>4, <3>1 DEF FinishModule, Module
  <2>5. CASE UNCHANGED readVars
    BY <1>2, <2>5 DEF readVars, readerVars, Rebuilds
  <2> QED
    BY <2>1, <2>2, <2>3, <2>4, <2>5
<1>4. Encodes(p, open)'
  BY <1>1, <1>2, EncodesStays
<1>5. SameItems(p)'
  BY <1>1, <1>3 DEF SameItems
<1>6. Expects(open)'
  BY <1>1, <1>2, <1>3 DEF Expects, Func
<1> QED
  BY <1>2, <1>3, <1>4, <1>5, <1>6 DEF Rebuilds

\* The next body is begun: nothing is open before its first item.
LEMMA BodyRebuilt ==
  ASSUME NEW p, NEW open, Rebuilds(p, open), ReaderInv, BeginBody
  PROVE  Rebuilds(p, open)'
<1>1. Encodes(p, open) /\ SameItems(p)
  BY DEF Rebuilds
<1>2. /\ blocks = <<>> /\ body' = body + 1 /\ reading' = "bodies"
      /\ UNCHANGED <<file, owned, blocks>>
  BY DEF BeginBody, BetweenBodies
<1>3. ReaderInv'
  BY BodyBegun
<1>4. Func'.items = <<>> /\ body' # 0 /\ body' \in DOMAIN owned.funcs
  <2>1. owned.funcs \in Seq(Function) /\ body \in Nat /\ body' \in 0 .. Len(owned.funcs)
    BY <1>2, <1>3 DEF ReaderInv, Signatures, Place, Module
  <2>2. body + 1 \in DOMAIN owned.funcs /\ body + 1 > body
    BY <1>2, <2>1
  <2>3. owned.funcs[body + 1].items = <<>>
    BY <2>2 DEF ReaderInv, Place
  <2> QED
    BY <1>2, <2>1, <2>2, <2>3 DEF Func
<1>5. open[body'][0] = <<>>
  BY <1>1, <1>4, ModuleParts DEF ReaderInv, Regions
<1>6. Encodes(p, open)'
  BY <1>1, <1>2, EncodesStays
<1>7. SameItems(p)'
  BY <1>1, <1>2 DEF SameItems
<1>8. Expects(open)'
  BY <1>2, <1>4, <1>5 DEF Expects
<1> QED
  BY <1>2, <1>6, <1>7, <1>8 DEF Rebuilds

\* Every action goes on rebuilding the module.
LEMMA RebuildStep ==
  ASSUME NEW p, NEW open, Rebuilds(p, open), ReaderInv, [ReaderNext]_readVars
  PROVE  Rebuilds(p, open)'
<1>1. CASE BeginModule \/ StopAtSignature \/ StopInBody \/ FinishModule \/ UNCHANGED readVars
  BY <1>1, OtherRebuilt
<1>2. CASE ReadSignature
  BY <1>2, SignatureRebuilt
<1>3. CASE BeginBody
  BY <1>3, BodyRebuilt
<1>4. CASE EnterFunction
  BY <1>4, FunctionRebuilt
<1>5. CASE EnterRegion
  BY <1>5, RegionRebuilt
<1>6. CASE LeaveRegion
  BY <1>6, LeaveRebuilt
<1>7. CASE ReadFlatOp \/ ReadCustom
  BY <1>7, FlatRebuilt
<1>8. CASE ReadCall
  BY <1>8, CallRebuilt
<1>9. CASE ReadSwitch
  BY <1>9, SwitchRebuilt
<1>10. CASE ReadFor
  BY <1>10, ForRebuilt
<1>11. CASE ReadWhile
  BY <1>11, WhileRebuilt
<1>12. CASE FinishScf
  BY <1>12, ScfFinished, AnnotatedRebuilt DEF ReaderInv
<1> QED
  BY <1>1, <1>2, <1>3, <1>4, <1>5, <1>6, <1>7, <1>8, <1>9, <1>10, <1>11, <1>12 DEF ReaderNext

\* Before anything is read.
LEMMA RebuildStart ==
  ASSUME NEW p, NEW open, Encodes(p, open), ReaderInit
  PROVE  Rebuilds(p, open)
<1>1. DOMAIN owned.funcs = {} /\ body = 0 /\ reading = "start"
  BY DEF ReaderInit
<1> QED
  BY <1>1 DEF Rebuilds, SameItems, Expects

\* Items, and functions, with the same parts are the same.
LEMMA SameDefs ==
  ASSUME NEW a \in Seq(Def), NEW b \in Seq(Def), TypesOf(a) = TypesOf(b),
         \A k \in DOMAIN b : a[k].meta = b[k].meta
  PROVE  a = b
<1>1. DOMAIN a = DOMAIN b /\ Len(a) = Len(b)
  <2>1. DOMAIN a = DOMAIN b
    BY DEF TypesOf
  <2>2. DOMAIN a = 1 .. Len(b) /\ Len(b) \in Nat
    BY <2>1
  <2> QED
    BY <2>1, <2>2, DomainLength
<1>2. ASSUME NEW k \in DOMAIN b PROVE a[k] = b[k]
  <2>1. a[k] \in Def /\ b[k] \in Def
    BY <1>1
  <2>2. TypesOf(a)[k] = a[k].type /\ TypesOf(b)[k] = b[k].type
    BY <1>1 DEF TypesOf
  <2>3. a[k].type = b[k].type /\ a[k].meta = b[k].meta
    BY <2>2
  <2> QED
    BY <2>1, <2>3 DEF Def
<1> QED
  BY <1>1, <1>2

\* A module that is returned is the module that the message encodes.
LEMMA ModuleRebuilt ==
  ASSUME NEW p, NEW open, Rebuilds(p, open), ReaderInv, reading = "module"
  PROVE  owned = p
<1>1. MetadataPlaced /\ CallsResolve /\ Signatures
  BY Annotations, Completion DEF ReaderInv
<1>2. /\ Encodes(p, open) /\ SameItems(p) /\ owned.strings = file.strings
  BY DEF Rebuilds
<1>3. /\ owned \in Module /\ p \in Module /\ owned.meta = p.meta /\ owned.strings = p.strings
      /\ Len(owned.funcs) = Len(p.funcs)
  BY <1>1, <1>2 DEF Signatures, Encodes, MetadataPlaced, CallsResolve
<1>4. /\ owned.funcs \in Seq(Function) /\ p.funcs \in Seq(Function)
      /\ DOMAIN owned.funcs = DOMAIN p.funcs
  <2>1. owned.funcs \in Seq(Function) /\ p.funcs \in Seq(Function)
    BY <1>3 DEF Module
  <2> QED
    BY <1>3, <2>1
<1>5. ASSUME NEW f \in DOMAIN owned.funcs PROVE owned.funcs[f] = p.funcs[f]
  <2> DEFINE new == owned.funcs[f]
             old == p.funcs[f]
  <2>1. /\ EncodesFunction(p, f) /\ new \in Function /\ old \in Function
        /\ Len(Items(f)) = Len(old.items)
    BY <1>1, <1>2, <1>4, ModuleParts
  <2>2. /\ new.name = old.name /\ new.ins = old.ins /\ new.outs = old.outs
        /\ new.meta = old.meta
    BY <1>1, <1>2, <2>1 DEF SameItems, SameSignature, EncodesFunction, MetadataPlaced
  <2>3. /\ new.items \in Seq(Item) /\ old.items \in Seq(Item)
        /\ Len(new.items) = Len(old.items) /\ Items(f) \in Seq(MessageItem)
        /\ DOMAIN Items(f) = DOMAIN old.items
    BY <1>1, <1>2, <2>1, ModuleParts DEF CallsResolve, Function, Items
  <2> HIDE DEF new, old
  <2>4. DOMAIN new.items = DOMAIN old.items
    BY <2>3
  <2>5. ASSUME NEW i \in DOMAIN new.items PROVE new.items[i] = old.items[i]
    <3> DEFINE a == new.items[i]
               b == old.items[i]
               m == Items(f)[i]
               values == file.functions[f].values
    <3>1. a \in Item /\ b \in Item /\ m \in MessageItem
      BY <2>3, <2>4
    <3>2. /\ a.tag = b.tag /\ a.ins = b.ins /\ a.ref = b.ref
          /\ a.regions = b.regions /\ TypesOf(a.res) = TypesOf(b.res)
      BY <1>2 DEF SameItems, Same, new, old
    <3>3. EncodesItem(p, f, i)
      BY <2>1, <2>4 DEF EncodesFunction, old
    <3>4. /\ a.meta = Decode(m.meta)
          /\ \A k \in DOMAIN m.outs \cap DOMAIN a.res :
                a.res[k].meta = Decode(values[m.outs[k] + 1].meta)
      BY <1>1 DEF MetadataPlaced, Items, new
    <3>5. /\ Decode(m.meta) = b.meta /\ Len(m.outs) = Len(b.res)
          /\ \A k \in DOMAIN b.res : Decode(values[m.outs[k] + 1].meta) = b.res[k].meta
      BY <3>3 DEF EncodesItem, old
    <3> HIDE DEF a, b, m, values
    <3>6. a.res \in Seq(Def) /\ b.res \in Seq(Def) /\ m.outs \in Seq(Nat)
      BY <3>1 DEF Item, MessageItem
    <3>7. DOMAIN m.outs = DOMAIN b.res
      BY <3>5, <3>6
    <3>8. DOMAIN a.res = DOMAIN b.res
      BY <3>2 DEF TypesOf
    <3>9. \A k \in DOMAIN b.res : a.res[k].meta = b.res[k].meta
      BY <3>4, <3>5, <3>7, <3>8
    <3>10. a.res = b.res
      BY <3>2, <3>6, <3>9, SameDefs
    <3>11. a = b
      BY <3>1, <3>2, <3>4, <3>5, <3>10 DEF Item
    <3> QED
      BY <3>11 DEF a, b
  <2>6. new.items = old.items
    BY <2>3, <2>4, <2>5
  <2> QED
    BY <2>1, <2>2, <2>6 DEF Function, new, old
<1>6. owned.funcs = p.funcs
  BY <1>4, <1>5
<1> QED
  BY <1>3, <1>6 DEF Module
=============================================================================
