---------------------------- MODULE MCSerialize ----------------------------
(***************************************************************************)
(* Small instances of Serialize for TLC.                                   *)
(***************************************************************************)
EXTENDS Serialize, TLC

Good(n) == <<[name |-> n, sound |-> TRUE]>>
D(t, m) == [type |-> t, meta |-> m]
Op(tag, ins, res, meta, ref, regions) ==
    [tag |-> tag, ins |-> ins, res |-> res, meta |-> meta, ref |-> ref, regions |-> regions]
Reg(block, args, meta, yields) ==
    [block |-> block, args |-> args, meta |-> meta, yields |-> yields]
Absent == Reg(FALSE, <<>>, <<>>, <<>>)
Func(name, meta, region) == [name |-> name, meta |-> meta, region |-> region]
Q(m) == <<D("q", m)>>

\* Operation shapes: one without operands, a gate, a custom gate named by a
\* string that metadata may register, a call, and the three structured ones.
Alloc == Op("alloc", <<>>, Q(<<>>), Good("m"), NoName, <<>>)
MeasureNd == Op("measureNd", <<"q">>, Q(Good("n")) \o <<D("i", <<>>)>>, <<>>, NoName, <<>>)
Custom == Op("custom", <<"q">>, Q(<<>>), <<>>, "m", <<>>)
CallG == Op("call", <<"q">>, Q(<<>>), <<>>, "g", <<>>)
For == Op("for", <<"i", "i", "i", "q">>, Q(<<>>), <<>>, NoName,
          <<Reg(TRUE, <<D("i", <<>>)>> \o Q(Good("n")), Good("m"), <<"q">>)>>)
While == Op("while", <<"q">>, Q(<<>>), <<>>, NoName,
            <<Reg(TRUE, Q(<<>>), <<>>, <<"q">>), Reg(TRUE, Q(<<>>), Good("n"), <<"q">>)>>)
Switch == Op("switch", <<"i", "q">>, Q(<<>>), Good("n"), NoName,
             <<Reg(TRUE, Q(<<>>), <<>>, <<"q">>), Reg(TRUE, Q(<<>>), <<>>, <<"q">>)>>)

Body == Reg(TRUE, <<D("i", <<>>)>> \o Q(<<>>), <<>>, <<"q">>)
GBody == Reg(TRUE, Q(Good("m")), <<>>, <<"q">>)
NoMeta(op) == [op EXCEPT !.meta = <<>>]

\* Run "values": one or two functions, every way to nest regions in them.
ValuesModules ==
    {[strings |-> <<"f", "g">>, meta |-> <<>>,
      funcs |-> <<Func("f", <<>>, Body), Func("g", <<>>, GBody)>>]}
ValuesShapes == {NoMeta(Alloc), MeasureNd, NoMeta(For), NoMeta(While), NoMeta(Switch)}

\* A switch whose default region is left out.
DefaultShapes == {[Switch EXCEPT !.regions[2] = Absent]}

\* Run "names": strings repeated, missing or registered by metadata; flawed
\* metadata at every kind of owner; a callee before and after its caller; as
\* many strings as indices, and more.
Unsound == <<[name |-> "n", sound |-> FALSE]>>
NamesModules ==
    {[strings |-> s, meta |-> m, funcs |-> fs] :
        s  \in {<<"g", "f", "g">>, <<"f", "g", "m">>, <<"f">>},
        m  \in {Good("n"), Malformed},
        fs \in {<<Func("f", Good("m") \o Good("n"), Body), Func("g", <<>>, GBody)>>,
                <<Func("f", Unsound, Body), Func("g", <<>>, GBody)>>,
                <<Func("g", <<>>, GBody), Func("f", <<>>, Body)>>,
                <<Func("f", <<>>, Body), Func("g", <<>>, Absent)>>}}
NamesShapes ==
    {Alloc, Custom, CallG, [Alloc EXCEPT !.meta = Malformed, !.res = Q(Unsound)],
     [Switch EXCEPT !.regions[2] = Absent]}

\* Run "serialize": each family of modules with the operations meant for it.
AllModules == ValuesModules \cup NamesModules
AllShapes == ValuesShapes \cup NamesShapes
FamilyShapes == IF module \in ValuesModules THEN ValuesShapes ELSE NamesShapes

MadeOf(item, s) ==
    /\ item.tag = s.tag /\ item.res = s.res /\ item.meta = s.meta /\ item.ref = s.ref
    /\ item.regions = [r \in DOMAIN s.regions |-> s.regions[r].block]

\* The operation visited last, if the walk stands behind one, is of the family.
LastOfFamily ==
    /\ program # <<>> /\ program[Cur].items # <<>> =>
         LET item == program[Cur].items[Here - 1]
         IN item.tag \in Bounds \/ \E s \in FamilyShapes : MadeOf(item, s)
    /\ status = "fatal" => module \in NamesModules

FamilySpec == Init /\ [][Next /\ LastOfFamily']_vars /\ WF_vars(Next /\ LastOfFamily')
=============================================================================
