---------------------------- MODULE MCRoundTrip ----------------------------
(***************************************************************************)
(* Small instances of RoundTrip for TLC.                                   *)
(***************************************************************************)
EXTENDS RoundTrip, TLC

Good(n) == <<[name |-> n, sound |-> TRUE]>>
D(t, m) == [type |-> t, meta |-> m]
Op(tag, ins, res, meta, ref, regions) ==
    [tag |-> tag, ins |-> ins, res |-> res, meta |-> meta, ref |-> ref, regions |-> regions]
Reg(args, meta, yields) == [block |-> TRUE, args |-> args, meta |-> meta, yields |-> yields]
Q(m) == <<D("q", m)>>

TheSignature ==
    [k \in {"alloc", "measureNd", "custom"} |->
        CASE k = "alloc"     -> [ins |-> <<>>, res |-> <<"q">>]
          [] k = "measureNd" -> [ins |-> <<"q">>, res |-> <<"q", "i">>]
          [] k = "custom"    -> [ins |-> <<"q">>, res |-> <<"q">>]]

\* Metadata at every kind of owner, with names that are and are not among the
\* strings of the module.
Alloc == Op("alloc", <<>>, Q(<<>>), Good("m"), NoName, <<>>)
MeasureNd == Op("measureNd", <<"q">>, Q(Good("n")) \o <<D("i", <<>>)>>, <<>>, NoName, <<>>)
Custom == Op("custom", <<"q">>, Q(<<>>), Good("m"), "m", <<>>)
CallG == Op("call", <<"q">>, Q(Good("g")), <<>>, "g", <<>>)
For == Op("for", <<"i", "i", "i", "q">>, Q(<<>>), Good("n"), NoName,
          <<Reg(<<D("i", <<>>)>> \o Q(Good("n")), Good("m"), <<"q">>)>>)
While == Op("while", <<"q">>, Q(Good("n")), <<>>, NoName,
            <<Reg(Q(<<>>), <<>>, <<"q">>), Reg(Q(<<>>), Good("n"), <<"q">>)>>)
Switch == Op("switch", <<"i", "q">>, <<D("q", Good("m"))>>, Good("n"), NoName,
             <<Reg(Q(<<>>), <<>>, <<"q">>), Reg(Q(<<>>), Good("f"), <<"q">>)>>)
TheShapes == {Alloc, MeasureNd, Custom, CallG, For, While, Switch}

Func(name, meta, region) == [name |-> name, meta |-> meta, region |-> region]
Body == Reg(<<D("i", <<>>)>> \o Q(<<>>), <<>>, <<"q">>)
GBody == Reg(Q(Good("m")), Good("n"), <<"q">>)
TheModules ==
    {[strings |-> s, meta |-> Good("n"), funcs |-> fs] :
        s  \in {<<"g", "f", "g">>, <<"f", "g">>},
        fs \in {<<Func("f", Good("m") \o Good("n"), Body), Func("g", <<>>, GBody)>>,
                <<Func("g", <<>>, GBody), Func("f", <<>>, Body)>>}}
=============================================================================
