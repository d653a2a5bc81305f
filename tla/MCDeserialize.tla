--------------------------- MODULE MCDeserialize ---------------------------
(***************************************************************************)
(* Small instances of Deserialize for TLC: messages that are well formed,  *)
(* and the messages that differ from one of them in a single field.        *)
(***************************************************************************)
EXTENDS Deserialize, TLC

TheSignature ==
    [k \in {"alloc", "measureNd", "custom"} |->
        CASE k = "alloc"     -> [ins |-> <<>>, res |-> <<"q">>]
          [] k = "measureNd" -> [ins |-> <<"q">>, res |-> <<"q", "i">>]
          [] k = "custom"    -> [ins |-> <<"q">>, res |-> <<"q">>]]

It0(tag, ins, outs, meta, ref, regions) ==
    [tag |-> tag, ins |-> ins, outs |-> outs, meta |-> meta, ref |-> ref, regions |-> regions]
Enter0(outs, meta) == It0("enter", <<>>, outs, meta, 0, <<>>)
Leave0(ins) == It0("leave", ins, <<>>, <<>>, 0, <<>>)
F(name, meta, items, values) ==
    [name |-> name, meta |-> meta, hasBody |-> TRUE, hasOperations |-> TRUE,
     items |-> items, values |-> values]
V(t, meta) == [type |-> t, meta |-> meta]
M(functions, strings, meta) ==
    [hasFunctions |-> TRUE, functions |-> functions, strings |-> strings, meta |-> meta]

\* f calls g, which comes later; a switch with a nested gate follows.
Calls ==
    M(<<F(0, <<1>>,
          <<Enter0(<<0>>, <<2>>), It0("measureNd", <<0>>, <<1, 2>>, <<2>>, 0, <<>>),
            It0("call", <<1>>, <<3>>, <<>>, 1, <<>>),
            It0("switch", <<2, 3>>, <<4>>, <<2>>, 0, <<TRUE, FALSE>>),
            Enter0(<<5>>, <<>>), It0("custom", <<5>>, <<6>>, <<>>, 1, <<>>), Leave0(<<6>>),
            Leave0(<<4>>)>>,
          <<V("q", <<>>), V("q", <<2>>), V("i", <<>>), V("q", <<>>), V("q", <<2>>),
            V("q", <<2>>), V("q", <<>>)>>),
        F(1, <<>>, <<Enter0(<<0>>, <<>>), Leave0(<<0>>)>>, <<V("q", <<>>)>>)>>,
      <<"f", "g", "m">>, <<2>>)

\* More functions than indices.
Crowded ==
    [Calls EXCEPT !.strings = Append(@, "n"),
                  !.functions = @ \o <<[@[2] EXCEPT !.name = 2], [@[2] EXCEPT !.name = 3]>>]

\* A while loop in a for loop.
Loops ==
    M(<<F(0, <<>>,
          <<Enter0(<<0, 1>>, <<>>), It0("for", <<0, 0, 0, 1>>, <<2>>, <<1>>, 0, <<TRUE>>),
            Enter0(<<3, 4>>, <<1>>),
            It0("while", <<4, 3>>, <<5>>, <<1>>, 0, <<TRUE, TRUE>>),
            Enter0(<<6, 7>>, <<>>), Leave0(<<7, 6>>),
            Enter0(<<8>>, <<1>>), It0("alloc", <<>>, <<9>>, <<1>>, 0, <<>>),
            Leave0(<<9>>),
            Leave0(<<5>>), Leave0(<<2>>)>>,
          <<V("i", <<>>), V("q", <<1>>), V("q", <<1>>), V("i", <<>>), V("q", <<>>),
            V("q", <<1>>), V("q", <<>>), V("i", <<1>>), V("q", <<>>), V("q", <<1>>)>>)>>,
      <<"f", "m">>, <<>>)

Shorter(s) == IF s = <<>> THEN {} ELSE {SubSeq(s, 1, Len(s) - 1)}
Changed(s) ==
    {[s EXCEPT ![k] = x] : k \in DOMAIN s, x \in 0 .. 10} \cup Shorter(s)
    \cup {Append(s, x) : x \in {0, 4}}

\* The messages that differ from m in one field; "enter" stands for the sources
\* and the metadata of a region, "leave" for its targets.
With(cond, set) == IF cond THEN set ELSE {}
ChangedItems(m) ==
    UNION {UNION {
        LET it == m.functions[f].items[i]
        IN With(it.tag # "enter",
                {[m EXCEPT !.functions[f].items[i].ins = s] : s \in Changed(it.ins)})
           \cup With(it.tag # "leave",
                {[m EXCEPT !.functions[f].items[i].outs = s] : s \in Changed(it.outs)}
                \cup {[m EXCEPT !.functions[f].items[i].meta = s] : s \in {<<>>, <<0>>, <<9>>}})
           \cup With(it.tag \in {"custom", "call"},
                {[m EXCEPT !.functions[f].items[i].ref = r] : r \in 0 .. 3})
        : i \in DOMAIN m.functions[f].items} : f \in DOMAIN m.functions}
ChangedFunctions(m) ==
    UNION {
        {[m EXCEPT !.functions[f].hasOperations = FALSE],
         [m EXCEPT !.functions[f].hasBody = FALSE, !.functions[f].items = <<>>],
         [m EXCEPT !.functions[f].meta = <<9>>]}
        \cup {[m EXCEPT !.functions[f].name = x] : x \in 0 .. 3}
        \cup {[m EXCEPT !.functions[f].values[v].type = t] :
                 v \in DOMAIN m.functions[f].values, t \in Types}
        \cup {[m EXCEPT !.functions[f].values[v].meta = s] :
                 v \in DOMAIN m.functions[f].values, s \in {<<0>>, <<9>>}}
        : f \in DOMAIN m.functions}
NearFiles(m) ==
    {m, [m EXCEPT !.hasFunctions = FALSE, !.functions = <<>>], [m EXCEPT !.meta = <<9>>],
     [m EXCEPT !.functions = Append(@, m.functions[1])]}
    \cup ChangedItems(m) \cup ChangedFunctions(m)
TheFiles == NearFiles(Calls) \cup NearFiles(Loops) \cup {Crowded}
=============================================================================
