---------------------------- MODULE MCUpdateList ----------------------------
(* Entries of two products, some for other machines, some incomplete.      *)
EXTENDS UpdateList, TLC

CONSTANTS game, tool, m1, m2

MCTexts == {"1", "2", "3", "4", "a", "b", "c", "d", "e", "f", "g", "maps",
            "ppc", "x86", "any"} \union {game, tool, m1, m2}

Fields(c, v, a, ap, f) ==
  [k \in Keys |-> CASE k = "Component" -> c
                    [] k = "Version" -> v
                    [] k = "Architecture" -> a
                    [] k = "Applies" -> ap
                    [] k = "File" -> f]

Entry(p, f, m) == [product |-> p, fields |-> f, mirrors |-> m]

MCEntries ==
  { Entry(game, Fields(<< >>, <<"2">>, << >>, <<"1">>, <<"a">>), <<m1>>),
    Entry(game, Fields(<< >>, <<"3">>, <<"ppc", "x86">>, <<"1", "2">>, <<"b">>), << >>),
    Entry(game, Fields(<<"maps">>, <<"1">>, << >>, <<"1">>, <<"c">>), << >>),
    Entry(game, Fields(<<"maps">>, <<"2">>, <<"ppc">>, <<"1">>, <<"d">>), <<m2>>),
    Entry(game, Fields(<< >>, <<"4">>, << >>, << >>, <<"e">>), << >>),
    Entry(game, Fields(<< >>, << >>, << >>, <<"3">>, <<"f">>), <<m2>>),
    Entry(tool, Fields(<< >>, <<"2">>, << >>, <<"1">>, << >>), << >>),
    Entry(tool, Fields(<< >>, <<"2">>, <<"any">>, <<"1">>, <<"g">>), << >>) }

MCOrders == { <<"Component", "Version", "Architecture", "Applies", "File">>,
              <<"File", "Applies", "Component", "Architecture", "Version">> }
=============================================================================
