--------------------------- MODULE MCArtifactBuild ---------------------------
(* Small instances of ArtifactBuild: pairs of invocations of which the      *)
(* second can find all the first has left.                                  *)
EXTENDS ArtifactBuild

Line(e, b, c, m, s) ==
    [emit |-> e, backend |-> b, clean |-> c, manifest |-> m, fromSource |-> s]

WasmC      == Line("wasm", "c", FALSE, TRUE, FALSE)
WasmNative == Line("wasm", "native", FALSE, FALSE, FALSE)
Http       == Line("http", "c", FALSE, TRUE, TRUE)
StateDoc   == Line("http-state-doc", "native", FALSE, TRUE, FALSE)
HttpNativeLine == Line("http-native", "c", FALSE, TRUE, FALSE)
CliClean   == Line("cli", "native", TRUE, TRUE, FALSE)
CliNativeLine  == Line("cli-native", "c", FALSE, TRUE, FALSE)
Part       == Line("cli-adapter", "c", FALSE, TRUE, TRUE)
All        == Line("all", "c", FALSE, TRUE, FALSE)
Plug       == Line("compose", "c", FALSE, TRUE, FALSE)

MCHistories ==
    {<<WasmC, WasmNative>>, <<WasmNative, WasmC>>, <<HttpNativeLine, Http, Plug>>,
     <<Http, StateDoc>>, <<StateDoc, StateDoc>>, <<CliNativeLine, CliClean>>,
     <<Part, Part>>, <<Part, CliClean>>, <<All>>}
=============================================================================
