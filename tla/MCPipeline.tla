------------------------------- MODULE MCPipeline -----------------------------
(***************************************************************************)
(* Three workloads with the files of an earlier experiment: mcf has a new  *)
(* trace and pinball; leela has neither, but the trimmed trace of the      *)
(* earlier one; xz has nothing.                                            *)
(***************************************************************************)
EXTENDS Pipeline

ThreeNames == {"mcf", "leela", "xz"}
Both == <<"mcf", "leela">>

Left == [f \in Files |->
  CASE f \in {"pinball", "mem_trace_out"} -> "new"
    [] f = "trimmed_trace" -> "absent"
    [] OTHER -> "old"]
LeftOfLeela == [f \in Files |-> IF f \in {"pinball", "mem_trace_out"} THEN "absent" ELSE "old"]
LeftByEarlier == [n \in ThreeNames |->
  CASE n = "mcf" -> Left [] n = "leela" -> LeftOfLeela [] OTHER -> [f \in Files |-> "absent"]]

\* One step that is left behind at a time, then the group of three steps that the script
\* calls those of the tutorial in one go, perf_proxy on a proxy that may not be compiled yet
\* and the json of both at the same time.  What is invoked last hangs.
ByOneAndTogether == <<
  MainLoop(<<"mcf">>, <<"make_JSON">>), MainLoop(<<"leela">>, <<"make_JSON">>),
  MainLoop(Both, <<"trim", "halo_trace">>),
  MainLoop(Both, <<"log_convert">>),
  MainLoop(Both, <<"make_ll_json">>),
  MainLoop(Both, <<"make_linked_list">>),
  MainLoop(Both, <<"make_proxy">>),
  MainLoop(Both, <<"compile_proxy">>), MainLoop(Both, <<"perf_proxy">>),
  MainLoop(<<"mcf">>, <<"log_convert", "make_ll_json", "make_linked_list">>),
  MainLoop(<<"leela">>, <<"compile_proxy", "perf_proxy">>),
  MainLoop(Both, <<"make_JSON">>),
  MainLoop(<<"xz">>, <<"log_convert">>) >>
================================================================================
