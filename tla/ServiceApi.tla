----------------------------- MODULE ServiceApi ------------------------------
(****************************************************************************)
(* The methods that the four service APIs share (class ServiceApi).         *)
(****************************************************************************)
EXTENDS Forms

CommonMethods == UNION {
    Methods({"config_get", "help"}, {}, {}),
    Open(Methods({"config_set", "stats", "ue_get"}, {}, {})),
    Renamed({<<"min_", "min">>, <<"max_", "max">>},
      Methods({"log_get"}, {}, {"min_", "max_", "timeout", "layer"})),
    Open(Aliases({<<"log_set", "config_set">>}, {}, {"layers"})) }
==============================================================================
