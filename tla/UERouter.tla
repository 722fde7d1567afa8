------------------------------ MODULE UERouter -------------------------------
(****************************************************************************)
(* The routes of the REST service under /ue, and the API method each calls. *)
(* Groups and segments are in the order of the source: the first match wins.*)
(****************************************************************************)
EXTENDS Forms

UeInfoRoutes == UNION {
    At("GET", {<<"help", "help">>, <<"stats", "stats">>,
               <<"config_get", "config">>}),
    OpenBody(At("POST", {<<"config_set", "config">>})),
    Takes({}, {"ue_id", "imsi"}, At("GET", {<<"ue_get", "list">>})) }

UePowerRoutes == UNION {
    At("GET", {<<"ue_get", "{ue_id}">>}),
    MayBody({"ue_id"},
      At("POST", {<<"power_on", "power", "on">>, <<"power_off", "power", "off">>})),
    At("POST", {<<"power_on", "{ue_id}", "power", "on">>,
                <<"power_off", "{ue_id}", "power", "off">>}),
    Takes({"def_bearer_id", "qci"}, {},
      At("POST", {
        <<"ue_activate_dedicated_bearer", "{ue_id}", "bearer", "dedicated">>})),
    Takes({"preferred_state"}, {},
    Renamed({<<"preferred_state", "preferred_rrc_state">>},
      At("POST", {
        <<"ue_assistance_information", "{ue_id}", "rrc", "assistance">>}))) }

UeLogRoutes == UNION {
    Takes({}, {"min", "max", "layer", "timeout"},
    Renamed({<<"min", "min_">>, <<"max", "max_">>},
      At("GET", {<<"log_get", "logs">>}))),
    Body({}, {"layers", "max_size"}, Drops({"layers", "max_size"},
      At("POST", {<<"log_set", "logs", "config">>}))) }

UERoutes ==
    <<UeInfoRoutes, UePowerRoutes, UeLogRoutes>>
==============================================================================
