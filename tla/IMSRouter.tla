------------------------------ MODULE IMSRouter ------------------------------
(****************************************************************************)
(* The routes of the REST service under /ims, and the API method each calls.*)
(* Groups and segments are in the order of the source: the first match wins.*)
(****************************************************************************)
EXTENDS Forms

ImsInfoRoutes == UNION {
    At("GET", {<<"help", "help">>, <<"stats", "stats">>, <<"config_get", "config">>,
               <<"ue_get", "ue", "{ue_id}">>, <<"call_get", "calls">>,
               <<"call_get", "calls", "{call_id}">>}),
    OpenBody(At("POST", {<<"config_set", "config">>})),
    Takes({}, {"imsi"}, At("GET", {<<"ue_get", "ue">>})) }

ImsCallRoutes == UNION {
    Takes({"from_imsi", "to_imsi"}, {"audio", "video"},
    Presets({<<"audio", "True">>, <<"video", "False">>},
      At("POST", {<<"call_start", "calls">>}))),
    At("POST", {<<"call_answer", "calls", "{call_id}", "answer">>,
                <<"call_hangup", "calls", "{call_id}", "hangup">>,
                <<"call_hold", "calls", "{call_id}", "hold">>,
                <<"call_resume", "calls", "{call_id}", "resume">>}),
    Takes({"from_imsi", "to_imsi", "message"}, {},
      At("POST", {<<"sms_send", "sms">>})) }

ImsLogRoutes == UNION {
    Takes({}, {"min", "max", "layer", "timeout"},
    Renamed({<<"min", "min_">>, <<"max", "max_">>},
      At("GET", {<<"log_get", "logs">>}))),
    Body({}, {"layers", "max_size"}, Drops({"layers", "max_size"},
      At("POST", {<<"log_set", "logs", "config">>}))),
    At("POST", {<<"quit", "quit">>}) }

IMSRoutes ==
    <<ImsInfoRoutes, ImsCallRoutes, ImsLogRoutes>>
==============================================================================
