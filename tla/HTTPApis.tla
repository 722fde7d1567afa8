------------------------------ MODULE HTTPApis -------------------------------
(****************************************************************************)
(* The methods of the HTTP client: the request each makes of the REST service.*)
(****************************************************************************)
EXTENDS Forms

EnbHttpUe == UNION {
    At("GET", {<<"help", "help">>, <<"config_get", "config">>}),
    InQuery(Flags({"samples", "rf"}, At("GET", {<<"stats", "stats">>}))),
    InBody(Open(At("POST", {<<"config_set", "config">>}))),
    When({"enb_ue_id"}, Ignores({"imsi"}, Takes({}, {"imsi", "enb_ue_id"},
      At("GET", {<<"ue_get", "ue", "{enb_ue_id}">>})))),
    InQuery(Ignores({"enb_ue_id"}, Takes({}, {"imsi", "enb_ue_id"}, Drops({"imsi"},
      At("GET", {<<"ue_get", "ue">>}))))),
    InBodyIfAny(Takes({"enb_ue_id"}, {"cause", "redirect_freq"},
    Drops({"cause", "redirect_freq"},
      At("POST", {<<"rrc_release", "ue", "{enb_ue_id}", "rrc-release">>})))),
    InBody(Takes({"enb_ue_id", "target_cell_id"}, {"target_pci"},
      At("POST", {<<"handover", "ue", "{enb_ue_id}", "handover">>}))) }

EnbHttpCells == UNION {
    When({"cell_id"}, Takes({}, {"cell_id"},
      At("GET", {<<"cells_get", "cells", "{cell_id}">>}))),
    Ignores({"cell_id"}, Takes({}, {"cell_id"},
      At("GET", {<<"cells_get", "cells">>}))),
    InBody(Takes({"cell_id", "gain"}, {},
      At("POST", {<<"cell_gain", "cells", "{cell_id}", "gain">>}))),
    InBody(Takes({"imsi"}, {}, Presets({<<"domain", "ps">>},
      At("POST", {<<"paging", "paging">>})))),
    InQuery(Takes({}, {"min_", "max_", "layer", "timeout"}, Drops({"layer"},
    Renamed({<<"min_", "min">>, <<"max_", "max">>},
      At("GET", {<<"log_get", "logs">>}))))),
    InBody(Takes({}, {"layers", "max_size"}, Drops({"layers", "max_size"},
      At("POST", {<<"log_set", "logs", "config">>})))),
    At("POST", {<<"quit", "quit">>}) }

MmeHttpUe == UNION {
    At("GET", {<<"version", "version">>, <<"help", "help">>, <<"stats", "stats">>,
               <<"config_get", "config">>}),
    InBody(Open(At("POST", {<<"config_set", "config">>}))),
    When({"mme_ue_id"}, Ignores({"imsi"}, Takes({}, {"imsi", "mme_ue_id"},
      At("GET", {<<"ue_get", "ue", "{mme_ue_id}">>})))),
    InQuery(Ignores({"mme_ue_id"}, Takes({}, {"imsi", "mme_ue_id"}, Drops({"imsi"},
      At("GET", {<<"ue_get", "ue">>}))))),
    InBody(Takes({"imsi"}, {"cause"}, Drops({"cause"},
      At("POST", {<<"ue_release", "ue", "release">>})))),
    InBody(Takes({"imsi"}, {"apn", "pdn_type"}, Drops({"apn", "pdn_type"},
      At("POST", {<<"pdn_connect", "pdn", "connect">>})))),
    InBody(Takes({"imsi"}, {"apn"}, Drops({"apn"},
      At("POST", {<<"pdn_disconnect", "pdn", "disconnect">>})))),
    InBody(Takes({"imsi", "qci"}, {"apn", "gbr_dl", "gbr_ul", "mbr_dl", "mbr_ul"},
    Drops({"apn"},
      At("POST", {<<"bearer_activate", "bearer", "activate">>})))) }

MmeHttpBearers == UNION {
    InBody(Takes({"imsi", "bearer_id"}, {},
      At("POST", {<<"bearer_deactivate", "bearer", "deactivate">>}))),
    InBody(
    Takes({"imsi", "bearer_id"}, {"qci", "gbr_dl", "gbr_ul", "mbr_dl", "mbr_ul"},
      At("POST", {<<"bearer_modify", "bearer", "modify">>}))),
    InBody(Takes({"imsi"}, {}, Presets({<<"domain", "ps">>},
      At("POST", {<<"paging", "paging">>})))),
    InBody(Takes({"imsi"}, {"cause"}, Presets({<<"detach_type", "network">>},
    Drops({"cause"},
      At("POST", {<<"detach", "detach">>}))))),
    At("GET", {<<"subscribers_get", "subscribers">>}),
    InBody(Open(Takes({"imsi", "key"}, {"opc", "apn"}, Drops({"opc", "apn"},
      At("POST", {<<"subscribers_add", "subscribers">>}))))),
    Takes({"imsi"}, {},
      At("DELETE", {<<"subscribers_delete", "subscribers", "{imsi}">>})) }

MmeHttpLogs == UNION {
    InQuery(Takes({}, {"min_", "max_", "layer", "timeout"}, Drops({"layer"},
    Renamed({<<"min_", "min">>, <<"max_", "max">>},
      At("GET", {<<"log_get", "logs">>}))))),
    InBody(Takes({}, {"layers", "max_size"}, Drops({"layers", "max_size"},
      At("POST", {<<"log_set", "logs", "config">>})))),
    At("GET", {<<"license", "license">>}),
    At("POST", {<<"quit", "quit">>}) }

ImsHttpUsers == UNION {
    At("GET", {<<"version", "version">>, <<"help", "help">>, <<"stats", "stats">>,
               <<"config_get", "config">>}),
    InBody(Open(At("POST", {<<"config_set", "config">>, <<"users_add", "users">>}))),
    InQuery(Flags({"registered_only"}, At("GET", {<<"users_get", "users">>}))),
    InBody(Open(Takes({"impu"}, {}, At("PUT", {<<"user_set", "users">>})))),
    InBody(Takes({"impu"}, {}, At("POST", {<<"unregister", "unregister">>}))),
    InBody(Open(Takes({"impu"}, {},
      At("POST", {<<"impu_set", "impu", "set">>, <<"impu_add", "impu", "add">>,
                  <<"mt_call", "call">>})))),
    Takes({"impu"}, {}, At("DELETE", {<<"impu_del", "impu", "{impu}">>})) }

ImsHttpCalls == UNION {
    InBody(Takes({"session_id"}, {"cause"},
      At("POST", {<<"call_release", "call", "release">>}))),
    InBody(Takes({"session_id", "target_impu"}, {},
    Presets({<<"transfer_type", "blind">>},
      At("POST", {<<"call_transfer", "call", "transfer">>})))),
    InBody(Takes({"session_ids"}, {}, Presets({<<"action", "create">>},
      At("POST", {<<"conference", "conference">>})))),
    InBody(Open(Takes({"impu"}, {}, Presets({<<"emergency_type", "general">>},
      At("POST", {<<"emergency_call", "call", "emergency">>}))))),
    InQuery(Takes({}, {"session_id"}, Drops({"session_id"},
      At("GET", {<<"dialog_get", "dialogs">>})))),
    InBody(Open(Takes({"session_id", "action"}, {},
      At("POST", {<<"dialog_set", "dialogs", "action">>})))),
    InBody(Takes({"impu"}, {"text", "binary_hex"}, Either("binary_hex", "text",
      At("POST", {<<"send_sms", "sms">>})))) }

ImsHttpMedia == UNION {
    At("POST", {<<"sms_flush", "sms", "flush">>}),
    InBody(Open(Takes({"impu", "filename"}, {},
      At("POST", {<<"send_mms", "mms">>})))),
    At("GET", {<<"mms_server", "mms", "server">>}),
    InBody(Open(Takes({"session_id", "media_type", "payload"}, {},
      At("POST", {<<"media_inject", "media", "inject">>})))),
    InBody(Open(Takes({"session_id", "action"}, {},
      At("POST", {<<"media_stream", "media", "stream">>})))),
    InBody(Open(Takes({"impu", "service"}, {}, Presets({<<"action", "activate">>},
      At("POST", {<<"supplementary_service", "supplementary">>}))))),
    InQuery(Takes({}, {"impu"}, Drops({"impu"},
      At("GET", {<<"registration_status", "registration">>})))) }

ImsHttpLogs == UNION {
    InQuery(Takes({}, {"min_", "max_", "layer", "timeout"}, Drops({"layer"},
    Renamed({<<"min_", "min">>, <<"max_", "max">>},
      At("GET", {<<"log_get", "logs">>}))))),
    InBody(Takes({}, {"layers", "max_size"}, Drops({"layers", "max_size"},
      At("POST", {<<"log_set", "logs", "config">>})))),
    At("GET", {<<"license", "license">>, <<"ipsec", "ipsec">>}),
    At("POST", {<<"quit", "quit">>}) }

UeHttpLife == UNION {
    At("GET", {<<"version", "version">>, <<"help", "help">>, <<"stats", "stats">>,
               <<"config_get", "config">>}),
    InBody(Open(At("POST", {<<"config_set", "config">>}))),
    InBodyIfAny(Takes({}, {"ue_id"},
      At("POST", {<<"power_on", "power-on">>, <<"power_off", "power-off">>}))),
    When({"ue_id"}, Ignores({"imsi"}, Takes({}, {"ue_id", "imsi"},
      At("GET", {<<"ue_get", "{ue_id}">>})))),
    InQuery(Ignores({"ue_id"}, Takes({}, {"ue_id", "imsi"}, Drops({"imsi"},
      At("GET", {<<"ue_get">>}))))),
    InBody(Takes({"ue_id", "def_bearer_id", "qci"}, {"gbr", "filters"},
    Twice({"ue_id"},
      At("POST", {
        <<"ue_activate_dedicated_bearer", "{ue_id}", "bearer", "activate">>})))) }

UeHttpAttach == UNION {
    InBody(Takes({"ue_id"}, {"preferred_rrc_state"}, Twice({"ue_id"},
      At("POST", {
        <<"ue_assistance_information", "{ue_id}", "assistance-info">>})))),
    InBody(Takes({"ue_id"}, {"apn", "pdn_type"}, Drops({"apn", "pdn_type"},
    Twice({"ue_id"},
      At("POST", {<<"pdn_connect", "{ue_id}", "pdn", "connect">>}))))),
    InBody(Takes({"ue_id"}, {"pdn_id"}, Twice({"ue_id"},
      At("POST", {<<"pdn_disconnect", "{ue_id}", "pdn", "disconnect">>})))),
    InBodyIfAny(Takes({}, {"ue_id"}, At("POST", {<<"attach", "attach">>}))),
    InBody(Takes({}, {"ue_id"}, Presets({<<"detach_type", "normal">>},
      At("POST", {<<"detach", "detach">>})))),
    Takes({"ue_id"}, {},
      At("POST", {<<"service_request", "{ue_id}", "service-request">>,
                  <<"tau", "{ue_id}", "tau">>,
                  <<"cell_search", "{ue_id}", "cell-search">>})),
    InBody(Takes({"ue_id", "cell_id"}, {},
      At("POST", {<<"cell_select", "{ue_id}", "cell-select">>}))) }

UeHttpLogs == UNION {
    InQuery(Takes({}, {"min_", "max_", "layer", "timeout"}, Drops({"layer"},
    Renamed({<<"min_", "min">>, <<"max_", "max">>},
      At("GET", {<<"log_get", "logs">>}))))),
    InBody(Takes({}, {"layers", "max_size"}, Drops({"layers", "max_size"},
      At("POST", {<<"log_set", "logs", "config">>})))),
    At("GET", {<<"license", "license">>}),
    At("POST", {<<"quit", "quit">>}) }

ENBHttpMethods == EnbHttpUe \cup EnbHttpCells
MMEHttpMethods == MmeHttpUe \cup MmeHttpBearers \cup MmeHttpLogs
IMSHttpMethods == ImsHttpUsers \cup ImsHttpCalls \cup ImsHttpMedia \cup ImsHttpLogs
UEHttpMethods == UeHttpLife \cup UeHttpAttach \cup UeHttpLogs
==============================================================================
