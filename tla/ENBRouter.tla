------------------------------ MODULE ENBRouter ------------------------------
(****************************************************************************)
(* The routes of the REST service under /enb, and the API method each calls.*)
(* Groups and segments are in the order of the source: the first match wins.*)
(****************************************************************************)
EXTENDS Forms

EnbInfoRoutes == UNION {
    At("GET", {<<"help", "help">>, <<"config_get", "config">>}),
    Takes({}, {"samples", "rf"},
    Presets({<<"samples", "False">>, <<"rf", "False">>},
      At("GET", {<<"stats", "stats">>}))),
    OpenBody(At("POST", {<<"config_set", "config">>})),
    Takes({}, {"imsi", "enb_ue_id"}, At("GET", {<<"ue_get", "ue">>})) }

EnbUeRoutes == UNION {
    At("GET", {<<"ue_get", "ue", "{enb_ue_id}">>}),
    MayBody({"cause", "redirect_freq"}, Drops({"cause", "redirect_freq"},
      At("POST", {<<"rrc_release", "ue", "{enb_ue_id}", "rrc-release">>}))),
    Body({"target_cell_id"}, {"target_pci"},
      At("POST", {<<"handover", "ue", "{enb_ue_id}", "handover">>})),
    Planned("fallback", At("GET", {<<"cell_list", "cells">>})),
    Planned("fallback", Ignores({"cell_id"},
      At("GET", {<<"cell_list", "cells", "{cell_id}">>}))) }

EnbCellRoutes == UNION {
    Body({"gain"}, {}, At("POST", {<<"cell_gain", "cells", "{cell_id}", "gain">>})),
    Body({"imsi"}, {"domain"}, Presets({<<"domain", "ps">>},
    Renamed({<<"domain", "cn_domain">>}, Fixed({<<"cell_ids", "[1]">>},
      At("POST", {<<"page_ue", "paging">>}))))),
    Takes({}, {"min", "max", "layer", "timeout"},
    Renamed({<<"min", "min_">>, <<"max", "max_">>},
      At("GET", {<<"log_get", "logs">>}))),
    Body({}, {"layers", "max_size"}, Drops({"layers", "max_size"},
      At("POST", {<<"log_set", "logs", "config">>}))),
    At("POST", {<<"quit", "quit">>}),
    Takes({"command"}, {}, At("POST", {<<"cmd", "cmd">>})) }

EnbCommandRoutes == UNION {
    At("POST", {<<"register", "register">>, <<"cancel", "cancel", "{message_id}">>,
                <<"monitor", "monitor">>, <<"log_reset", "logs", "reset">>}),
    Takes({}, {"data"}, At("POST", {<<"echo", "echo">>})),
    At("GET", {<<"kpi_get", "kpi">>, <<"rf", "rf">>}),
    Takes({}, {"min", "max"}, Renamed({<<"min", "min_">>, <<"max", "max_">>},
      At("GET", {<<"log_bin_get", "logs", "binary">>}))) }

EnbRfRoutes == UNION {
    Takes({}, {"tx_gain", "rx_gain"},
      At("POST", {<<"rf", "rf">>, <<"rf_gain", "rf", "gain">>})),
    At("GET", {<<"rf_gain", "rf", "gain">>, <<"trx", "trx">>}),
    Takes({}, {"cell_id"},
      At("GET", {<<"rf_power", "rf", "power">>, <<"noise_level", "noise-level">>})),
    Takes({}, {"enb_ue_id", "cell_id"}, At("GET", {<<"snr", "snr">>})),
    Takes({"cell_id", "noise"}, {}, At("POST", {<<"noise_level", "noise-level">>})) }

EnbRrcRoutes == UNION {
    Takes({"filename"}, {"duration"},
      At("POST", {<<"trx_iq_dump", "trx", "iq-dump">>})),
    Takes({}, {"enb_ue_id"}, Drops({"enb_ue_id"},
      At("GET", {<<"erab_get", "erab">>}))),
    At("GET", {<<"qos_flow_get", "qos-flow">>}),
    At("POST", {
      <<"rrc_cnx_reconf", "ue", "{enb_ue_id}", "rrc-reconf">>,
      <<"rrc_ue_cap_enquiry", "ue", "{enb_ue_id}", "ue-cap-enquiry">>,
      <<"pdcch_order_prach", "ue", "{enb_ue_id}", "pdcch-order-prach">>}),
    Takes({"req_mask"}, {},
      At("POST", {<<"rrc_ue_info_req", "ue", "{enb_ue_id}", "ue-info-req">>})) }

EnbCarrierRoutes == UNION {
    Takes({"ratio"}, {},
      At("POST", {
        <<"en_dc_split_dl_ratio_change", "ue", "{enb_ue_id}", "en-dc-split-ratio">>,
        <<"mr_dc_split_dl_ratio_change", "ue", "{enb_ue_id}", "mr-dc-split-ratio">>})),
    At("POST", {<<"mr_dc_scg_release", "ue", "{enb_ue_id}", "mr-dc-scg-release">>}),
    Takes({"target_cell_id"}, {},
      At("POST", {
        <<"nr_pscell_change", "ue", "{enb_ue_id}", "nr-pscell-change">>})),
    Takes({"scell_ids"}, {"activate"}, Presets({<<"activate", "True">>},
      At("POST", {<<"scells_act_deact", "ue", "{enb_ue_id}", "scells">>}))),
    Takes({}, {"dl_bwp_id", "ul_bwp_id"},
      At("POST", {
        <<"dci_bwp_switch", "ue", "{enb_ue_id}", "dci-bwp-switch">>})),
    Takes({}, {"disable"}, Presets({<<"disable", "True">>},
      At("POST", {
        <<"cell_ul_disable", "cells", "{cell_id}", "ul-disable">>}))) }

EnbWarningRoutes == UNION {
    Takes({}, {"enable"}, Presets({<<"enable", "True">>},
      At("POST", {<<"sib14", "cells", "{cell_id}", "sib14">>}))),
    Takes({"ncell_id"}, {}, Renamed({<<"ncell_id", "ncell">>},
      At("POST", {
        <<"ncell_list_add", "cells", "{cell_id}", "ncell", "add">>}))),
    At("DELETE", {
      <<"ncell_list_del", "cells", "{cell_id}", "ncell", "{ncell_id}">>}),
    Takes({}, {"cell_id"},
      At("POST", {<<"enb_pws_failure", "pws", "enb-failure">>,
                  <<"enb_pws_restart", "pws", "enb-restart">>,
                  <<"gnb_pws_failure", "pws", "gnb-failure">>,
                  <<"gnb_pws_restart", "pws", "gnb-restart">>})),
    At("POST", {<<"ntn_satellite_update", "ntn", "satellite-update">>}) }

EnbS1Routes == UNION {
    Takes({}, {"filename"},
      At("POST", {<<"ntn_sv_file_update", "ntn", "sv-file-update">>})),
    At("GET", {<<"s1_status", "interface", "s1">>}),
    At("POST", {<<"s1_connect", "interface", "s1", "connect">>,
                <<"s1_disconnect", "interface", "s1", "disconnect">>,
                <<"s1_enb_config_upd", "interface", "s1", "config-update">>}),
    Takes({"mme_addr"}, {}, At("POST", {<<"s1_add", "interface", "s1", "add">>})),
    At("DELETE", {<<"s1_delete", "interface", "s1", "{mme_addr}">>}),
    Takes({}, {"mme_addr"},
      At("POST", {<<"s1_reset", "interface", "s1", "reset">>})) }

EnbNgRoutes == UNION {
    At("GET", {<<"ng_status", "interface", "ng">>,
               <<"x2_status", "interface", "x2">>}),
    At("POST", {<<"ng_connect", "interface", "ng", "connect">>,
                <<"ng_disconnect", "interface", "ng", "disconnect">>}),
    Takes({"amf_addr"}, {}, At("POST", {<<"ng_add", "interface", "ng", "add">>})),
    At("DELETE", {<<"ng_delete", "interface", "ng", "{amf_addr}">>}),
    Takes({}, {"peer_addr"},
      At("POST", {<<"x2_connect", "interface", "x2", "connect">>,
                  <<"x2_disconnect", "interface", "x2", "disconnect">>})) }

EnbXnRoutes == UNION {
    At("GET", {<<"xn_status", "interface", "xn">>,
               <<"m2_status", "interface", "m2">>}),
    Takes({}, {"peer_addr"},
      At("POST", {<<"xn_connect", "interface", "xn", "connect">>,
                  <<"xn_disconnect", "interface", "xn", "disconnect">>})),
    At("POST", {<<"m2_connect", "interface", "m2", "connect">>,
                <<"m2_disconnect", "interface", "m2", "disconnect">>}) }

ENBRoutes ==
    <<EnbInfoRoutes, EnbUeRoutes, EnbCellRoutes, EnbCommandRoutes,
    EnbRfRoutes, EnbRrcRoutes, EnbCarrierRoutes, EnbWarningRoutes,
    EnbS1Routes, EnbNgRoutes, EnbXnRoutes>>
==============================================================================
