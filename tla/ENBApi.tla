------------------------------- MODULE ENBApi --------------------------------
(****************************************************************************)
(* The methods of ENBApi, the API of the eNB/gNB: what each sends.          *)
(****************************************************************************)
EXTENDS Forms

EnbCells == UNION {
    Open(Aliases({<<"config_set_cell", "config_set">>}, {"cell_id"}, {})),
    Flags({"samples", "rf"}, Methods({"stats"}, {}, {})),
    Open(Methods({"erab_get", "qos_flow_get"}, {}, {})),
    Methods({"cell_gain"}, {"cell_id", "gain"}, {}),
    Aliases({<<"rrc_release", "rrc_cnx_release">>},
      {"enb_ue_id"}, {"cause", "redirect_freq"}),
    Methods({"rf"}, {}, {"tx_gain", "rx_gain", "rx_agc"}) }

EnbRrc == UNION {
    Methods({"rrc_cnx_release", "rrc_ue_cap_enquiry"}, {"enb_ue_id"}, {}),
    Open(Methods({"rrc_cnx_reconf"}, {"enb_ue_id"}, {})),
    Methods({"rrc_ue_info_req"}, {"enb_ue_id", "req_mask"}, {}),
    Presets({<<"paging_type", "s1">>, <<"cn_domain", "ps">>},
    Renamed({<<"cell_ids", "cell_id">>, <<"paging_type", "type">>},
      Methods({"page_ue"}, {"cell_ids", "imsi"}, {}))),
    Methods({"sib_set"}, {"cell_id", "sib_data"}, {}),
    Methods({"dci_bwp_switch"}, {"enb_ue_id"}, {"dl_bwp_id", "ul_bwp_id"}) }

EnbInterfaces == UNION {
    Aliases({<<"s1_connect", "s1connect">>,
             <<"s1_disconnect", "s1disconnect">>,
             <<"ng_connect", "ngconnect">>,
             <<"ng_disconnect", "ngdisconnect">>, <<"x2_status", "x2">>,
             <<"ng_status", "ng">>, <<"s1_status", "s1">>}, {}, {}),
    Aliases({<<"set_dl_config", "config_set">>}, {"cell_id"},
        {"pdsch_mcs", "force_dl_schedule", "pdsch_fixed_rb_alloc",
         "pdsch_fixed_rb_start", "pdsch_fixed_l_crb"}),
    Aliases({<<"set_ul_config", "config_set">>}, {"cell_id"},
        {"pusch_mcs", "force_full_bsr", "pusch_fixed_rb_alloc",
         "pusch_fixed_rb_start", "pusch_fixed_l_crb"}),
    Methods({"pdcch_order_prach"}, {"enb_ue_id"}, {}) }

EnbCellsExtended == UNION {
    Open(Methods({"ue_activate_dedicated_bearer"}, {"enb_ue_id", "qci"}, {})),
    Presets({<<"disable", "True">>}, Methods({"cell_ul_disable"}, {"cell_id"}, {})),
    Methods({"noise_level"}, {}, {"cell_id", "noise"}),
    Methods({"snr"}, {}, {"enb_ue_id", "cell_id"}),
    Presets({<<"activate", "True">>}, Renamed({<<"scell_ids", "scell_id">>},
      Methods({"scells_act_deact"}, {"enb_ue_id", "scell_ids"}, {}))),
    Methods({"rf_gain"}, {}, {"tx_gain", "rx_gain"}),
    Methods({"rf_power"}, {}, {"cell_id"}) }

EnbMobility == UNION {
    Open(
      Methods({"handover", "nr_pscell_change"},
        {"enb_ue_id", "target_cell_id"}, {})),
    Methods({"mr_dc_scg_release"}, {"enb_ue_id"}, {}),
    Methods({"mr_dc_split_dl_ratio_change"}, {"enb_ue_id", "ratio"}, {}),
    Methods({"ncell_list_add"}, {"cell_id", "ncell"}, {}),
    Methods({"ncell_list_del"}, {"cell_id", "ncell_id"}, {}) }

EnbLinks == UNION {
    Aliases({<<"x2_connect", "x2connect">>,
             <<"x2_disconnect", "x2disconnect">>,
             <<"xn_connect", "xnconnect">>,
             <<"xn_disconnect", "xndisconnect">>}, {}, {"peer_addr"}),
    Aliases({<<"xn_status", "xn">>}, {}, {}),
    Open(Aliases({<<"s1_add", "s1add">>}, {"mme_addr"}, {})),
    Aliases({<<"s1_delete", "s1delete">>}, {"mme_addr"}, {}),
    Methods({"s1_reset"}, {}, {"mme_addr"}),
    Methods({"s1_enb_config_upd"}, {}, {}),
    Open(Aliases({<<"ng_add", "ngadd">>}, {"amf_addr"}, {})),
    Aliases({<<"ng_delete", "ngdelete">>}, {"amf_addr"}, {}) }

EnbUtilities == UNION {
    Aliases({<<"m2_status", "m2">>, <<"m2_connect", "m2connect">>,
             <<"m2_disconnect", "m2disconnect">>}, {}, {}),
    Presets({<<"enable", "True">>}, Methods({"sib14"}, {"cell_id"}, {})),
    Methods({"cancel"}, {"message_id"}, {}),
    Methods({"echo"}, {}, {"data"}),
    Open(Methods({"monitor", "register", "kpi_get"}, {}, {})),
    Methods({"quit", "log_reset"}, {}, {}),
    Open(Methods({"cmd"}, {"command"}, {})),
    Renamed({<<"min_", "min">>, <<"max_", "max">>},
      Methods({"log_bin_get"}, {}, {"min_", "max_"})) }

EnbPlatform == UNION {
    Methods({"en_dc_split_dl_ratio_change"}, {"enb_ue_id", "ratio"}, {}),
    Methods({"enb_pws_failure", "enb_pws_restart", "gnb_pws_failure",
             "gnb_pws_restart"}, {}, {"cell_id"}),
    Open(Methods({"ntn_satellite_update", "trx"}, {}, {})),
    Methods({"ntn_sv_file_update"}, {}, {"filename"}),
    Open(Methods({"trx_iq_dump"}, {"filename"}, {"duration"})),
    Methods({"cell_list"}, {}, {}) }

ENBApiMethods ==
    EnbCells \cup EnbRrc \cup EnbInterfaces \cup EnbCellsExtended \cup
    EnbMobility \cup EnbLinks \cup EnbUtilities \cup EnbPlatform
==============================================================================
