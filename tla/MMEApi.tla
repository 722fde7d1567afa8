------------------------------- MODULE MMEApi --------------------------------
(****************************************************************************)
(* The methods of MMEApi, the API of the MME/AMF: what each sends.          *)
(****************************************************************************)
EXTENDS Forms

MmeBearers == UNION {
    Aliases({<<"enb_status", "enb">>, <<"gnb_status", "gnb">>,
             <<"ng_ran_status", "ng_ran">>}, {}, {}),
    Methods({"ue_detach"}, {}, {"imsi", "imei"}),
    Methods({"ue_deactivate_bearer"}, {"erab_id"}, {"imsi", "imei"}),
    Methods({"ue_modify_bearer"},
      {"imsi", "erab_id", "qci"},
      {"priority_level", "pre_emption_capability",
       "pre_emption_vulnerability"}) }

MmePolicies == UNION {
    Methods({"mt_cs_paging"}, {"imsi"}, {}),
    Methods({"attach_reject_filter"}, {"imsi", "emm_cause"}, {}),
    Fixed({<<"clear", "True">>},
      Aliases({<<"attach_reject_filter_clear", "attach_reject_filter">>},
        {}, {})),
    Fixed({<<"reject", "True">>},
      Aliases(
        {<<"registration_reject_filter", "registration_mobility_periodic">>},
        {"imsi", "cause"}, {})),
    Aliases({<<"set_t3512", "t3512">>}, {"value"}, {}),
    Open(Methods({"pdn_list"}, {"apn"}, {})) }

MmeSubscribers == UNION {
    Presets({<<"apn", "default">>, <<"pdn_type", "ipv4">>, <<"qci", "9">>,
             <<"priority_level", "15">>},
    Renamed({<<"first_ip", "first_ip_addr">>, <<"last_ip", "last_ip_addr">>,
             <<"dns", "dns_addr">>},
      Aliases({<<"set_default_apn", "pdn_list">>},
        {}, {"first_ip", "last_ip", "dns"}))),
    Open(Presets({<<"apn", "default">>}, Renamed({<<"ki", "Ki">>, <<"opc", "OPc">>},
      Methods({"ue_add"}, {"imsi"}, {"ki", "opc"})))),
    Methods({"ue_del"}, {}, {"imsi", "imei"}) }

MmeSessions == UNION {
    Open(Methods({"ue_set"}, {}, {"imsi", "imei"})),
    Presets({<<"identity_type", "imei">>},
      Methods({"ue_identity_request"}, {}, {"imsi", "imei"})),
    Open(
    Presets({<<"priority_level", "15">>,
             <<"pre_emption_capability", "shall_not_trigger">>,
             <<"pre_emption_vulnerability", "pre_emptable">>},
      Methods({"ue_activate_dedicated_bearer"}, {"imsi", "apn", "qci"}, {}))),
    Open(Methods({"ue_modify_pdu_session"}, {"imsi", "pdu_session_id"}, {})) }

MmeTransport == UNION {
    Renamed({<<"enabled", "reflective_qos">>},
      Methods({"ue_modify_reflective_qos"},
        {"imsi", "pdu_session_id", "enabled"}, {})),
    Presets({<<"action", "start">>},
      Methods({"ue_nssaa"},
        {"imsi", "slice_service_type"}, {"slice_differentiator"})),
    Methods({"ue_s_nssai_update"}, {"imsi", "allowed_nssai"}, {}),
    Presets({<<"payload_type", "n1">>},
      Aliases({<<"nas_5gs_transport", "5gs_nas_transport">>},
        {"imsi", "payload"}, {})),
    Methods({"generic_nas_transport"}, {"imsi", "container_type", "container"}, {}) }

MmePaging == UNION {
    Methods({"guti_realloc"}, {}, {"imsi", "imei"}),
    Methods({"mt_data_paging"}, {"imsi"}, {"apn"}),
    Methods({"mme_paging_status"}, {}, {"imsi"}),
    Methods({"t3346"}, {"value"}, {}),
    Open(Presets({<<"action", "start">>}, Methods({"lcs"}, {"imsi"}, {}))),
    Open(Presets({<<"location_type", "current">>},
      Methods({"location_req"}, {"imsi"}, {}))) }

MmePositioning == UNION {
    Open(Presets({<<"method", "ecid">>},
      Methods({"lpp_request_location"}, {"imsi"}, {}))),
    Methods({"lpp_provide_ad"}, {"imsi", "assistance_data"}, {}),
    Open(Methods({"lpp_request_ad"}, {"imsi"}, {})),
    Methods({"lpp_request_capabilities"}, {"imsi"}, {}),
    Methods({"lpp_abort"}, {"imsi"}, {"transaction_id"}),
    Methods({"lpp_error"}, {"imsi", "error_code"}, {"transaction_id"}) }

MmeDiameter == UNION {
    Methods({"s6_status", "s6_disconnect", "s13_status", "s13_disconnect",
             "sgs_status", "sgs_disconnect"}, {}, {}),
    Open(Presets({<<"port", "3868">>},
      Methods({"s6_connect", "s13_connect"}, {"host"}, {}))),
    Open(Presets({<<"port", "29118">>}, Methods({"sgs_connect"}, {"host"}, {}))) }

MmeCore5G == UNION {
    Methods({"n8_status", "n8_disconnect", "n12_status", "n12_disconnect",
             "n13_status", "n13_disconnect", "n17_status"}, {}, {}),
    Open(Presets({<<"port", "443">>},
      Methods({"n8_connect", "n12_connect", "n13_connect", "n17_connect"},
        {"host"}, {}))) }

MmeLocationLinks == UNION {
    Methods({"n17_disconnect", "nl1_status", "nl1_disconnect", "slm_status",
             "slm_disconnect", "sls_status", "sls_disconnect"}, {}, {}),
    Open(Presets({<<"port", "443">>}, Methods({"nl1_connect"}, {"host"}, {}))),
    Open(Presets({<<"port", "3868">>}, Methods({"slm_connect"}, {"host"}, {}))),
    Open(Presets({<<"port", "29171">>}, Methods({"sls_connect"}, {"host"}, {}))) }

MmeWarnings == UNION {
    Methods({"cbc_notif_subscribe"}, {"callback_url"}, {}),
    Methods({"cbc_notif_unsubscribe"}, {}, {"subscription_id"}),
    Methods({"pws_kill"}, {"message_id"}, {"serial_number"}),
    Open(Methods({"pws_write"}, {"message_id", "serial_number", "payload"}, {})),
    Methods({"sbc_status", "sbc_disconnect"}, {}, {}),
    Open(Presets({<<"port", "29168">>}, Methods({"sbc_connect"}, {"host"}, {}))) }

MmeSmsAndIntercept == UNION {
    Methods({"n50_status", "n50_disconnect", "li_status"}, {}, {}),
    Open(Presets({<<"port", "443">>}, Methods({"n50_connect"}, {"host"}, {}))),
    Open(Methods({"sms_send"}, {"imsi", "text"}, {"originating_addr"})),
    Methods({"sms_status"}, {}, {"imsi"}),
    Open(Methods({"li_start"}, {"imsi"}, {})),
    Methods({"li_stop"}, {}, {"imsi", "li_id"}) }

MmeMobility == UNION {
    Methods({"tau_reject_filter", "service_reject_filter"},
      {"imsi", "emm_cause"}, {}),
    Fixed({<<"clear", "True">>},
      Aliases({<<"tau_reject_filter_clear", "tau_reject_filter">>,
               <<"service_reject_filter_clear", "service_reject_filter">>},
        {}, {})),
    Open(Methods({"registration_mobility_periodic"}, {}, {"imsi"})),
    Open(Methods({"slice_get"}, {}, {})),
    Open(Methods({"slice_add"}, {"sst"}, {"sd"})) }

MmeLimits == UNION {
    Methods({"slice_del"}, {"sst"}, {"sd"}),
    Methods({"ue_ambr_update"}, {"imsi", "dl_ambr", "ul_ambr"}, {}),
    Methods({"session_ambr_update"},
      {"imsi"}, {"pdu_session_id", "apn", "dl_ambr", "ul_ambr"}),
    Methods({"cancel"}, {"request_id"}, {}),
    Methods({"echo"}, {}, {"data"}),
    Methods({"license"}, {}, {}) }

MmeUtilities == UNION {
    Presets({<<"enable", "True">>}, Methods({"monitor"}, {}, {"events"})),
    Methods({"quit", "version", "log_reset"}, {}, {}),
    Methods({"log_bin_get"}, {}, {"start_time", "end_time", "max_count"}),
    Aliases({<<"apn_get", "ue_get">>}, {}, {}) }

MmeControl == UNION {
    Open(Methods({"cmd"}, {"command"}, {})),
    Open(Methods({"register", "s1_reset"}, {}, {})),
    Methods({"s1_mme_config_upd"}, {}, {}),
    Open(Aliases({<<"n5_connect", "n5peerconnect">>}, {}, {})),
    Open(Methods({"n5_events_subscribe", "n5_events_unsubscribe"}, {}, {"imsi"})),
    Open(Methods({"n5_session_create", "n5_session_terminate"}, {"imsi"}, {})) }

MmePeers == UNION {
    Open(Aliases({<<"n8_peer_connect", "n8peerconnect">>}, {}, {})),
    Open(Methods({"n8_dereg_notify"}, {"imsi"}, {})),
    Aliases({<<"lcs_connect", "lcsconnect">>,
             <<"lcs_disconnect", "lcsdisconnect">>}, {}, {}),
    Open(
      Methods({"lcsap_reset_req", "lmf_client_connect",
               "lmf_non_ue_n2_subscribe", "lmf_non_ue_n2_unsubscribe"},
        {}, {})),
    Open(
      Methods({"lmf_ue_n1_n2_subscribe", "lmf_ue_n1_n2_unsubscribe"},
        {}, {"imsi"})) }

MmeLocation5G == UNION {
    Open(Methods({"nr_location_req", "nr_cancel_location"}, {"imsi"}, {})),
    Open(
      Methods({"nr_otdoa_information_req", "otdoa_information_req",
               "reset_ue_pos_stored_info", "ecid_periodic_meas_termination"},
        {}, {"imsi"})),
    Open(Methods({"trp_information_req"}, {}, {})) }

MmeOther == UNION {
    Open(Methods({"me_add", "me_del"}, {"imei"}, {})),
    Open(Methods({"connectionless_info"}, {}, {})),
    Open(Methods({"eth_pdu"}, {}, {"imsi"})),
    Open(Methods({"non_ip_data"}, {}, {"imsi", "data"})),
    Open(Methods({"ursp_rules"}, {}, {"imsi", "rules"})) }

MMEApiMethods ==
    MmeBearers \cup MmePolicies \cup MmeSubscribers \cup MmeSessions \cup
    MmeTransport \cup MmePaging \cup MmePositioning \cup MmeDiameter \cup
    MmeCore5G \cup MmeLocationLinks \cup MmeWarnings \cup
    MmeSmsAndIntercept \cup MmeMobility \cup MmeLimits \cup MmeUtilities
    \cup MmeControl \cup MmePeers \cup MmeLocation5G \cup MmeOther
==============================================================================
