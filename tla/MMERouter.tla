------------------------------ MODULE MMERouter ------------------------------
(****************************************************************************)
(* The routes of the REST service under /mme, and the API method each calls.*)
(* Groups and segments are in the order of the source: the first match wins.*)
(****************************************************************************)
EXTENDS Forms

MmeUeRoutes == UNION {
    At("GET", {<<"help", "help">>, <<"stats", "stats">>, <<"config_get", "config">>,
               <<"ue_get", "ue", "{mme_ue_id}">>,
               <<"ue_get", "ue", "imsi", "{imsi}">>}),
    OpenBody(At("POST", {<<"config_set", "config">>})),
    Takes({}, {"imsi", "mme_ue_id"}, At("GET", {<<"ue_get", "ue">>})) }

MmeSessionRoutes == UNION {
    MayBody({"cause"}, Drops({"cause"},
      At("POST", {<<"ue_release", "ue", "{mme_ue_id}", "release">>,
                  <<"ue_release", "ue", "imsi", "{imsi}", "release">>}))),
    Body({"apn"}, {"pdn_type", "qci"}, Presets({<<"pdn_type", "ipv4">>},
      At("POST", {<<"pdn_connect", "ue", "{mme_ue_id}", "pdn">>}))),
    At("DELETE", {<<"pdn_disconnect", "ue", "{mme_ue_id}", "pdn", "{pdn_id}">>}),
    Body({"qci"}, {"gbr_dl", "gbr_ul", "mbr_dl", "mbr_ul", "arp_priority", "tft"},
      At("POST", {<<"bearer_activate", "ue", "{mme_ue_id}", "bearer">>})) }

MmeSmsRoutes == UNION {
    At("DELETE", {
      <<"bearer_deactivate", "ue", "{mme_ue_id}", "bearer", "{bearer_id}">>}),
    Takes({"message"}, {},
      At("POST", {<<"sms_send", "ue", "{mme_ue_id}", "sms">>,
                  <<"sms_send", "ue", "imsi", "{imsi}", "sms">>})),
    Takes({"imsi"}, {}, At("POST", {<<"paging", "paging">>})),
    Takes({}, {"min", "max", "layer", "timeout"},
    Renamed({<<"min", "min_">>, <<"max", "max_">>},
      At("GET", {<<"log_get", "logs">>}))),
    Body({}, {"layers", "max_size"}, Drops({"layers", "max_size"},
      At("POST", {<<"log_set", "logs", "config">>}))),
    At("GET", {<<"apn_get", "apn">>}) }

MmeCommandRoutes == UNION {
    At("POST", {<<"quit", "quit">>, <<"register", "register">>,
                <<"monitor", "monitor">>, <<"log_reset", "logs", "reset">>}),
    Takes({"command"}, {}, At("POST", {<<"cmd", "cmd">>})),
    Takes({}, {"data"}, At("POST", {<<"echo", "echo">>})),
    Renamed({<<"message_id", "request_id">>},
      At("POST", {<<"cancel", "cancel", "{message_id}">>})),
    Takes({}, {"start_time", "end_time", "max_count"},
      At("GET", {<<"log_bin_get", "logs", "binary">>})) }

MmeDiameterRoutes == UNION {
    At("POST", {<<"s1_mme_config_upd", "interface", "s1", "config-update">>,
                <<"s1_reset", "interface", "s1", "reset">>,
                <<"s6_connect", "interface", "s6", "connect">>,
                <<"s6_disconnect", "interface", "s6", "disconnect">>,
                <<"s13_connect", "interface", "s13", "connect">>,
                <<"s13_disconnect", "interface", "s13", "disconnect">>}),
    At("GET", {<<"s6_status", "interface", "s6">>,
               <<"s13_status", "interface", "s13">>,
               <<"sgs_status", "interface", "sgs">>}) }

MmeUdmRoutes == UNION {
    At("POST", {<<"sgs_connect", "interface", "sgs", "connect">>,
                <<"sgs_disconnect", "interface", "sgs", "disconnect">>,
                <<"n8_connect", "interface", "n8", "connect">>,
                <<"n8_disconnect", "interface", "n8", "disconnect">>,
                <<"n8_peer_connect", "interface", "n8", "peer-connect">>}),
    At("GET", {<<"n8_status", "interface", "n8">>,
               <<"n12_status", "interface", "n12">>}),
    Takes({"imsi"}, {},
      At("POST", {<<"n8_dereg_notify", "interface", "n8", "dereg-notify">>})) }

MmeCoreRoutes == UNION {
    At("POST", {<<"n12_connect", "interface", "n12", "connect">>,
                <<"n12_disconnect", "interface", "n12", "disconnect">>,
                <<"n13_connect", "interface", "n13", "connect">>,
                <<"n13_disconnect", "interface", "n13", "disconnect">>,
                <<"n17_connect", "interface", "n17", "connect">>,
                <<"n17_disconnect", "interface", "n17", "disconnect">>,
                <<"n5_connect", "interface", "n5", "connect">>}),
    At("GET", {<<"n13_status", "interface", "n13">>,
               <<"n17_status", "interface", "n17">>}) }

MmePolicyRoutes == UNION {
    Takes({}, {"imsi"},
      At("POST", {
        <<"n5_events_subscribe", "interface", "n5", "events", "subscribe">>,
        <<"n5_events_unsubscribe", "interface", "n5", "events", "unsubscribe">>})),
    Takes({"imsi"}, {},
      At("POST", {
        <<"n5_session_create", "interface", "n5", "session", "create">>,
        <<"n5_session_terminate", "interface", "n5", "session", "terminate">>,
        <<"location_req", "lcs", "location-request">>})),
    At("POST", {<<"lcs_connect", "interface", "lcs", "connect">>,
                <<"lcs_disconnect", "interface", "lcs", "disconnect">>,
                <<"lcsap_reset_req", "interface", "lcs", "reset">>}) }

MmeLmfRoutes == UNION {
    At("POST", {
      <<"lmf_client_connect", "interface", "lmf", "connect">>,
      <<"lmf_non_ue_n2_subscribe", "interface", "lmf", "non-ue-n2", "subscribe">>,
      <<"lmf_non_ue_n2_unsubscribe", "interface", "lmf", "non-ue-n2", "unsubscribe">>}),
    Takes({}, {"imsi"},
      At("POST", {
        <<"lmf_ue_n1_n2_subscribe", "interface", "lmf", "ue-n1-n2", "subscribe">>,
        <<"lmf_ue_n1_n2_unsubscribe", "interface", "lmf", "ue-n1-n2", "unsubscribe">>,
        <<"nr_otdoa_information_req", "location", "nr-otdoa-info">>})),
    Takes({"imsi"}, {},
      At("POST", {<<"nr_location_req", "location", "nr-request">>,
                  <<"nr_cancel_location", "location", "nr-cancel">>})) }

MmeLocationRoutes == UNION {
    Takes({}, {"imsi"},
      At("POST", {
        <<"otdoa_information_req", "location", "otdoa-info">>,
        <<"reset_ue_pos_stored_info", "location", "reset-stored-info">>,
        <<"ecid_periodic_meas_termination", "location", "ecid-terminate">>,
        <<"eth_pdu", "data", "eth-pdu">>})),
    At("POST", {<<"trp_information_req", "location", "trp-info">>,
                <<"connectionless_info", "data", "connectionless">>}),
    Takes({"imei"}, {}, At("POST", {<<"me_add", "me", "add">>})),
    At("DELETE", {<<"me_del", "me", "{imei}">>}) }

MmeUrspRoutes == UNION {
    Takes({}, {"imsi", "data"}, At("POST", {<<"non_ip_data", "data", "non-ip">>})),
    Planned("lookup", At("GET", {<<"ursp_rules", "ue", "{mme_ue_id}", "ursp">>})),
    At("GET", {<<"ursp_rules", "ue", "imsi", "{imsi}", "ursp">>,
               <<"sbc_status", "interface", "sbc">>}),
    At("POST", {<<"sbc_connect", "interface", "sbc", "connect">>,
                <<"sbc_disconnect", "interface", "sbc", "disconnect">>,
                <<"pws_write", "pws", "write">>, <<"pws_kill", "pws", "kill">>}) }

MmeNasRoutes == UNION {
    At("GET", {<<"ng_ran_status", "ng-ran">>, <<"enb_status", "enb">>,
               <<"gnb_status", "gnb">>}),
    Takes({"imsi"}, {},
      At("POST", {<<"nas_5gs_transport", "nas", "5gs-transport">>,
                  <<"generic_nas_transport", "nas", "generic-transport">>})),
    Planned("lookup",
      At("POST", {<<"guti_realloc", "ue", "{mme_ue_id}", "guti-realloc">>})),
    At("POST", {<<"guti_realloc", "ue", "imsi", "{imsi}", "guti-realloc">>}) }

MmeBroadcastRoutes == UNION {
    Takes({"imsi"}, {}, At("POST", {<<"mt_cs_paging", "paging", "cs">>})),
    At("POST", {<<"cbc_notif_subscribe", "cbc", "subscribe">>,
                <<"cbc_notif_unsubscribe", "cbc", "unsubscribe">>}) }

MMERoutes ==
    <<MmeUeRoutes, MmeSessionRoutes, MmeSmsRoutes, MmeCommandRoutes,
    MmeDiameterRoutes, MmeUdmRoutes, MmeCoreRoutes, MmePolicyRoutes,
    MmeLmfRoutes, MmeLocationRoutes, MmeUrspRoutes, MmeNasRoutes,
    MmeBroadcastRoutes>>
==============================================================================
