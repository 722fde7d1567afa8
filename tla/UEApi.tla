-------------------------------- MODULE UEApi --------------------------------
(****************************************************************************)
(* The methods of UEApi, the API of the UE simulator: what each sends.      *)
(****************************************************************************)
EXTENDS Forms

UeLife == UNION {
    Methods({"power_on", "power_off"}, {}, {"ue_id"}),
    Open(Methods({"ue_add"}, {"imsi"}, {"k", "opc"})),
    Methods({"ue_del"}, {"ue_id"}, {}),
    Open(Methods({"ue_set"}, {"ue_id"}, {})),
    Methods({"register"}, {}, {"ue_id", "registration_type"}),
    Flags({"switch_off"}, Methods({"deregister"}, {}, {"ue_id"})) }

UeSessions == UNION {
    Methods({"attach"}, {}, {"ue_id"}),
    Flags({"switch_off"}, Methods({"detach"}, {}, {"ue_id"})),
    Open(Presets({<<"pdn_type", "ipv4">>},
      Methods({"pdn_connect"}, {"ue_id", "apn"}, {}))),
    Methods({"pdn_disconnect"}, {"ue_id"}, {"pdn_id", "apn"}),
    Open(Presets({<<"pdu_session_type", "ipv4">>},
      Methods({"pdu_session_establish"}, {"ue_id"}, {"dnn", "s_nssai"}))),
    Methods({"pdu_session_release"}, {"ue_id", "pdu_session_id"}, {}) }

UeBearers == UNION {
    Open(Methods({"pdu_session_modify"}, {"ue_id", "pdu_session_id"}, {})),
    Methods({"ue_activate_dedicated_bearer"},
      {"ue_id", "def_bearer_id", "qci"}, {"gbr", "filters"}),
    Methods({"ue_deactivate_dedicated_bearer"}, {"ue_id", "bearer_id"}, {}),
    Open(Methods({"ue_modify_dedicated_bearer"}, {"ue_id", "bearer_id"}, {})),
    Open(Presets({<<"direction", "dl">>},
      Methods({"data_start"},
        {"ue_id"}, {"bearer_id", "rate_mbps", "duration_s"}))) }

UeVoice == UNION {
    Methods({"data_stop"}, {"ue_id"}, {"bearer_id"}),
    Open(Presets({<<"call_type", "voice">>},
      Methods({"mo_call"}, {"ue_id", "destination"}, {}))),
    Methods({"mt_call_answer"}, {"ue_id"}, {"call_id"}),
    Methods({"call_release"}, {"ue_id"}, {"call_id", "cause"}),
    Open(Methods({"send_sms"}, {"ue_id", "destination", "text"}, {})) }

UeRadio == UNION {
    Methods({"cell_reselection", "handover_trigger"},
      {"ue_id"}, {"target_cell_id", "target_pci"}),
    Methods({"ue_assistance_information"},
      {"ue_id"}, {"preferred_rrc_state", "delay_budget_report"}),
    Methods({"rrc_release_request"}, {"ue_id"}, {"cause"}),
    Methods({"service_request"}, {"ue_id"}, {"service_type"}),
    Methods({"measurement_report"}, {"ue_id"}, {"measurement_id"}) }

UeUtilities == UNION {
    Open(Methods({"sim_set"}, {"ue_id"}, {"imsi", "k", "opc"})),
    Presets({<<"tau_type", "normal">>}, Methods({"tau"}, {"ue_id"}, {})),
    Methods({"periodic_registration"}, {"ue_id"}, {}),
    Methods({"cancel"}, {"message_id"}, {}),
    Methods({"echo"}, {}, {"data"}),
    Open(Methods({"monitor"}, {}, {})),
    Methods({"quit"}, {}, {}) }

UEApiMethods ==
    UeLife \cup UeSessions \cup UeBearers \cup UeVoice \cup UeRadio \cup
    UeUtilities
==============================================================================
