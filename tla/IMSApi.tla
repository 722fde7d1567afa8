------------------------------- MODULE IMSApi --------------------------------
(****************************************************************************)
(* The methods of IMSApi, the API of the IMS: what each sends.              *)
(****************************************************************************)
EXTENDS Forms

ImsUsers == UNION {
    Flags({"registered_only"}, Methods({"users_get"}, {}, {})),
    Open(Methods({"users_add", "user_set"}, {}, {})),
    Methods({"unregister", "impu_del"}, {"impu"}, {}),
    Open(Methods({"impu_set", "impu_add"}, {"impu"}, {})),
    Methods({"mt_cs_paging"}, {"imsi"}, {}) }

ImsCalls == UNION {
    Open(Methods({"mt_call"}, {"impu"}, {})),
    Methods({"dialog_get"}, {}, {"session_id"}),
    Open(Methods({"dialog_set"}, {"session_id", "action"}, {})),
    Either("binary_hex", "text",
        Aliases({<<"send_sms", "sms">>}, {"impu"}, {"text", "binary_hex"})),
    Methods({"sms_flush", "mms_server", "license", "ipsec"}, {}, {}),
    Open(Aliases({<<"send_mms", "mms">>}, {"impu", "filename"}, {})),
    Presets({<<"register", "none">>},
        Aliases({<<"register_events", "register">>}, {}, {})) }

ImsMedia == UNION {
    Methods({"call_release"}, {"session_id"}, {"cause"}),
    Presets({<<"transfer_type", "blind">>},
      Methods({"call_transfer"}, {"session_id", "target_impu"}, {})),
    Presets({<<"action", "create">>}, Methods({"conference"}, {"session_ids"}, {})),
    Open(Presets({<<"emergency_type", "general">>},
      Methods({"emergency_call"}, {"impu"}, {}))),
    Open(Methods({"media_inject"}, {"session_id", "media_type", "payload"}, {})),
    Open(Methods({"media_stream"}, {"session_id", "action"}, {})) }

ImsUtilities == UNION {
    Open(Presets({<<"action", "activate">>},
      Methods({"supplementary_service"}, {"impu", "service"}, {}))),
    Methods({"registration_status"}, {}, {"impu"}),
    Methods({"cancel"}, {"request_id"}, {}),
    Methods({"echo"}, {}, {"data"}),
    Presets({<<"enable", "True">>}, Methods({"monitor"}, {}, {"events"})),
    Methods({"quit", "log_reset"}, {}, {}),
    Methods({"log_bin_get"}, {}, {"start_time", "end_time", "max_count"}) }

IMSApiMethods ==
    ImsUsers \cup ImsCalls \cup ImsMedia \cup ImsUtilities
==============================================================================
