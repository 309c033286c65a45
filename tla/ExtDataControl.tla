--------------------------- MODULE ExtDataControl ---------------------------
(***************************************************************************)
(* The messages of the clipboard managers' protocol,                       *)
(* ext_data_control_v1.rs: for each interface what its request proxy       *)
(* pushes, what its event handler reads, and what the argument structs of  *)
(* both read and push.                                                     *)
(***************************************************************************)
EXTENDS ProtocolTables

ext_data_control_manager_v1_v1_requests ==
    [create_data_source |-> Message(0, <<"new_id">>),
     get_data_device |-> Message(1, <<"new_id", "object">>),
     destroy |-> Message(2, <<>>)]

ext_data_control_manager_v1_v1_request_args ==
    [create_data_source |-> Args(0, <<"new_id">>),
     get_data_device |-> Args(1, <<"new_id", "object">>),
     destroy |-> Args(2, <<>>)]

ext_data_control_device_v1_v1_requests ==
    [set_selection |-> Message(0, <<"object">>), destroy |-> Message(1, <<>>),
     set_primary_selection |-> Message(2, <<"object">>)]

ext_data_control_device_v1_v1_events ==
    [data_offer |-> Message(0, <<"new_id">>),
     selection |-> Message(1, <<"object">>), finished |-> Message(2, <<>>),
     primary_selection |-> Message(3, <<"object">>)]

ext_data_control_device_v1_v1_request_args ==
    [set_selection |-> Args(0, <<"object">>), destroy |-> Args(1, <<>>),
     set_primary_selection |-> Args(2, <<"object">>)]

ext_data_control_device_v1_v1_event_args ==
    [data_offer |-> Args(0, <<"new_id">>), selection |-> Args(1, <<"object">>),
     finished |-> Args(2, <<>>), primary_selection |-> Args(3, <<"object">>)]

ext_data_control_source_v1_v1_requests ==
    [offer |-> Message(0, <<"string">>), destroy |-> Message(1, <<>>)]

ext_data_control_source_v1_v1_events ==
    [send |-> Message(0, <<"string", "fd">>), cancelled |-> Message(1, <<>>)]

ext_data_control_source_v1_v1_request_args ==
    [offer |-> Args(0, <<"string">>), destroy |-> Args(1, <<>>)]

ext_data_control_source_v1_v1_event_args ==
    [send |-> Args(0, <<"string", "fd">>), cancelled |-> Args(1, <<>>)]

ext_data_control_offer_v1_v1_requests ==
    [receive |-> Message(0, <<"string", "fd">>), destroy |-> Message(1, <<>>)]

ext_data_control_offer_v1_v1_events ==
    [offer |-> Message(0, <<"string">>)]

ext_data_control_offer_v1_v1_request_args ==
    [receive |-> Args(0, <<"string", "fd">>), destroy |-> Args(1, <<>>)]

ext_data_control_offer_v1_v1_event_args ==
    [offer |-> Args(0, <<"string">>)]

ExtDataControlInterfaces ==
    [ext_data_control_manager_v1_v1 |->
        Interface(ext_data_control_manager_v1_v1_requests,
                  NoMessages,
                  ext_data_control_manager_v1_v1_request_args,
                  NoMessages),
     ext_data_control_device_v1_v1 |->
        Interface(ext_data_control_device_v1_v1_requests,
                  ext_data_control_device_v1_v1_events,
                  ext_data_control_device_v1_v1_request_args,
                  ext_data_control_device_v1_v1_event_args),
     ext_data_control_source_v1_v1 |->
        Interface(ext_data_control_source_v1_v1_requests,
                  ext_data_control_source_v1_v1_events,
                  ext_data_control_source_v1_v1_request_args,
                  ext_data_control_source_v1_v1_event_args),
     ext_data_control_offer_v1_v1 |->
        Interface(ext_data_control_offer_v1_v1_requests,
                  ext_data_control_offer_v1_v1_events,
                  ext_data_control_offer_v1_v1_request_args,
                  ext_data_control_offer_v1_v1_event_args)]

=============================================================================
