--------------------------- MODULE WlrLayerShell ----------------------------
(***************************************************************************)
(* The messages of the layer shell, wlr_layer_shell_unstable_v1.rs: for    *)
(* each interface what its request proxy pushes, what its event handler    *)
(* reads, and what the argument structs of both read and push.             *)
(***************************************************************************)
EXTENDS ProtocolTables

zwlr_layer_shell_v1_v5_requests ==
    [get_layer_surface |-> Message(0, <<"new_id", "object", "object", "uint",
         "string">>),
     destroy |-> Message(1, <<>>)]

zwlr_layer_shell_v1_v5_request_args ==
    [get_layer_surface |-> Args(0, <<"new_id", "object", "object", "uint",
         "string">>),
     destroy |-> Args(1, <<>>)]

zwlr_layer_surface_v1_v5_requests ==
    [set_size |-> Message(0, <<"uint", "uint">>),
     set_anchor |-> Message(1, <<"uint">>),
     set_exclusive_zone |-> Message(2, <<"int">>),
     set_margin |-> Message(3, <<"int", "int", "int", "int">>),
     set_keyboard_interactivity |-> Message(4, <<"uint">>),
     get_popup |-> Message(5, <<"object">>),
     ack_configure |-> Message(6, <<"uint">>), destroy |-> Message(7, <<>>),
     set_layer |-> Message(8, <<"uint">>),
     set_exclusive_edge |-> Message(9, <<"uint">>)]

zwlr_layer_surface_v1_v5_events ==
    [configure |-> Message(0, <<"uint", "uint", "uint">>),
     closed |-> Message(1, <<>>)]

zwlr_layer_surface_v1_v5_request_args ==
    [set_size |-> Args(0, <<"uint", "uint">>),
     set_anchor |-> Args(1, <<"uint">>),
     set_exclusive_zone |-> Args(2, <<"int">>),
     set_margin |-> Args(3, <<"int", "int", "int", "int">>),
     set_keyboard_interactivity |-> Args(4, <<"uint">>),
     get_popup |-> Args(5, <<"object">>),
     ack_configure |-> Args(6, <<"uint">>), destroy |-> Args(7, <<>>),
     set_layer |-> Args(8, <<"uint">>),
     set_exclusive_edge |-> Args(9, <<"uint">>)]

zwlr_layer_surface_v1_v5_event_args ==
    [configure |-> Args(0, <<"uint", "uint", "uint">>),
     closed |-> Args(1, <<>>)]

WlrLayerShellInterfaces ==
    [zwlr_layer_shell_v1_v5 |->
        Interface(zwlr_layer_shell_v1_v5_requests,
                  NoMessages,
                  zwlr_layer_shell_v1_v5_request_args,
                  NoMessages),
     zwlr_layer_surface_v1_v5 |->
        Interface(zwlr_layer_surface_v1_v5_requests,
                  zwlr_layer_surface_v1_v5_events,
                  zwlr_layer_surface_v1_v5_request_args,
                  zwlr_layer_surface_v1_v5_event_args)]

=============================================================================
