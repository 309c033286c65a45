-------------------------- MODULE WaylandProtocol ---------------------------
(***************************************************************************)
(* The messages of the core protocol, wayland.rs: for each interface what  *)
(* its request proxy pushes, what its event handler reads, and what the    *)
(* argument structs of both read and push.                                 *)
(***************************************************************************)
EXTENDS ProtocolTables

wl_display_v1_requests ==
    [sync |-> Message(0, <<"new_id">>),
     get_registry |-> Message(1, <<"new_id">>)]

wl_display_v1_events ==
    [error |-> Message(0, <<"object", "uint", "string">>),
     delete_id |-> Message(1, <<"uint">>)]

wl_display_v1_request_args ==
    [sync |-> Args(0, <<"new_id">>), get_registry |-> Args(1, <<"new_id">>)]

wl_display_v1_event_args ==
    [error |-> Args(0, <<"object", "uint", "string">>),
     delete_id |-> Args(1, <<"uint">>)]

wl_registry_v1_requests ==
    [bind |-> Message(0, <<"uint", "new_object">>)]

wl_registry_v1_events ==
    [global |-> Message(0, <<"uint", "string", "uint">>),
     global_remove |-> Message(1, <<"uint">>)]

wl_registry_v1_request_args ==
    [bind |-> Args(0, <<"uint", "new_object">>)]

wl_registry_v1_event_args ==
    [global |-> Args(0, <<"uint", "string", "uint">>),
     global_remove |-> Args(1, <<"uint">>)]

wl_callback_v1_events ==
    [done |-> Message(0, <<"uint">>)]

wl_callback_v1_event_args ==
    [done |-> Args(0, <<"uint">>)]

wl_compositor_v7_requests ==
    [create_surface |-> Message(0, <<"new_id">>),
     create_region |-> Message(1, <<"new_id">>), release |-> Message(2, <<>>)]

wl_compositor_v7_request_args ==
    [create_surface |-> Args(0, <<"new_id">>),
     create_region |-> Args(1, <<"new_id">>), release |-> Args(2, <<>>)]

wl_shm_pool_v2_requests ==
    [create_buffer |-> Message(0, <<"new_id", "int", "int", "int", "int",
         "uint">>),
     destroy |-> Message(1, <<>>), resize |-> Message(2, <<"int">>)]

wl_shm_pool_v2_request_args ==
    [create_buffer |-> Args(0, <<"new_id", "int", "int", "int", "int",
         "uint">>),
     destroy |-> Args(1, <<>>), resize |-> Args(2, <<"int">>)]

wl_shm_v2_requests ==
    [create_pool |-> Message(0, <<"new_id", "fd", "int">>),
     release |-> Message(1, <<>>)]

wl_shm_v2_events ==
    [format |-> Message(0, <<"uint">>)]

wl_shm_v2_request_args ==
    [create_pool |-> Args(0, <<"new_id", "fd", "int">>),
     release |-> Args(1, <<>>)]

wl_shm_v2_event_args ==
    [format |-> Args(0, <<"uint">>)]

wl_buffer_v1_requests ==
    [destroy |-> Message(0, <<>>)]

wl_buffer_v1_events ==
    [release |-> Message(0, <<>>)]

wl_buffer_v1_request_args ==
    [destroy |-> Args(0, <<>>)]

wl_buffer_v1_event_args ==
    [release |-> Args(0, <<>>)]

wl_data_offer_v4_requests ==
    [accept |-> Message(0, <<"uint", "string">>),
     receive |-> Message(1, <<"string", "fd">>), destroy |-> Message(2, <<>>),
     finish |-> Message(3, <<>>),
     set_actions |-> Message(4, <<"uint", "uint">>)]

wl_data_offer_v4_events ==
    [offer |-> Message(0, <<"string">>),
     source_actions |-> Message(1, <<"uint">>),
     action |-> Message(2, <<"uint">>)]

wl_data_offer_v4_request_args ==
    [accept |-> Args(0, <<"uint", "string">>),
     receive |-> Args(1, <<"string", "fd">>), destroy |-> Args(2, <<>>),
     finish |-> Args(3, <<>>), set_actions |-> Args(4, <<"uint", "uint">>)]

wl_data_offer_v4_event_args ==
    [offer |-> Args(0, <<"string">>), source_actions |-> Args(1, <<"uint">>),
     action |-> Args(2, <<"uint">>)]

wl_data_source_v4_requests ==
    [offer |-> Message(0, <<"string">>), destroy |-> Message(1, <<>>),
     set_actions |-> Message(2, <<"uint">>)]

wl_data_source_v4_events ==
    [target |-> Message(0, <<"string">>),
     send |-> Message(1, <<"string", "fd">>), cancelled |-> Message(2, <<>>),
     dnd_drop_performed |-> Message(3, <<>>),
     dnd_finished |-> Message(4, <<>>), action |-> Message(5, <<"uint">>)]

wl_data_source_v4_request_args ==
    [offer |-> Args(0, <<"string">>), destroy |-> Args(1, <<>>),
     set_actions |-> Args(2, <<"uint">>)]

wl_data_source_v4_event_args ==
    [target |-> Args(0, <<"string">>), send |-> Args(1, <<"string", "fd">>),
     cancelled |-> Args(2, <<>>), dnd_drop_performed |-> Args(3, <<>>),
     dnd_finished |-> Args(4, <<>>), action |-> Args(5, <<"uint">>)]

wl_data_device_v4_requests ==
    [start_drag |-> Message(0, <<"object", "object", "object", "uint">>),
     set_selection |-> Message(1, <<"object", "uint">>),
     release |-> Message(2, <<>>)]

wl_data_device_v4_events ==
    [data_offer |-> Message(0, <<"new_id">>),
     enter |-> Message(1, <<"uint", "object", "fixed", "fixed", "object">>),
     leave |-> Message(2, <<>>),
     motion |-> Message(3, <<"uint", "fixed", "fixed">>),
     drop |-> Message(4, <<>>), selection |-> Message(5, <<"object">>)]

wl_data_device_v4_request_args ==
    [start_drag |-> Args(0, <<"object", "object", "object", "uint">>),
     set_selection |-> Args(1, <<"object", "uint">>),
     release |-> Args(2, <<>>)]

wl_data_device_v4_event_args ==
    [data_offer |-> Args(0, <<"new_id">>),
     enter |-> Args(1, <<"uint", "object", "fixed", "fixed", "object">>),
     leave |-> Args(2, <<>>), motion |-> Args(3, <<"uint", "fixed", "fixed">>),
     drop |-> Args(4, <<>>), selection |-> Args(5, <<"object">>)]

wl_data_device_manager_v4_requests ==
    [create_data_source |-> Message(0, <<"new_id">>),
     get_data_device |-> Message(1, <<"new_id", "object">>),
     release |-> Message(2, <<>>)]

wl_data_device_manager_v4_request_args ==
    [create_data_source |-> Args(0, <<"new_id">>),
     get_data_device |-> Args(1, <<"new_id", "object">>),
     release |-> Args(2, <<>>)]

wl_shell_v1_requests ==
    [get_shell_surface |-> Message(0, <<"new_id", "object">>)]

wl_shell_v1_request_args ==
    [get_shell_surface |-> Args(0, <<"new_id", "object">>)]

wl_shell_surface_v1_requests ==
    [pong |-> Message(0, <<"uint">>),
     move |-> Message(1, <<"object", "uint">>),
     resize |-> Message(2, <<"object", "uint", "uint">>),
     set_toplevel |-> Message(3, <<>>),
     set_transient |-> Message(4, <<"object", "int", "int", "uint">>),
     set_fullscreen |-> Message(5, <<"uint", "uint", "object">>),
     set_popup |-> Message(6, <<"object", "uint", "object", "int", "int",
         "uint">>),
     set_maximized |-> Message(7, <<"object">>),
     set_title |-> Message(8, <<"string">>),
     set_class |-> Message(9, <<"string">>)]

wl_shell_surface_v1_events ==
    [ping |-> Message(0, <<"uint">>),
     configure |-> Message(1, <<"uint", "int", "int">>),
     popup_done |-> Message(2, <<>>)]

wl_shell_surface_v1_request_args ==
    [pong |-> Args(0, <<"uint">>), move |-> Args(1, <<"object", "uint">>),
     resize |-> Args(2, <<"object", "uint", "uint">>),
     set_toplevel |-> Args(3, <<>>),
     set_transient |-> Args(4, <<"object", "int", "int", "uint">>),
     set_fullscreen |-> Args(5, <<"uint", "uint", "object">>),
     set_popup |-> Args(6, <<"object", "uint", "object", "int", "int",
         "uint">>),
     set_maximized |-> Args(7, <<"object">>),
     set_title |-> Args(8, <<"string">>), set_class |-> Args(9, <<"string">>)]

wl_shell_surface_v1_event_args ==
    [ping |-> Args(0, <<"uint">>),
     configure |-> Args(1, <<"uint", "int", "int">>),
     popup_done |-> Args(2, <<>>)]

wl_surface_v7_requests ==
    [destroy |-> Message(0, <<>>),
     attach |-> Message(1, <<"object", "int", "int">>),
     damage |-> Message(2, <<"int", "int", "int", "int">>),
     frame |-> Message(3, <<"new_id">>),
     set_opaque_region |-> Message(4, <<"object">>),
     set_input_region |-> Message(5, <<"object">>),
     commit |-> Message(6, <<>>),
     set_buffer_transform |-> Message(7, <<"int">>),
     set_buffer_scale |-> Message(8, <<"int">>),
     damage_buffer |-> Message(9, <<"int", "int", "int", "int">>),
     offset |-> Message(10, <<"int", "int">>),
     get_release |-> Message(11, <<"new_id">>)]

wl_surface_v7_events ==
    [enter |-> Message(0, <<"object">>), leave |-> Message(1, <<"object">>),
     preferred_buffer_scale |-> Message(2, <<"int">>),
     preferred_buffer_transform |-> Message(3, <<"uint">>)]

wl_surface_v7_request_args ==
    [destroy |-> Args(0, <<>>), attach |-> Args(1, <<"object", "int", "int">>),
     damage |-> Args(2, <<"int", "int", "int", "int">>),
     frame |-> Args(3, <<"new_id">>),
     set_opaque_region |-> Args(4, <<"object">>),
     set_input_region |-> Args(5, <<"object">>), commit |-> Args(6, <<>>),
     set_buffer_transform |-> Args(7, <<"int">>),
     set_buffer_scale |-> Args(8, <<"int">>),
     damage_buffer |-> Args(9, <<"int", "int", "int", "int">>),
     offset |-> Args(10, <<"int", "int">>),
     get_release |-> Args(11, <<"new_id">>)]

wl_surface_v7_event_args ==
    [enter |-> Args(0, <<"object">>), leave |-> Args(1, <<"object">>),
     preferred_buffer_scale |-> Args(2, <<"int">>),
     preferred_buffer_transform |-> Args(3, <<"uint">>)]

wl_seat_v10_requests ==
    [get_pointer |-> Message(0, <<"new_id">>),
     get_keyboard |-> Message(1, <<"new_id">>),
     get_touch |-> Message(2, <<"new_id">>), release |-> Message(3, <<>>)]

wl_seat_v10_events ==
    [capabilities |-> Message(0, <<"uint">>),
     name |-> Message(1, <<"string">>)]

wl_seat_v10_request_args ==
    [get_pointer |-> Args(0, <<"new_id">>),
     get_keyboard |-> Args(1, <<"new_id">>),
     get_touch |-> Args(2, <<"new_id">>), release |-> Args(3, <<>>)]

wl_seat_v10_event_args ==
    [capabilities |-> Args(0, <<"uint">>), name |-> Args(1, <<"string">>)]

wl_pointer_v10_requests ==
    [set_cursor |-> Message(0, <<"uint", "object", "int", "int">>),
     release |-> Message(1, <<>>)]

wl_pointer_v10_events ==
    [enter |-> Message(0, <<"uint", "object", "fixed", "fixed">>),
     leave |-> Message(1, <<"uint", "object">>),
     motion |-> Message(2, <<"uint", "fixed", "fixed">>),
     button |-> Message(3, <<"uint", "uint", "uint", "uint">>),
     axis |-> Message(4, <<"uint", "uint", "fixed">>),
     frame |-> Message(5, <<>>), axis_source |-> Message(6, <<"uint">>),
     axis_stop |-> Message(7, <<"uint", "uint">>),
     axis_discrete |-> Message(8, <<"uint", "int">>),
     axis_value120 |-> Message(9, <<"uint", "int">>),
     axis_relative_direction |-> Message(10, <<"uint", "uint">>)]

wl_pointer_v10_request_args ==
    [set_cursor |-> Args(0, <<"uint", "object", "int", "int">>),
     release |-> Args(1, <<>>)]

wl_pointer_v10_event_args ==
    [enter |-> Args(0, <<"uint", "object", "fixed", "fixed">>),
     leave |-> Args(1, <<"uint", "object">>),
     motion |-> Args(2, <<"uint", "fixed", "fixed">>),
     button |-> Args(3, <<"uint", "uint", "uint", "uint">>),
     axis |-> Args(4, <<"uint", "uint", "fixed">>), frame |-> Args(5, <<>>),
     axis_source |-> Args(6, <<"uint">>),
     axis_stop |-> Args(7, <<"uint", "uint">>),
     axis_discrete |-> Args(8, <<"uint", "int">>),
     axis_value120 |-> Args(9, <<"uint", "int">>),
     axis_relative_direction |-> Args(10, <<"uint", "uint">>)]

wl_keyboard_v10_requests ==
    [release |-> Message(0, <<>>)]

wl_keyboard_v10_events ==
    [keymap |-> Message(0, <<"uint", "fd", "uint">>),
     enter |-> Message(1, <<"uint", "object", "array">>),
     leave |-> Message(2, <<"uint", "object">>),
     key |-> Message(3, <<"uint", "uint", "uint", "uint">>),
     modifiers |-> Message(4, <<"uint", "uint", "uint", "uint", "uint">>),
     repeat_info |-> Message(5, <<"int", "int">>)]

wl_keyboard_v10_request_args ==
    [release |-> Args(0, <<>>)]

wl_keyboard_v10_event_args ==
    [keymap |-> Args(0, <<"uint", "fd", "uint">>),
     enter |-> Args(1, <<"uint", "object", "array">>),
     leave |-> Args(2, <<"uint", "object">>),
     key |-> Args(3, <<"uint", "uint", "uint", "uint">>),
     modifiers |-> Args(4, <<"uint", "uint", "uint", "uint", "uint">>),
     repeat_info |-> Args(5, <<"int", "int">>)]

wl_touch_v10_requests ==
    [release |-> Message(0, <<>>)]

wl_touch_v10_events ==
    [down |-> Message(0, <<"uint", "uint", "object", "int", "fixed",
         "fixed">>),
     up |-> Message(1, <<"uint", "uint", "int">>),
     motion |-> Message(2, <<"uint", "int", "fixed", "fixed">>),
     frame |-> Message(3, <<>>), cancel |-> Message(4, <<>>),
     shape |-> Message(5, <<"int", "fixed", "fixed">>),
     orientation |-> Message(6, <<"int", "fixed">>)]

wl_touch_v10_request_args ==
    [release |-> Args(0, <<>>)]

wl_touch_v10_event_args ==
    [down |-> Args(0, <<"uint", "uint", "object", "int", "fixed", "fixed">>),
     up |-> Args(1, <<"uint", "uint", "int">>),
     motion |-> Args(2, <<"uint", "int", "fixed", "fixed">>),
     frame |-> Args(3, <<>>), cancel |-> Args(4, <<>>),
     shape |-> Args(5, <<"int", "fixed", "fixed">>),
     orientation |-> Args(6, <<"int", "fixed">>)]

wl_output_v4_requests ==
    [release |-> Message(0, <<>>)]

wl_output_v4_events ==
    [geometry |-> Message(0, <<"int", "int", "int", "int", "int", "string",
         "string", "int">>),
     mode |-> Message(1, <<"uint", "int", "int", "int">>),
     done |-> Message(2, <<>>), scale |-> Message(3, <<"int">>),
     name |-> Message(4, <<"string">>),
     description |-> Message(5, <<"string">>)]

wl_output_v4_request_args ==
    [release |-> Args(0, <<>>)]

wl_output_v4_event_args ==
    [geometry |-> Args(0, <<"int", "int", "int", "int", "int", "string",
         "string", "int">>),
     mode |-> Args(1, <<"uint", "int", "int", "int">>), done |-> Args(2, <<>>),
     scale |-> Args(3, <<"int">>), name |-> Args(4, <<"string">>),
     description |-> Args(5, <<"string">>)]

wl_region_v7_requests ==
    [destroy |-> Message(0, <<>>),
     add |-> Message(1, <<"int", "int", "int", "int">>),
     subtract |-> Message(2, <<"int", "int", "int", "int">>)]

wl_region_v7_request_args ==
    [destroy |-> Args(0, <<>>),
     add |-> Args(1, <<"int", "int", "int", "int">>),
     subtract |-> Args(2, <<"int", "int", "int", "int">>)]

wl_subcompositor_v1_requests ==
    [destroy |-> Message(0, <<>>),
     get_subsurface |-> Message(1, <<"new_id", "object", "object">>)]

wl_subcompositor_v1_request_args ==
    [destroy |-> Args(0, <<>>),
     get_subsurface |-> Args(1, <<"new_id", "object", "object">>)]

wl_subsurface_v1_requests ==
    [destroy |-> Message(0, <<>>),
     set_position |-> Message(1, <<"int", "int">>),
     place_above |-> Message(2, <<"object">>),
     place_below |-> Message(3, <<"object">>), set_sync |-> Message(4, <<>>),
     set_desync |-> Message(5, <<>>)]

wl_subsurface_v1_request_args ==
    [destroy |-> Args(0, <<>>), set_position |-> Args(1, <<"int", "int">>),
     place_above |-> Args(2, <<"object">>),
     place_below |-> Args(3, <<"object">>), set_sync |-> Args(4, <<>>),
     set_desync |-> Args(5, <<>>)]

wl_fixes_v2_requests ==
    [destroy |-> Message(0, <<>>),
     destroy_registry |-> Message(1, <<"object">>),
     ack_global_remove |-> Message(2, <<"object", "uint">>)]

wl_fixes_v2_request_args ==
    [destroy |-> Args(0, <<>>), destroy_registry |-> Args(1, <<"object">>),
     ack_global_remove |-> Args(2, <<"object", "uint">>)]

WaylandProtocolInterfaces ==
    [wl_display_v1 |->
        Interface(wl_display_v1_requests,
                  wl_display_v1_events,
                  wl_display_v1_request_args,
                  wl_display_v1_event_args),
     wl_registry_v1 |->
        Interface(wl_registry_v1_requests,
                  wl_registry_v1_events,
                  wl_registry_v1_request_args,
                  wl_registry_v1_event_args),
     wl_callback_v1 |->
        Interface(NoMessages,
                  wl_callback_v1_events,
                  NoMessages,
                  wl_callback_v1_event_args),
     wl_compositor_v7 |->
        Interface(wl_compositor_v7_requests,
                  NoMessages,
                  wl_compositor_v7_request_args,
                  NoMessages),
     wl_shm_pool_v2 |->
        Interface(wl_shm_pool_v2_requests,
                  NoMessages,
                  wl_shm_pool_v2_request_args,
                  NoMessages),
     wl_shm_v2 |->
        Interface(wl_shm_v2_requests,
                  wl_shm_v2_events,
                  wl_shm_v2_request_args,
                  wl_shm_v2_event_args),
     wl_buffer_v1 |->
        Interface(wl_buffer_v1_requests,
                  wl_buffer_v1_events,
                  wl_buffer_v1_request_args,
                  wl_buffer_v1_event_args),
     wl_data_offer_v4 |->
        Interface(wl_data_offer_v4_requests,
                  wl_data_offer_v4_events,
                  wl_data_offer_v4_request_args,
                  wl_data_offer_v4_event_args),
     wl_data_source_v4 |->
        Interface(wl_data_source_v4_requests,
                  wl_data_source_v4_events,
                  wl_data_source_v4_request_args,
                  wl_data_source_v4_event_args),
     wl_data_device_v4 |->
        Interface(wl_data_device_v4_requests,
                  wl_data_device_v4_events,
                  wl_data_device_v4_request_args,
                  wl_data_device_v4_event_args),
     wl_data_device_manager_v4 |->
        Interface(wl_data_device_manager_v4_requests,
                  NoMessages,
                  wl_data_device_manager_v4_request_args,
                  NoMessages),
     wl_shell_v1 |->
        Interface(wl_shell_v1_requests,
                  NoMessages,
                  wl_shell_v1_request_args,
                  NoMessages),
     wl_shell_surface_v1 |->
        Interface(wl_shell_surface_v1_requests,
                  wl_shell_surface_v1_events,
                  wl_shell_surface_v1_request_args,
                  wl_shell_surface_v1_event_args),
     wl_surface_v7 |->
        Interface(wl_surface_v7_requests,
                  wl_surface_v7_events,
                  wl_surface_v7_request_args,
                  wl_surface_v7_event_args),
     wl_seat_v10 |->
        Interface(wl_seat_v10_requests,
                  wl_seat_v10_events,
                  wl_seat_v10_request_args,
                  wl_seat_v10_event_args),
     wl_pointer_v10 |->
        Interface(wl_pointer_v10_requests,
                  wl_pointer_v10_events,
                  wl_pointer_v10_request_args,
                  wl_pointer_v10_event_args),
     wl_keyboard_v10 |->
        Interface(wl_keyboard_v10_requests,
                  wl_keyboard_v10_events,
                  wl_keyboard_v10_request_args,
                  wl_keyboard_v10_event_args),
     wl_touch_v10 |->
        Interface(wl_touch_v10_requests,
                  wl_touch_v10_events,
                  wl_touch_v10_request_args,
                  wl_touch_v10_event_args),
     wl_output_v4 |->
        Interface(wl_output_v4_requests,
                  wl_output_v4_events,
                  wl_output_v4_request_args,
                  wl_output_v4_event_args),
     wl_region_v7 |->
        Interface(wl_region_v7_requests,
                  NoMessages,
                  wl_region_v7_request_args,
                  NoMessages),
     wl_subcompositor_v1 |->
        Interface(wl_subcompositor_v1_requests,
                  NoMessages,
                  wl_subcompositor_v1_request_args,
                  NoMessages),
     wl_subsurface_v1 |->
        Interface(wl_subsurface_v1_requests,
                  NoMessages,
                  wl_subsurface_v1_request_args,
                  NoMessages),
     wl_fixes_v2 |->
        Interface(wl_fixes_v2_requests,
                  NoMessages,
                  wl_fixes_v2_request_args,
                  NoMessages)]

=============================================================================
