----------------------------- MODULE MCBindings -----------------------------
(* Bindings for all messages of the three protocols, with bytes of four    *)
(* values and two sets of arguments, and lengths around multiples of four. *)
EXTENDS Bindings, WaylandProtocol, ExtDataControl, WlrLayerShell

AllInterfaces ==
    WaylandProtocolInterfaces @@ ExtDataControlInterfaces @@ WlrLayerShellInterfaces

Small == [uint       |-> 0, int |-> -1, fixed |-> -128,
          string     |-> <<>>, array |-> <<>>, object |-> 0, new_id |-> 1,
          new_object |-> [interface |-> <<1, 2>>, version |-> 1, id |-> 3],
          fd         |-> 5]
Large == [uint       |-> 255, int |-> 127, fixed |-> 1,
          string     |-> <<1, 2, 1>>, array |-> <<0, 3, 0, 0>>,
          object     |-> 255, new_id |-> 254,
          new_object |-> [interface |-> <<1, 1, 1, 2>>, version |-> 7, id |-> 200],
          fd         |-> 6]

BothVariants == {Small, Large}
NullableEvents == {<<"wl_data_source_v4", "target">>}
StrayFds == {<<>>, <<9>>}

ASSUME ProtocolsAgree == TablesAgree

=============================================================================
