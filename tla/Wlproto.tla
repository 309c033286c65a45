------------------------------- MODULE Wlproto -------------------------------
(***************************************************************************)
(* The generator of the bindings, from the protocol as model.rs has it to  *)
(* the tables of ProtocolTables: which method writes and reads an argument *)
(* and which opcode a message gets.                                        *)
(*                                                                         *)
(* A protocol maps the names of interfaces to their requests and events,   *)
(* sequences of procedures [name, args]; of an argument there is           *)
(* [arg_type, known], where `known` says that it names an interface.       *)
(***************************************************************************)
EXTENDS ProtocolTables, FiniteSets

ArgTypes == Kinds \ {"new_object"}

Procedure == [name : STRING, args : Seq([arg_type : ArgTypes, known : BOOLEAN])]

(* Two procedures of one name would be two functions of one name. *)
IsProcedures(procedures) ==
    /\ procedures \in Seq(Procedure)
    /\ \A i, j \in DOMAIN procedures :
          procedures[i].name = procedures[j].name => i = j

IsInterface(interface) ==
    IsProcedures(interface.requests) /\ IsProcedures(interface.events)

IsProtocol(protocol) == \A i \in DOMAIN protocol : IsInterface(protocol[i])

-----------------------------------------------------------------------------
(* The choice of a method for the type of an argument. *)
ReadFunc(type, known) ==
    IF type = "new_id" /\ ~ known THEN "new_object" ELSE type

(* A mutant: new ids are always written as those of known interfaces. *)
WriteFunc_AlwaysKnown(type, known) == type
WriteFunc(type, known) ==
    IF type = "new_id" /\ ~ known THEN "new_object" ELSE type

(* The decoders and the write calls of a procedure. *)
ReadKinds(procedure) ==
    [i \in 1 .. Len(procedure.args) |->
        ReadFunc(procedure.args[i].arg_type, procedure.args[i].known)]
WriteKinds(procedure) ==
    [i \in 1 .. Len(procedure.args) |->
        WriteFunc(procedure.args[i].arg_type, procedure.args[i].known)]

Names(procedures) == {procedures[i].name : i \in DOMAIN procedures}

Index(procedures, name) ==
    CHOOSE i \in DOMAIN procedures : procedures[i].name = name

(* enumerate() counts from 0. *)
Opcode(procedures, name) == Index(procedures, name) - 1

EventHandlers(events) ==
    [n \in Names(events) |->
        Message(Opcode(events, n), ReadKinds(events[Index(events, n)]))]

RequestProxies(requests) ==
    [n \in Names(requests) |->
        Message(Opcode(requests, n), WriteKinds(requests[Index(requests, n)]))]

ArgStructs(procedures) ==
    [n \in Names(procedures) |->
        ArgsOf(Opcode(procedures, n),
               ReadKinds(procedures[Index(procedures, n)]),
               WriteKinds(procedures[Index(procedures, n)]))]

TokenizeInterface(interface) ==
    Interface(RequestProxies(interface.requests),
              EventHandlers(interface.events),
              ArgStructs(interface.requests),
              ArgStructs(interface.events))

TokenizeProtocol(protocol) ==
    [i \in DOMAIN protocol |-> TokenizeInterface(protocol[i])]

-----------------------------------------------------------------------------
(* The protocol that tables are of, if they have been generated: as many   *)
(* procedures as there are argument structs, in the order of their         *)
(* opcodes, with the arguments that these read.                            *)
ArgRead(kind) ==
    [arg_type |-> IF kind = "new_object" THEN "new_id" ELSE kind,
     known    |-> kind # "new_object"]

ProcedureOf(structs, name) ==
    [name |-> name,
     args |-> [i \in 1 .. Len(structs[name].reads) |->
                  ArgRead(structs[name].reads[i])]]

ProceduresOf(structs) ==
    [k \in 1 .. Cardinality(DOMAIN structs) |->
        ProcedureOf(structs,
            CHOOSE n \in DOMAIN structs : structs[n].opcode = k - 1)]

InterfaceOf(tables) ==
    [requests |-> ProceduresOf(tables.request_args),
     events   |-> ProceduresOf(tables.event_args)]

=============================================================================
