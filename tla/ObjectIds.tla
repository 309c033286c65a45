----------------------------- MODULE ObjectIds -----------------------------
(***************************************************************************)
(* Connection::get_and_increment_next_object_id: tasks take ids from an    *)
(* atomic counter that wraps at Modulus, and take another one when they    *)
(* get 0, which no ObjectId can be.                                        *)
(***************************************************************************)
EXTENDS Naturals, Sequences

CONSTANTS
    Allocators,  \* the tasks that ask for ids
    Modulus,     \* 2^32 in the code, less when TLC is to reach the wrap
    MaxIds       \* bound: the number of ids issued

ASSUME IdsAssumption == Modulus \in Nat /\ Modulus > 2 /\ MaxIds \in Nat

VARIABLES
    nextObjectId,  \* next_object_id
    asking,        \* the tasks in the loop
    issued,        \* history: the ids returned, with the lap of the counter
    lap            \* history: how often the counter has wrapped

idVars == <<nextObjectId, asking, issued, lap>>

IdsInit ==
    /\ nextObjectId = 2
    /\ asking = {}
    /\ issued = <<>>
    /\ lap = 0

Ask(t) ==
    /\ t \notin asking
    /\ Len(issued) < MaxIds
    /\ asking' = asking \cup {t}
    /\ UNCHANGED <<nextObjectId, issued, lap>>

(* A mutant: a load and a store, and the store of one task lost under that *)
(* of another.                                                             *)
Wrap_LosesStores ==
    /\ nextObjectId' \in {nextObjectId, (nextObjectId + 1) % Modulus}
    /\ lap' = IF nextObjectId' < nextObjectId THEN lap + 1 ELSE lap

(* fetch_add(1), in wrapping arithmetic. *)
Wrap ==
    \/ /\ nextObjectId = Modulus - 1
       /\ nextObjectId' = 0
       /\ lap' = lap + 1
    \/ /\ nextObjectId # Modulus - 1
       /\ nextObjectId' = nextObjectId + 1
       /\ lap' = lap

(* One iteration of the loop. *)
FetchAdd(t) ==
    /\ t \in asking
    /\ Wrap
    /\ \/ /\ nextObjectId = 0
          /\ UNCHANGED <<asking, issued>>
       \/ /\ nextObjectId # 0
          /\ asking' = asking \ {t}
          /\ issued' = Append(issued, [id |-> nextObjectId, lap |-> lap])

IdsNext == \E t \in Allocators : Ask(t) \/ FetchAdd(t)

IdsSpec == IdsInit /\ [][IdsNext]_idVars

-----------------------------------------------------------------------------
Ids == 1 .. Modulus - 1

(* Types; in particular no id is NULL. *)
IdsTypeOK ==
    /\ nextObjectId \in 0 .. Modulus - 1
    /\ asking \subseteq Allocators
    /\ issued \in Seq([id : Ids, lap : Nat])
    /\ lap \in Nat

(* Whichever tasks ask at the same time, no id is issued twice before the  *)
(* counter wraps, and those of a lap are issued in ascending order.        *)
UniqueInLap ==
    \A i, j \in DOMAIN issued :
       i < j /\ issued[i].lap = issued[j].lap => issued[i].id < issued[j].id

=============================================================================
