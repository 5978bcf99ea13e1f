------------------------------ MODULE WriteOnce ------------------------------
(***************************************************************************)
(* What a path promises that is saved to at most once: a register that is  *)
(* empty or holds one value.                                               *)
(*                                                                         *)
(*  - One save at most takes effect, all at once, and a value that was     *)
(*    saved stays.                                                         *)
(*  - A save that fails has taken effect or not; no other save is harmed.  *)
(*  - A load yields the value held, or fails.                              *)
(*  - A power loss ends calls that are under way, and may lose a value     *)
(*    whose save had not returned.                                         *)
(***************************************************************************)
CONSTANTS
  Savers,   \* calls that save
  Loaders,  \* calls that load
  Offers    \* Offers[s]: the value s saves

VARIABLES
  held,   \* the value held, or Empty
  saves,  \* saves[s]: "pending", "saved" or "failed"
  loads   \* loads[l]: Pending, Failed, or the value loaded

vars == <<held, saves, loads>>

Empty == [value |-> "none"]
Pending == [call |-> "pending"]
Failed == [call |-> "failed"]

Init ==
  /\ held = Empty
  /\ saves = [s \in Savers |-> "pending"]
  /\ loads = [l \in Loaders |-> Pending]

TakeEffect(s) ==
  /\ held = Empty /\ saves[s] = "pending"
  /\ held' = Offers[s]
  /\ UNCHANGED <<saves, loads>>

Save(s) ==
  /\ held = Offers[s] /\ saves[s] = "pending"
  /\ saves' = [saves EXCEPT ![s] = "saved"]
  /\ UNCHANGED <<held, loads>>

NotSave(s) ==
  /\ saves[s] = "pending"
  /\ saves' = [saves EXCEPT ![s] = "failed"]
  /\ UNCHANGED <<held, loads>>

Load(l) ==
  /\ held # Empty /\ loads[l] = Pending
  /\ loads' = [loads EXCEPT ![l] = held]
  /\ UNCHANGED <<held, saves>>

NotLoad(l) ==
  /\ loads[l] = Pending
  /\ loads' = [loads EXCEPT ![l] = Failed]
  /\ UNCHANGED <<held, saves>>

PowerLoss ==
  /\ \/ UNCHANGED held
     \/ held' = Empty /\ \A s \in Savers : saves[s] # "saved"
  /\ \A s \in Savers : saves'[s] # saves[s] => saves[s] = "pending" /\ saves'[s] = "failed"
  /\ \A l \in Loaders : loads'[l] # loads[l] => loads[l] = Pending /\ loads'[l] = Failed

Next ==
  \/ \E s \in Savers : TakeEffect(s) \/ Save(s) \/ NotSave(s)
  \/ \E l \in Loaders : Load(l) \/ NotLoad(l)
  \/ PowerLoss

Spec == Init /\ [][Next]_vars
=============================================================================
