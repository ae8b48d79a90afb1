----------------------------- MODULE MC_Blocks -----------------------------
(* Instances of Blocks for TLC. *)
EXTENDS Blocks

freeze == [kind |-> "freeze"]
activate(feature, at, version) ==
    [kind |-> "activation", feature |-> feature, at |-> at, minClientVersion |-> version]
deactivate(feature) == [kind |-> "deactivation", feature |-> feature]
alert(sender, type, expiry) ==
    [kind |-> "alert", sender |-> sender, type |-> type, expiry |-> expiry]

(* FREEDEX is off, METADEX is on. *)
OffAndOn == [f \in {"FREEDEX", "METADEX"} |-> IF f = "METADEX" THEN 0 ELSE Disabled]

Some == {freeze, activate("FREEDEX", 3, 1), deactivate("METADEX"),
         activate("METADEX", 4, 2), alert("a", "block", 2)}
============================================================================
