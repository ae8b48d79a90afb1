----------------------------- MODULE Activation -----------------------------
(***************************************************************************)
(* Feature activations and alerts (activation.cpp, notifications.cpp,      *)
(* ActivateFeature and its kin in rules.cpp, and the handlers of           *)
(* transactions 65533 to 65535), as functions of a record                  *)
(*    params     feature -> the block from which it is live                *)
(*    pending    vecPendingActivations                                     *)
(*    completed  vecCompletedActivations                                   *)
(*    alerts     currentTLAlerts                                           *)
(* which the node keeps in memory only.  Senders are authorised.           *)
(***************************************************************************)
EXTENDS Integers, Sequences

CONSTANTS
    Defaults,               \* feature -> activation block, as compiled in
    MIN_ACTIVATION_BLOCKS,  \* the notice an activation has to give,
    MAX_ACTIVATION_BLOCKS,  \* at least and at most
    TRADELAYER_VERSION,     \* of this client
    Disabled                \* the block 999999, which stands for "never"

ASSUME ActivationAssumption ==
    /\ Defaults \in [DOMAIN Defaults -> Nat]
    /\ MIN_ACTIVATION_BLOCKS \in Nat /\ MAX_ACTIVATION_BLOCKS \in Nat
    /\ TRADELAYER_VERSION \in Nat /\ Disabled \in Nat

(* The features this client knows.  A transaction may name any other one. *)
Features == DOMAIN Defaults

(* ResetConsensusParams, ClearActivations and ClearAlerts *)
Cleared == [params |-> Defaults, pending |-> << >>, completed |-> << >>, alerts |-> << >>]

IsFeatureActivated(s, feature, block) ==
    feature \in Features /\ block >= s.params[feature]

-----------------------------------------------------------------------------
(* Alerts *)

(* The sender "tradelayer" is the client itself. *)
AddAlert(alerts, sender, type, expiry) ==
    IF sender # "tradelayer" /\ type \notin {"block", "time", "version"} THEN alerts
    ELSE Append(alerts, [sender |-> sender, type |-> type, expiry |-> expiry])

DeleteAlerts(alerts, sender) == SelectSeq(alerts, LAMBDA a : a.sender # sender)

Expired(alert, block, time) ==
    CASE alert.type = "block" -> block >= alert.expiry
      [] alert.type = "time" -> time > alert.expiry
      [] alert.type = "version" -> TRADELAYER_VERSION > alert.expiry
      [] OTHER -> TRUE

CheckExpiredAlerts(s, block, time) ==
    [s EXCEPT !.alerts = SelectSeq(@, LAMBDA a : ~Expired(a, block, time))]

(* An alert may force the client to be upgraded: the node shuts down.  On  *)
(* the main network this takes the key of the board.                       *)
ForcesUpgrade(tx) == tx.type = "version" /\ TRADELAYER_VERSION < tx.expiry

(* Transaction 65535; type FFFF, here "clear", takes the sender's back. *)
Alert(s, tx) ==
    [s EXCEPT !.alerts = IF tx.type = "clear" THEN DeleteAlerts(@, tx.sender)
                         ELSE AddAlert(@, tx.sender, tx.type, tx.expiry)]

-----------------------------------------------------------------------------
(* Activations *)

Without(pending, feature) == SelectSeq(pending, LAMBDA a : a.feature # feature)

(* Mutant: the least notice is not asked for. *)
NoticeGranted_Late(tx, block) == tx.at <= block + MAX_ACTIVATION_BLOCKS

NoticeGranted(tx, block) ==
    tx.at \in block + MIN_ACTIVATION_BLOCKS .. block + MAX_ACTIVATION_BLOCKS

(* Transaction 65534 in the block: ActivateFeature.  An unknown feature is *)
(* put on the list as well, and announced as one that will stop the client. *)
Activation(s, tx, block) ==
    IF ~NoticeGranted(tx, block) \/ IsFeatureActivated(s, tx.feature, block) THEN s
    ELSE LET supported == tx.feature \in Features /\ TRADELAYER_VERSION >= tx.minClientVersion
         IN  [s EXCEPT
                 !.params = IF tx.feature \in Features THEN [@ EXCEPT ![tx.feature] = tx.at] ELSE @,
                 !.pending = Append(Without(@, tx.feature), tx),
                 !.alerts = IF supported THEN @ ELSE AddAlert(@, "tradelayer", "block", tx.at)]

(* Transaction 65533 in the block: DeactivateFeature.  What it does to the *)
(* book of the MetaDEx is in that module.                                  *)
Deactivation(s, tx, block) ==
    IF ~IsFeatureActivated(s, tx.feature, block) THEN s
    ELSE [s EXCEPT !.params[tx.feature] = Disabled,
                   !.alerts = AddAlert(@, "tradelayer", "block", block + 1024)]

(* The activations that go live with the block.  One of them may ask for a *)
(* newer client: the node then shuts down.                                 *)
GoingLive(s, block) == SelectSeq(s.pending, LAMBDA a : a.at <= block)

MustShutDown(s, block) ==
    \E k \in DOMAIN GoingLive(s, block) :
        TRADELAYER_VERSION < GoingLive(s, block)[k].minClientVersion

CheckLiveActivations(s, block) ==
    LET live == GoingLive(s, block)
    IN  [s EXCEPT !.pending = SelectSeq(@, LAMBDA a :
                                  \A k \in DOMAIN live : live[k].feature # a.feature),
                  !.completed = @ \o live]
=============================================================================
