-------------------------------- MODULE Tally --------------------------------
(***************************************************************************)
(* The token ledger of Trade Layer: mp_tally_map, one CMPTally per         *)
(* address, one balance per property and tally type, and the freeze list   *)
(* update_tally_map consults.                                              *)
(*                                                                         *)
(* Handlers wrap update_tally_map in assert(), which release builds of the *)
(* node keep: a failed update ends the process.  `halted` records why the  *)
(* process is gone ("no" while it runs).                                   *)
(***************************************************************************)
EXTENDS Integers, TokenSum, Common

CONSTANTS
    Addr,       \* addresses
    Prop,       \* property identifiers (1 = TL, 2 = TTL, > 2 issued tokens)
    TallyType,  \* the tally types the instance uses, among AllTallyTypes
    MaxInt      \* the largest int64_t

VARIABLES
    tally,               \* mp_tally_map: address, property, type -> balance
    setFrozenAddresses,  \* pairs <<address, property>>
    halted               \* "no", or what ended the process

AllTallyTypes ==
    {"BALANCE", "SELLOFFER_RESERVE", "ACCEPT_RESERVE", "PENDING",
     "METADEX_RESERVE", "CONTRACTDEX_RESERVE", "POSSITIVE_BALANCE",
     "NEGATIVE_BALANCE", "LIQUIDATION_PRICE", "UNVESTED",
     "CONTRACTDEX_MARGIN", "CHANNEL_RESERVE"}

ASSUME TallyAssumption ==
    /\ Prop \subseteq Nat \ {0}
    /\ "BALANCE" \in TallyType
    /\ TallyType \subseteq AllTallyTypes
    /\ MaxInt \in Nat \ {0}

(* Whether the addition of a + b overflows an int64_t. *)
isOverflow(a, b) ==
    \/ b > 0 /\ a > MaxInt - b
    \/ b < 0 /\ a < -MaxInt - 1 - b

(* Mutant: the address is looked up under TL. *)
isAddressFrozen_TL(who, p) == <<who, TL_PROPERTY_MSC>> \in setFrozenAddresses

isAddressFrozen(who, p) == <<who, p>> \in setFrozenAddresses

(* What GetTokenBalance reads: the tally, except that ACCEPT_RESERVE reads *)
(* as empty for every property but TL and TTL.                             *)
GetTokenBalance(t, who, p, tt) ==
    IF tt = "ACCEPT_RESERVE" /\ p > TL_PROPERTY_TMSC THEN 0 ELSE t[who][p][tt]

(* Whether update_tally_map returns true rather than false or aborting. *)
Updatable(t, who, p, amount, tt) ==
    /\ amount # 0
    /\ tt = "BALANCE" /\ amount < 0 => ~isAddressFrozen(who, p)
    /\ ~isOverflow(t[who][p][tt], amount)
    /\ tt = "PENDING" \/ t[who][p][tt] + amount >= 0

(* The tally after update_tally_map returned true. *)
Updated(t, who, p, amount, tt) == [t EXCEPT ![who][p][tt] = @ + amount]

(* The pair of asserted updates every transfer consists of: n units of p   *)
(* leave from's type tf, then arrive at to's type tt.                      *)
Movable(t, p, n, from, tf, to, tt) ==
    /\ Updatable(t, from, p, -n, tf)
    /\ Updatable(Updated(t, from, p, -n, tf), to, p, n, tt)

Moved(t, p, n, from, tf, to, tt) ==
    Updated(Updated(t, from, p, -n, tf), to, p, n, tt)

(* All units of property p in the types ts of all addresses. *)
Supply(t, p, ts) ==
    SumOf([x \in Addr \X ts |-> t[x[1]][p][x[2]]])
=============================================================================
