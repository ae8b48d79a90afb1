----------------------------- MODULE Ecosystem -----------------------------
(***************************************************************************)
(* The two ecosystems: TL and the properties from 3 on, TTL and the        *)
(* properties from TEST_ECO_PROPERTY_1 on.                                 *)
(***************************************************************************)
EXTENDS Integers, Common

CONSTANT TestEcoProperty1   \* TEST_ECO_PROPERTY_1

ASSUME EcosystemAssumption == TestEcoProperty1 \in Nat /\ TestEcoProperty1 > 3

isTestEcosystemProperty(p) == p = TL_PROPERTY_TMSC \/ p >= TestEcoProperty1
isMainEcosystemProperty(p) == p # 0 /\ ~isTestEcosystemProperty(p)
============================================================================
