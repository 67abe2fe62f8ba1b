------------------------------- MODULE MCGate -------------------------------
(***************************************************************************)
(* The two checks api_key_gate makes: the key, and the rate.  They share no *)
(* variable; "part" says which of them moves in a behaviour.  The other one *)
(* rests in its first state, where fairness asks nothing.                   *)
(***************************************************************************)
EXTENDS ApiKeys, RateLimiter, TLC

CONSTANTS byIp, byKey

VARIABLE part

gateParts == <<vars, rateVars, part>>

\* An address without a key and a key with the higher limit.
MCIdentifier == {byIp, byKey}
MClimit == (byIp :> 1) @@ (byKey :> 2)

\* The types of both checks.
GateTypeOK == TypeOK /\ RateTypeOK

GateInit == part \in {"key", "rate"} /\ Init /\ RateInit

KeyPart == part = "key" /\ Next /\ UNCHANGED <<rateVars, part>>

RatePart == part = "rate" /\ RateNext /\ UNCHANGED <<vars, part>>

GateNext == KeyPart \/ RatePart

GateSpec == GateInit /\ [][GateNext]_gateParts /\ Fairness
=============================================================================
