----------------------------- MODULE MCGateway -----------------------------
(* One member with a device, one administrator, and two concurrent requests. *)
EXTENDS Gateway

TwoSessions == {"boss-mfa", "maker"}
WhoseSession == [s \in TwoSessions |-> IF s = "maker" THEN "m" ELSE "a"]
OneList == {{}}
=============================================================================
