-------------------------------- MODULE MCJwt --------------------------------
(* Instances of Jwt for TLC: keys on the curves P-256 and P-521, whose       *)
(* signatures have 64 and 132 bytes, so that lengths are coded in one and in *)
(* two bytes and the DER form is below and above 128 bytes; a hash of 32     *)
(* bytes, which main signs, and one that is too long.                        *)
EXTENDS Jwt, TLC

MCKeys == {"p256", "p521"}
MCHalfOf == ("p256" :> 32) @@ ("p521" :> 66)
MCHashes == {"token", "hello", "file"}
MCHashLen == ("token" :> 32) @@ ("hello" :> 48) @@ ("file" :> 65)
==============================================================================
