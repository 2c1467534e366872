----------------------------- MODULE MCSharedState -----------------------------
(***************************************************************************)
(* SharedState for TLC: two callers, two algorithms, and encoders to spare.  *)
(***************************************************************************)
EXTENDS SharedState, TLC

CONSTANTS c1, c2, e1, e2, e3

Switch == "aes-256-gcm" :> "AES256GCM" @@ "aes-128-cbc" :> "AES128CBC"

=============================================================================
