--------------------------- MODULE MCSQLiteStore ---------------------------
(***************************************************************************)
(* Two processes and four calls: two that share a nonce, one that shares   *)
(* its idempotency key with the first, and two claims of one run key.      *)
(***************************************************************************)
EXTENDS SQLiteStore, TLC

CONSTANTS p1, p2, c1, c2, r1, r2

MCProcessOf == c1 :> p1 @@ c2 :> p2 @@ r1 :> p1 @@ r2 :> p2
MCFirstName == c1 :> "nonce1" @@ c2 :> "nonce2" @@ r1 :> "run" @@ r2 :> "run"
MCSecondName == c1 :> "key" @@ c2 :> "key" @@ r1 :> "run" @@ r2 :> "run"

=============================================================================
