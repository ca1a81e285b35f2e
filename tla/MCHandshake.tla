---------------------------- MODULE MCHandshake ----------------------------
(***************************************************************************)
(* Two connections: of a client that uses its HandshakeState twice, for a  *)
(* server it trusts and for one whose certificate another authority        *)
(* signed; or of two clients of one server, which has a HandshakeState per *)
(* connection or one for all.                                              *)
(***************************************************************************)
EXTENDS Handshake, TLC

CONSTANTS c1, c2, pool, other, client, client2, resp1, resp2, us, them

Reuse ==
  [init |-> c1 :> client @@ c2 :> client, resp |-> c1 :> resp1 @@ c2 :> resp2,
   server |-> c1 :> pool @@ c2 :> other]

Parallel ==
  [init |-> c1 :> client @@ c2 :> client2, resp |-> c1 :> resp1 @@ c2 :> resp2,
   server |-> c1 :> pool @@ c2 :> pool]

MCPlans == {Reuse, Parallel}
MCSharedPlan == {[Parallel EXCEPT !.resp = c1 :> resp1 @@ c2 :> resp1]}

MCCerts ==
  pool :> NewSignedCertificate(us, pool, 1, 2)
    @@ other :> NewSignedCertificate(them, other, 0, 3)
=============================================================================
