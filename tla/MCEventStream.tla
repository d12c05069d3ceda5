---------------------------- MODULE MCEventStream ----------------------------
(* Two instances, a call on each, and a page that hears of one of them     *)
(* from its own instance and of the other over the bus.                    *)
EXTENDS EventStream, TLC

CONSTANTS i1, i2, p1, p2, c

MCInstanceOf == (p1 :> i1) @@ (p2 :> i2) @@ (c :> i2)

(* As redis_bus_test.go:20-25 names them.                                  *)
MCOwnIds == (i1 :> "api-1") @@ (i2 :> "api-2")

(* As main.go:51 names them.                                               *)
MCSameId == (i1 :> "api-local") @@ (i2 :> "api-local")

=============================================================================
