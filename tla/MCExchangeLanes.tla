--------------------------- MODULE MCExchangeLanes ----------------------------
(***************************************************************************)
(* Counters of three values, so that both go around within the bounds:     *)
(* four sequences on a lane, and a fourth connection that has the epoch of *)
(* the first one again. An event, a request of the acceptor and another    *)
(* event fit in one round, and an exchange of this connection may be under *)
(* way beside one of an earlier connection or of the same lane.            *)
(***************************************************************************)
EXTENDS ExchangeLanes

=============================================================================
