---------------------------- MODULE MCProxyAdmin ----------------------------
(***************************************************************************)
(* An instance of ProxyAdmin for TLC: two routes, one of them present when *)
(* the page opens, and one service for the picker.                         *)
(***************************************************************************)
EXTENDS ProxyAdmin

MCRoutes == {"GET /a", "POST /b"}
MCInitRoutes == {"GET /a"}
MCServices == {"svc"}
=============================================================================
