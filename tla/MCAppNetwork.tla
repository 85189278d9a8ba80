---------------------------- MODULE MCAppNetwork ----------------------------
(* The Wi-Fi thread of app_network.c by itself, with two networks. *)
EXTENDS AppNetwork

CONSTANTS c1, c2
=============================================================================
