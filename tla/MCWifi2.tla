------------------------------- MODULE MCWifi2 -------------------------------
(* The Wi-Fi manager on small instances. *)
EXTENDS Wifi2

AllButConnect == State \ {"ST_WPASUP_CONNECT"}
AllChores == {"iflink0", "iflink1", "dhcp", "zcip", "wpasup0", "wpasup1",
              "wpacmd", "forget"}
=============================================================================
