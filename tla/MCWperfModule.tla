---------------------------- MODULE MCWperfModule ----------------------------
(***************************************************************************)
(* WperfModule with the probes of tx_stat, one pid, and a list for its     *)
(* filter that is refused.                                                 *)
(***************************************************************************)
EXTENDS WperfModule

CONSTANTS p, bad

FiveProbes ==
  <<"tcp_sendmsg", "udp_sendmsg", "tcp_sendpage", "udp_sendpage", "sock_sendmsg">>

TwoLists == {<<p>>, <<p, bad>>}
OnePath == {<<"sock_sendmsg", "tcp_sendmsg">>}

=============================================================================
