--------------------------- MODULE MCVhostQueues ----------------------------
(***************************************************************************)
(* Two chains on one queue in each mode, so that requests are added and    *)
(* answered while others are served; and one chain on each of two queues,  *)
(* between which the event loop has to switch.                             *)
(***************************************************************************)
EXTENDS VhostQueues, TLC

CONSTANTS hiprio, requests, h1, h2

MCQueues == {hiprio, requests}
MCHeads == {h1, h2}

OneQueue == hiprio :> {} @@ requests :> {h1, h2}
TwoQueues == hiprio :> {h1} @@ requests :> {h1}

MCSetups ==
    [event_idx : BOOLEAN, pool : BOOLEAN, heads : {OneQueue}, exits : {TRUE}]
      \cup [event_idx : {FALSE}, pool : {FALSE}, heads : {TwoQueues}, exits : {FALSE}]
=============================================================================
