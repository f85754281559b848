----------------------------- MODULE MCMonitor -----------------------------
(* Constant values for model-checking module Monitor. *)
EXTENDS Monitor

MCTemps      == {0, 2}
MCLimits     == {<<1, 2>>, <<3, 4>>}
MCInitLimits == <<1, 2>>
MCOrders     == {<<"s">>, <<"o">>, <<"q", 2>>, <<"t", <<3, 4>>>>}
MCSleepOrders == {<<"s">>, <<"o">>}
MCTestOrders == {<<"q", 2>>}

MCPosts      == {KeySuspends, KeyRecovers, TickPost}
=============================================================================
