------------------------------ MODULE MCSession ------------------------------
(* Session with the replies of proxies: plain ones, ones with header lines, *)
(* refusals with a body behind the empty line, lines that are too long or   *)
(* have no space, lines with 200 behind a refusal, and replies cut off.     *)

EXTENDS Session

ProxyReplies ==
  {<<"ok", "blank">>,
   <<"ok", "header", "blank">>,
   <<"ok", "long", "blank">>,
   <<"ok", "bare", "blank">>,
   <<"ok">>,
   <<"refused", "blank">>,
   <<"refused", "header", "header", "blank", "header", "blank", "header">>,
   <<"refused", "header", "blank", "bare", "blank">>,
   <<"refused", "ok", "blank">>,
   <<"refused", "blank", "ok", "blank">>,
   <<"long">>,
   <<>>}
=============================================================================
