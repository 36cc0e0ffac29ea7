---------------------------- MODULE MCWebSocket ----------------------------
EXTENDS WebSocket, TLC
CONSTANTS h, t1
Talks ==
  {<<"first", "ping", "middle", "last">>, <<"text", "pong", "first">>, <<"first", "text">>, <<"last">>,
   <<"text", "bad">>, <<"ping", "close">>, <<"close">>, <<>>}
Timeouts ==
  {[keep |-> 0, pong |-> 0, idle |-> 0], [keep |-> 1, pong |-> 2, idle |-> 0],
   [keep |-> 1, pong |-> 0, idle |-> 0], [keep |-> 0, pong |-> 2, idle |-> 2],
   [keep |-> 1, pong |-> 2, idle |-> 2]}
=============================================================================
