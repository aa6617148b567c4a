--------------------------- MODULE MCSessionLive ----------------------------
(* Liveness: names in several polls, a preview cache that overflows, and,  *)
(* with every script, a reset, a restart or a lost connection.             *)
EXTENDS Session

VARIABLE script   \* what is still to come from outside, in this order, if it comes

(* Bound: what comes from outside in one behaviour, in any interleaving    *)
(* with what the page and the server do.                                   *)
Scripts ==
  {<<"message", "message", "scroll", "clear", "message">>,
   <<"message", "select", "clear", "message", "select", "message">>,
   <<"message", "clear", "select", "message">>,
   <<"message", "select", "restart", "message", "select">>,
   <<"message", "restart", "select", "message">>,
   <<"message", "lost", "select">>,
   <<"message", "message", "compare", "tab", "compare", "message">>,
   <<"message", "compare", "tab", "clear", "message">>,
   <<"message", "compare", "tab", "restart", "message">>,
   <<"message", "compare", "tab", "lost">>}

Outside(kind) ==
  \/ kind = "message" /\ \E name \in Names : Publish(name)
  \/ kind = "clear"   /\ Clear
  \/ kind = "restart" /\ Restart
  \/ kind = "lost"    /\ ConnectionLost
  \/ kind = "scroll"  /\ \E view \in Views : Scroll(view)
  \/ kind = "select"  /\ \E id \in TopicIds \cup Range(b.rows) : Select(id)
  \/ kind = "compare" /\ \E name \in Names : ToggleCompare(name)
  \/ kind = "tab"     /\ \E tab \in {"topic", "compare"} : ShowTab(tab)

Inside ==
  \/ ConnectWS
  \/ SocketEvent
  \/ Render
  \/ \E c \in Conns : ReaderStep(c) \/ WriterStep(c) \/ FailingWrite(c)

MCInit == Init /\ script \in Scripts

MCNext ==
  \/ script # <<>> /\ Outside(Head(script)) /\ script' = Tail(script)
  \/ Inside /\ UNCHANGED script

MCSpec == MCInit /\ [][MCNext]_<<vars, script>> /\ Fairness
=============================================================================
