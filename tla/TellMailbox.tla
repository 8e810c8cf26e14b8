---------------------------- MODULE TellMailbox ----------------------------
(***************************************************************************)
(* What "tell" promises about one machine's messages, whatever happens to  *)
(* the process, the disk or the sender's retries: a message is handed over *)
(* at most once, and never after it was closed (failed, uncertain, expired *)
(* or too old to be known).                                                *)
(***************************************************************************)
CONSTANT Ids
VARIABLE post    \* what has become of each message

Init == post = [id \in Ids |-> "new"]

(* The moves of one message. *)
Moves == {<<"new", "queued">>, <<"new", "closed">>,
          <<"queued", "taken">>, <<"queued", "closed">>}

Next ==
  LET was == post
      is  == post'
  IN /\ is \in [Ids -> {"new", "queued", "taken", "closed"}]
     /\ \A id \in Ids : was[id] = is[id] \/ <<was[id], is[id]>> \in Moves

Spec == Init /\ [][Next]_post
=============================================================================
