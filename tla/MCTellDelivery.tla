--------------------------- MODULE MCTellDelivery ---------------------------
(* Two messages for one pane, the second sent with policy "reject".         *)
EXTENDS TellDelivery

MCIds    == {1, 2}
MCPanes  == {"p"}
MCPaneOf == [id \in MCIds |-> "p"]

(* One message, for the liveness run. *)
OneId     == {1}
OnePaneOf == [id \in OneId |-> "p"]

(* States that differ only in what no step and no property reads any more   *)
(* are one: the time of messages that are closed; on a screen, which of the *)
(* closed ones it shows, as only whether it is empty is asked; and all of   *)
(* this once the GUI loop has stopped, which alone looks at it.             *)
Open == {id \in Ids : receipt[id] \notin Final}

Looked(g) ==
  IF gui = "running"
  THEN [g EXCEPT !.shown = (@ \cap Open) \cup (IF @ = {} THEN {} ELSE {User})]
  ELSE [g EXCEPT !.shown = {}, !.stashed = FALSE, !.typing = FALSE]

MCView == <<receipt, IF gui = "running" THEN lapsed \cap Open ELSE {}, active, batch, jobs, gui,
            [p \in Panes |-> Looked(pty[p])], live, bound, pasted, sent, turns>>
=============================================================================
