-------------------------------- MODULE MCInbox --------------------------------
(* Instances of Inbox for TLC: two messages of one kind, of which a        *)
(* notification replaces the other, and one of another kind.               *)
EXTENDS Inbox

MCMessages == {"focus_on", "focus_off", "input_ready"}
MCTag == [m \in MCMessages |-> IF m = "input_ready" THEN "input_ready" ELSE "focus"]

================================================================================
