------------------------------- MODULE SessionStatus -------------------------------
(*******************************************************************************)
(* The statuses of a session (SessionStatus in session.hpp), and what the      *)
(* constructor, send and read may make of them.                                *)
(*******************************************************************************)

Status == {"IDLE", "WAIT", "CLOSED"}

Created == {"IDLE", "CLOSED"}

AfterSend(status) == IF status = "IDLE" THEN {"WAIT", "CLOSED"} ELSE {status}

AfterRead(status) ==
  IF status = "WAIT" THEN {"IDLE", "WAIT", "CLOSED"} ELSE {status}

================================================================================
