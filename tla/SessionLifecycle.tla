----------------------------- MODULE SessionLifecycle -----------------------------
(*******************************************************************************)
(* What SessionManager may count on in a session: the status it is born with,  *)
(* and what one call of send and one call of read may do to it.  Session       *)
(* implements it; SessionManager is built on it.                               *)
(*******************************************************************************)
EXTENDS SessionStatus, Naturals

VARIABLES
  status,       \* the status of the session
  pending,      \* is there a PDU in flight?
  resends,      \* how often it has been sent again
  retries       \* how often it may be

vars == <<status, pending, resends, retries>>

Init ==
  /\ status \in Created
  /\ pending = FALSE
  /\ resends = 0
  /\ retries \in Nat

\* A send that does anything finds the session idle, without a PDU in flight.
Send ==
  /\ status = "IDLE" /\ ~pending
  /\ status' \in AfterSend(status)
  /\ pending' = (status' = "WAIT")
  /\ resends' = IF pending' THEN 0 ELSE resends
  /\ UNCHANGED retries

\* The PDU in flight is over and done with: answered, given up, or lost with the
\* connection.
Ended == ~pending' /\ status' # "WAIT" /\ UNCHANGED resends

\* The PDU is sent again; the session waits on, or is closed under it.
SentAgain ==
  /\ resends < retries /\ resends' = resends + 1
  /\ pending' /\ status' # "IDLE"

\* The session is closed and its PDU left behind.
LeftBehind == pending' /\ status' = "CLOSED" /\ UNCHANGED resends

\* A read that does anything finds the session waiting, with its PDU in flight.
Read ==
  /\ status = "WAIT" /\ pending
  /\ status' \in AfterRead(status)
  /\ pending' \in BOOLEAN
  /\ Ended \/ SentAgain \/ LeftBehind
  /\ UNCHANGED retries

Next == Send \/ Read

Spec == Init /\ [][Next]_vars

================================================================================
