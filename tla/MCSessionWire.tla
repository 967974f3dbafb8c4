------------------------------- MODULE MCSessionWire -------------------------------
(* Small instances of a session, an agent and a consumer for TLC. *)
EXTENDS MCSession, SessionWire

\* No ID, one shorter than a word, one that fills a word and one beyond it.
MCRequestIds == { [i \in 1 .. n |-> 96 + i] : n \in {0, 3, 8, 9} }

\* Values of every such length, different for different instances.
MCValueOf(oid) ==
  CASE oid = <<1, 1>>    -> <<>>
    [] oid = <<1, 2>>    -> <<7>>
    [] oid = <<1, 2, 1>> -> <<1, 2, 3, 4, 5, 6, 7, 8>>
    [] oid = <<2, 1>>    -> <<1, 2, 3, 4, 5, 6, 7, 8, 9>>
    [] OTHER             -> oid

================================================================================
