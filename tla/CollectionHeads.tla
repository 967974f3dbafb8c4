---------------------------- MODULE CollectionHeads ----------------------------
(*******************************************************************************)
(* CollectionHead (include/session.hpp, session.cpp): the cursor of one walk   *)
(* (or the target of one get) below one root OID, restricted to one range.     *)
(*******************************************************************************)
EXTENDS SnmpRequests

CollectionHead == [ root_oid_index : Nat,
           root_oid       : Oid,
           range          : OidRange,
           req_oid        : Optional(Oid),
           last_resp_oid  : Optional(Oid) ]

\* The root OID stands before both ends of the range: an empty start or stop
\* becomes the root OID itself.
RootedRange(root, range) ==
  [ start |-> root \o ValueOr(range, Everything).start,
    stop  |-> root \o ValueOr(range, Everything).stop ]

HeadThrows(root, range) ==
  RangeThrows(RootedRange(root, range).start, RootedRange(root, range).stop)

NewHead(index, root, range) ==
  [ root_oid_index |-> index,
    root_oid       |-> root,
    range          |-> RootedRange(root, range),
    req_oid        |-> None,
    last_resp_oid  |-> None ]

Active(head) == head.req_oid # None

\* Mutant of Activate: the last answer is not reset.
ActivateKeeping(head) ==
  [ head EXCEPT !.req_oid = Some(ValueOr(head.last_resp_oid, head.root_oid)) ]

\* get_next_req_oid: go on from the last answer, or start at the root OID.
Activate(head) ==
  [ head EXCEPT !.req_oid = Some(ValueOr(head.last_resp_oid, head.root_oid)),
                !.last_resp_oid = None ]

\* Mutant of Cursor: an answer is compared with the root OID, not the OID asked for.
CursorAtRoot(head) == ValueOr(head.last_resp_oid, head.root_oid)

\* The cursor of an active head: only answers beyond it are taken.
Cursor(head) == ValueOr(head.last_resp_oid, head.req_oid[1])

\* Mutant of Accepts: a walk looks at the lower bound only.
AcceptsUnbounded(head, type, oid) ==
  /\ Active(head)
  /\ IF type = "GET" THEN head.range.start = oid
                     ELSE OidLE(head.range.start, oid)

\* The lambda of process_var_bind: does oid belong to this head?
Accepts(head, type, oid) ==
  /\ Active(head)
  /\ \/ /\ type = "GET"
        /\ head.range.start = oid
     \/ /\ type = "WALK"
        /\ \/ OidLE(head.range.start, oid) /\ OidLE(oid, head.range.stop)
           \/ IsRootOf(head.range.stop, oid)

\* A head that was asked for and has had no answer is taken to be complete.
Complete(head) == Active(head) /\ head.last_resp_oid = None

================================================================================
