---------------------------------- MODULE Agent ----------------------------------
(*******************************************************************************)
(* The SNMP agent at the other end of the connection.  It is not part of the   *)
(* repository: the module says which replies to a request PDU process_pdu has  *)
(* to be ready for (RFC 1157, RFC 3416).                                       *)
(*******************************************************************************)
EXTENDS SessionHandlers

CONSTANT Mib   \* the OIDs of the instances the agent holds

ASSUME MibAssumption == Mib \subseteq Oid /\ IsFiniteSet(Mib)

HasNext(oid) == \E m \in Mib : OidLT(oid, m)
NextOid(oid) ==
  CHOOSE m \in Mib : OidLT(oid, m) /\ \A n \in Mib : OidLT(oid, n) => OidLE(m, n)

Value(oid) == [oid |-> oid, type |-> "VALUE"]

Reply(var_binds) ==
  [command |-> "RESPONSE", errstat |-> 0, errindex |-> 0, var_binds |-> var_binds]

\* noSuchName at the given index, the bindings of the request sent back.
ErrorReply(pdu, index) ==
  [ command |-> "RESPONSE", errstat |-> 2, errindex |-> index,
    var_binds |-> [i \in DOMAIN pdu.oids |-> Value(pdu.oids[i])] ]

\* SNMPv2c names what is missing binding by binding, SNMPv1 refuses the PDU at
\* the first one.
FirstMissing(pdu, held) == SelectInSeq(pdu.oids, LAMBDA oid : oid \notin held)

GetReplies(pdu) ==
  LET missing == FirstMissing(pdu, Mib)
      binding(oid) == IF oid \in Mib THEN Value(oid)
                      ELSE [oid |-> oid, type |-> "NO_SUCH_INSTANCE"]
  IN  {Reply([i \in DOMAIN pdu.oids |-> binding(pdu.oids[i])])}
        \cup IF missing = 0 THEN {} ELSE {ErrorReply(pdu, missing)}

GetNextReplies(pdu) ==
  LET missing == FirstMissing(pdu, { oid \in ToSet(pdu.oids) : HasNext(oid) })
  IN  IF missing # 0 THEN {ErrorReply(pdu, missing)}
      ELSE {Reply([i \in DOMAIN pdu.oids |-> Value(NextOid(pdu.oids[i]))])}

\* A repetition of GETBULK: the successor, or endOfMibView under the same OID.
Repetition(oid) ==
  IF HasNext(oid) THEN Value(NextOid(oid)) ELSE [oid |-> oid, type |-> "END_OF_MIB_VIEW"]

\* The r-th repetition of one OID.
Column(oid, repetitions) ==
  LET at[r \in 0 .. repetitions] ==
        IF r = 0 THEN Value(oid) ELSE Repetition(at[r - 1].oid)
  IN  at

\* The bindings of a whole GETBULK reply, repetition by repetition.
BulkBindings(pdu) ==
  LET n == Len(pdu.oids)
  IN  [ p \in 1 .. n * pdu.max_repetitions |->
          Column(pdu.oids[((p - 1) % n) + 1],
                 pdu.max_repetitions)[((p - 1) \div n) + 1] ]

\* An agent may end a GETBULK reply early; length says how short it may be.
BulkReplies(pdu, length) ==
  LET all == BulkBindings(pdu)
  IN  { Reply(SubSeq(all, 1, k)) : k \in length .. Len(all) }

RepliesFrom(pdu, length) ==
  CASE pdu.command = "GET"     -> GetReplies(pdu)
    [] pdu.command = "GETNEXT" -> GetNextReplies(pdu)
    [] pdu.command = "GETBULK" -> BulkReplies(pdu, length)

\* Every repetition may be cut off, but the first one is whole.
WholeRowReplies(pdu) == RepliesFrom(pdu, Len(pdu.oids))

\* The reply may be cut off anywhere behind its first binding.
ShortReplies(pdu) == RepliesFrom(pdu, 1)

================================================================================
