---------------------------------- MODULE Oids ----------------------------------
(*******************************************************************************)
(* ObjectIdentity (include/types.hpp): an SNMP object identifier, a sequence   *)
(* of arcs.  The code only compares and concatenates arcs, so their 64-bit     *)
(* width never shows and an arc is a natural number.  Concatenation is \o and  *)
(* is_root_of is IsPrefix.                                                     *)
(*                                                                             *)
(* std::optional is a sequence of at most one element.                         *)
(*******************************************************************************)
EXTENDS Integers, SequencesExt

Oid == Seq(Nat)

\* a is lexicographically less than b: up to the first place k where b goes on
\* or differs they agree, and there a has ended or has the smaller arc.
OidLT(a, b) ==
  \E k \in 1 .. Len(b) :
    /\ k <= Len(a) + 1
    /\ \A j \in 1 .. k - 1 : a[j] = b[j]
    /\ k <= Len(a) => a[k] < b[k]

OidLE(a, b) == a = b \/ OidLT(a, b)

IsRootOf(root, oid) == IsPrefix(root, oid)

--------------------------------------------------------------------------------

Optional(S) == { o \in Seq(S) : Len(o) <= 1 }
None        == <<>>
Some(x)     == <<x>>
ValueOr(o, default) == IF o = None THEN default ELSE o[1]

================================================================================
