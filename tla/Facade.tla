----------------------------------- MODULE Facade -----------------------------------
(*******************************************************************************)
(* The Python facade (snmp_stream/__init__.py): what get and walk make of the  *)
(* OIDs and ranges their callers write.                                        *)
(*                                                                             *)
(* A text is what str.split('.') makes of it: a sequence of numbers, each      *)
(* missing where two dots, or a dot and an end of the text, stand side by side.*)
(* '.1.3' is <<None, Some(1), Some(3)>> and '' is <<None>>.                    *)
(*******************************************************************************)
EXTENDS SnmpRequests

Text == Seq(Optional(Nat))

\* oid_to_string: the text str() shows for an OID.
OidToString(oid) == <<None>> \o [i \in DOMAIN oid |-> Some(oid[i])]

\* An OID as a caller writes it: a text, a sequence of numbers, an
\* ObjectIdentity, or None.
Argument(form, value) == [form |-> form, value |-> value]

\* int of every part of the text; Undotted is oid[1:] if oid[0] == '.'.
Numbers(text)  == [i \in DOMAIN text |-> text[i][1]]
Undotted(text) == IF text[1] = None /\ Len(text) > 1 THEN Tail(text) ELSE text

\* ObjectIdentity(oid): int('') throws, and so does ''[0].
ObjectIdentityThrows(argument) ==
  argument.form = "text" /\ None \in ToSet(Undotted(argument.value))

ObjectIdentity(argument) ==
  IF argument.form = "text" THEN Numbers(Undotted(argument.value)) ELSE argument.value

\* One pass of the comprehension of to_object_identity, which drops empty parts.
AppendPart(arcs, part) == IF part = None THEN arcs ELSE Append(arcs, part[1])

PartLoop == INSTANCE Loop WITH Step <- AppendPart

\* Mutant of ToObjectIdentity: the part before the first dot is dropped, empty
\* or not.
ToObjectIdentityTail(argument) ==
  IF argument.form = "text" THEN PartLoop!Run(<<>>, Tail(argument.value)) ELSE argument.value

ToObjectIdentity(argument) ==
  IF argument.form = "text" THEN PartLoop!Run(<<>>, argument.value) ELSE argument.value

\* to_object_identity_range: a pair of OIDs, or one that is both ends.
ToObjectIdentityRange(argument) ==
  IF argument.form = "pair"
  THEN [ start |-> ToObjectIdentity(argument.value[1]),
         stop  |-> ToObjectIdentity(argument.value[2]) ]
  ELSE LET oid == ToObjectIdentity(argument) IN [start |-> oid, stop |-> oid]

--------------------------------------------------------------------------------
(* The ways to write an OID or a range *)

Styles == {"printed", "undotted", "numbers", "object", "single"}

\* As str() shows it, without the leading dot, as numbers, or as an
\* ObjectIdentity made from its text; the empty OID also as None.
OidArgument(style, oid) ==
  LET printed == Argument("text", OidToString(oid))
  IN  IF style \in {"printed", "single"} THEN printed
      ELSE IF style = "numbers" THEN Argument("numbers", oid)
      ELSE IF oid = <<>> THEN Argument("none", <<>>)
      ELSE IF style = "undotted" THEN Argument("text", Tail(OidToString(oid)))
      ELSE Argument("object", ObjectIdentity(printed))

\* A pair, or where the caller likes it a single OID for a point.
RangeArgument(style, range) ==
  IF style = "single" /\ range.start = range.stop
  THEN OidArgument(style, range.start)
  ELSE Argument("pair", << OidArgument(style, range.start),
                           OidArgument(style, range.stop) >>)

================================================================================
