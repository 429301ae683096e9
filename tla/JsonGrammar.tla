---------------------------- MODULE JsonGrammar ----------------------------
(***************************************************************************)
(* What JSON.parse accepts: the grammar of RFC 8259, over a text without   *)
(* its blanks; no two primitives or strings ever stand side by side in it. *)
(***************************************************************************)
EXTENDS JsonDocument

IsSign(s, sign) == s = <<sign>>
Inner(s) == SubSeq(s, 2, Len(s) - 1)
Rest(s, n) == SubSeq(s, n, Len(s))

RECURSIVE IsValue(_), IsList(_, _)

IsMember(s) == Len(s) > 2 /\ s[1] \in Strings /\ s[2] = ":" /\ IsValue(Rest(s, 3))

IsList(s, members) ==
  LET item(t) == IF members THEN IsMember(t) ELSE IsValue(t) IN
  \/ item(s)
  \/ \E i \in DOMAIN s :
       s[i] = "," /\ item(SubSeq(s, 1, i - 1)) /\ IsList(Rest(s, i + 1), members)

IsValue(s) ==
  \/ \E sign \in Strings \cup {Primitive, Overflow} : IsSign(s, sign)
  \/ /\ Len(s) > 1 /\ s[1] \in {"{", "["} /\ s[Len(s)] = Closing(s[1])
     /\ Len(s) = 2 \/ IsList(Inner(s), s[1] = "{")

Solid(s) == SelectSeq(s, LAMBDA sign : sign # Blank)

InGrammar(s) == IsValue(Solid(s))
=============================================================================
