--------------------------- MODULE MCJsonDocument ---------------------------
(* Every document of one level with at most two members, every document of *)
(* two levels with at most two and some of three, and every way of         *)
(* inserting, deleting or replacing one sign in the smaller ones.  The key *)
(* "a-escaped" is another spelling of "a".                                 *)
EXTENDS JsonGrammar

MCStrings == {"a", "a-escaped", "b"}
MCDecode == [s \in MCStrings |-> IF s = "b" THEN "b" ELSE "a"]

Lists(opening, items) ==
  LET closing == IF opening = "{" THEN "}" ELSE "]" IN
  {<<opening, closing>>}
  \cup {<<opening>> \o i \o <<closing>> : i \in items}
  \cup {<<opening>> \o i \o <<",">> \o j \o <<closing>> : i, j \in items}
MembersOf(values) == {<<key, ":">> \o v : key \in MCStrings, v \in values}
Containers(values) == Lists("[", values) \cup Lists("{", MembersOf(values))
Single(values) ==
  {<<"[">> \o v \o <<"]">> : v \in values}
  \cup {<<"{">> \o m \o <<"}">> : m \in MembersOf(values)}

Scalars == {<<"true">>, <<"a">>}
OneLevel == Containers(Scalars)
Plain == Containers({<<"true">>})
TwoLevels == Containers(Plain)
Nested == Single(Plain)
Small == Scalars \cup Plain \cup Nested
Deep == Single(Nested) \cup Single(Single(Nested))

Edits(s) ==
  LET before(i) == SubSeq(s, 1, i - 1)
      from(i) == SubSeq(s, i, Len(s)) IN
  {before(i) \o <<sign>> \o from(i) : i \in 1 .. Len(s) + 1, sign \in Signs}
  \cup {before(i) \o from(i + 1) : i \in DOMAIN s}
  \cup {before(i) \o <<sign>> \o from(i + 1) : i \in DOMAIN s, sign \in Signs}

MCTexts == OneLevel \cup TwoLevels \cup Deep \cup UNION {Edits(s) : s \in Small}

(* An outcome is final.  With this step a text that the traversal neither  *)
(* follows nor refuses is a deadlock, which the run looks for.             *)
Ended == stage \in {"accepted", "rejected"} /\ UNCHANGED jsonVars

MCSpec == JsonInit /\ [][JsonNext \/ Ended]_jsonVars
=============================================================================
