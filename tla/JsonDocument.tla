---------------------------- MODULE JsonDocument ----------------------------
(***************************************************************************)
(* parseJson of runtime-files.mts: a traversal that only follows structure *)
(* and decoded key identity, then JSON.parse.  The traversal is lenient    *)
(* where JSON.parse is strict (a primitive is whatever precedes a blank or *)
(* a closing sign, more signs count as blanks); together they must accept  *)
(* exactly the valid documents that no reader could take in two ways.      *)
(* A text is a sequence of signs; a string or a primitive is one sign.     *)
(* JSON.parse is external: what it accepts is a constant; what parseJson   *)
(* accepts depends on no more of it than GrammarAssumption says, what it   *)
(* refuses on NeighbourAssumption too.                                     *)
(***************************************************************************)
EXTENDS Integers, Sequences, FiniteSets

CONSTANTS
  Strings,     \* well-formed strings, by their spelling
  Decode,      \* what JSON.parse makes of each
  MaxDepth,    \* the nesting limit, 128 in the code
  Texts,       \* the texts to be parsed
  Parses(_)    \* whether JSON.parse accepts a text

Primitive == "true"
Overflow == "1e999"           \* a number without a finite value
BadString == "bad string"     \* not terminated, or with a bad escape
Blank == " "
OddBlank == "no-break space"  \* a blank for a regular expression only
Others == {Primitive, Overflow, BadString, Blank, OddBlank,
           "{", "}", "[", "]", ",", ":"}
Signs == Strings \cup Others

NoSign == "end"               \* what is read at the end of the text

TextRules ==
  /\ Strings \cap (Others \cup {NoSign}) = {}
  /\ DOMAIN Decode = Strings
  /\ MaxDepth \in Nat
  /\ Texts \subseteq Seq(Signs)

Blanks == {Blank, OddBlank}   \* what skipWhitespace passes
Opening == {"{", "["}
ClosingSigns == {"}", "]"}
Closing(opening) == IF opening = "{" THEN "}" ELSE "]"

-----------------------------------------------------------------------------
(* What is assumed of JSON.parse, as relations between the positions of a  *)
(* text: how many objects and arrays are open at one, and what is a key.   *)
Before(s, p, signs) == {q \in 1 .. p - 1 : s[q] \in signs}

Depth(s, p) == Cardinality(Before(s, p, Opening)) - Cardinality(Before(s, p, ClosingSigns))

KeyAt(s, i, colon) ==
  /\ i < colon /\ s[i] \in Strings /\ s[colon] = ":"
  /\ \A p \in i + 1 .. colon - 1 : s[p] = Blank

IsKey(s, i) == \E colon \in DOMAIN s : KeyAt(s, i, colon)

(* In a text of RFC 8259 a primitive ends at the text's end, a blank, a    *)
(* comma or a closing sign, and a colon comes after a string.              *)
GrammarRules ==
  \A s \in Texts : Parses(s) =>
    \A p \in DOMAIN s :
      /\ s[p] \in {Primitive, Overflow} =>
           p = Len(s) \/ s[p + 1] \in {Blank, ",", "]", "}"}
      /\ s[p] = ":" =>
           \E i \in 1 .. p - 1 :
             s[i] \in Strings /\ \A j \in i + 1 .. p - 1 : s[j] = Blank

(* Where a value starts, where one ends, and the object or array around.   *)
Starts == Strings \cup {Primitive, Overflow} \cup Opening

ValueAt(s, p) == p \in DOMAIN s /\ s[p] \in Starts /\ ~IsKey(s, p)

EndOfValue(s, i) == s[i] \in Strings \cup {Primitive, Overflow} \cup ClosingSigns /\ ~IsKey(s, i)

Innermost(s, j, p) ==
  /\ j \in 1 .. p - 1 /\ s[j] \in Opening /\ Depth(s, p) = Depth(s, j) + 1
  /\ \A r \in j + 1 .. p : Depth(s, r) > Depth(s, j)

(* Two signs with blanks between them; 0 and Len(s) + 1 are the ends.      *)
Neighbours(s, i, p) ==
  /\ i < p /\ \A r \in i + 1 .. p - 1 : s[r] \in Blanks
  /\ p = Len(s) + 1 \/ s[p] \notin Blanks

MemberAt(s, p, opening) ==
  IF opening = "{" THEN p \in DOMAIN s /\ IsKey(s, p) ELSE ValueAt(s, p)

(* In a text of RFC 8259 a value comes first and after a colon, a member   *)
(* after an opening sign, unless that is closed, and after a comma; after  *)
(* a value comes a comma or what closes the innermost object or array, and *)
(* after the outermost value the end.                                      *)
NeighbourRules ==
  \A s \in Texts : Parses(s) =>
    \A p \in 1 .. Len(s) + 1 :
      /\ Neighbours(s, 0, p) => ValueAt(s, p)
      /\ \A i \in DOMAIN s : Neighbours(s, i, p) =>
           /\ s[i] = ":" => ValueAt(s, p)
           /\ s[i] \in Opening =>
                MemberAt(s, p, s[i]) \/ (p \in DOMAIN s /\ s[p] = Closing(s[i]))
           /\ s[i] = "," =>
                \A j \in DOMAIN s : Innermost(s, j, p) => MemberAt(s, p, s[j])
           /\ EndOfValue(s, i) /\ Depth(s, p) = 0 => p = Len(s) + 1
           /\ EndOfValue(s, i) /\ Depth(s, p) > 0 =>
                \A j \in DOMAIN s : Innermost(s, j, p) =>
                  p \in DOMAIN s /\ s[p] \in {",", Closing(s[j])}

ASSUME TextAssumption == TextRules
ASSUME GrammarAssumption == GrammarRules
ASSUME NeighbourAssumption == NeighbourRules

VARIABLES
  text,      \* jsonText
  position,  \* the next sign
  stack,     \* open objects and arrays: closing sign and keys seen
  stage         \* where the traversal is, or the outcome

jsonVars == <<text, position, stack, stage>>

JsonInit ==
  /\ text \in Texts
  /\ position = 1
  /\ stack = <<>>
  /\ stage = "value"

-----------------------------------------------------------------------------
End == Len(text) + 1
At(p) == IF p < End THEN text[p] ELSE NoSign

(* The first position from p on whose sign is in a set, or the end.        *)
FirstIn(p, signs) ==
  CHOOSE q \in p .. End :
    /\ q = End \/ text[q] \in signs
    /\ \A r \in p .. q - 1 : text[r] \notin signs

(* skipWhitespace.                                                         *)
AfterBlanks(p) == IF p > End THEN p ELSE FirstIn(p, Signs \ {Blank, OddBlank})

Top == stack[Len(stack)]
Below == SubSeq(stack, 1, Len(stack) - 1)

Continue(where, next) == position' = where /\ stage' = next /\ UNCHANGED text
Reject == stage' = "rejected" /\ UNCHANGED <<text, position, stack>>

(* checkJsonValue: a string, an empty or a non-empty object or array.      *)
ReadValue ==
  LET p == AfterBlanks(position)
      q == AfterBlanks(p + 1) IN
  /\ stage = "value" /\ Len(stack) <= MaxDepth
  /\ \/ At(p) \in Strings /\ Continue(p + 1, "separator") /\ UNCHANGED stack
     \/ /\ At(p) \in {"{", "["}
        /\ \/ /\ At(q) = Closing(At(p))
              /\ Continue(q + 1, "separator") /\ UNCHANGED stack
           \/ /\ At(q) # Closing(At(p))
              /\ stack' = Append(stack, [closing |-> Closing(At(p)), keys |-> {}])
              /\ Continue(q, "member")

(* A primitive is skipped without being looked at.                         *)
SkipPrimitive ==
  LET p == AfterBlanks(position)
      after == FirstIn(p, {Blank, OddBlank, ",", "]", "}"}) IN
  /\ stage = "value" /\ Len(stack) <= MaxDepth
  /\ At(p) \notin Strings \cup {BadString, "{", "["}
  /\ after > p
  /\ Continue(after, "separator") /\ UNCHANGED stack

(* Mutant: keys are compared as they are spelled.                          *)
ReadKeySpelling ==
  LET p == AfterBlanks(position)
      colon == AfterBlanks(p + 1) IN
  /\ stage = "member" /\ Top.closing = "}"
  /\ At(p) \in Strings /\ At(colon) = ":"
  /\ At(p) \notin Top.keys
  /\ stack' = Append(Below, [Top EXCEPT !.keys = @ \cup {At(p)}])
  /\ Continue(colon + 1, "value")

(* A member of an object: a key that is new by its decoded value.          *)
ReadKey ==
  LET p == AfterBlanks(position)
      colon == AfterBlanks(p + 1) IN
  /\ stage = "member" /\ Top.closing = "}"
  /\ At(p) \in Strings /\ At(colon) = ":"
  /\ Decode[At(p)] \notin Top.keys
  /\ stack' = Append(Below, [Top EXCEPT !.keys = @ \cup {Decode[At(p)]}])
  /\ Continue(colon + 1, "value")

NextElement ==
  /\ stage = "member" /\ Top.closing = "]" /\ position < End
  /\ Continue(position, "value") /\ UNCHANGED stack

(* After a value: the next member, or the end of what contains it.         *)
ReadSeparator ==
  LET p == AfterBlanks(position) IN
  /\ stage = "separator" /\ stack # <<>>
  /\ \/ At(p) = Top.closing /\ stack' = Below /\ Continue(p + 1, "separator")
     \/ At(p) = "," /\ Continue(p + 1, "member") /\ UNCHANGED stack

EndOfTraversal ==
  /\ stage = "separator" /\ stack = <<>>
  /\ AfterBlanks(position) = End
  /\ Continue(End, "parse") /\ UNCHANGED stack

Traverse ==
  \/ ReadValue \/ SkipPrimitive \/ ReadKey \/ NextElement
  \/ ReadSeparator \/ EndOfTraversal

(* Everything else throws: a value nested too deep, or none where one is   *)
(* expected; a text that ends in an object or array; a member without a    *)
(* key and a colon, or with a key seen before; no separator after a        *)
(* member; and more text after the outermost value.                        *)
TooDeep == stage = "value" /\ Len(stack) > MaxDepth

NoValue ==
  /\ stage = "value" /\ Len(stack) <= MaxDepth
  /\ At(AfterBlanks(position)) \in {NoSign, BadString, ",", "]", "}"}

Unterminated == stage = "member" /\ position = End

NoKey ==
  LET p == AfterBlanks(position) IN
  /\ stage = "member" /\ Top.closing = "}" /\ position < End
  /\ At(p) \notin Strings \/ At(AfterBlanks(p + 1)) # ":"

(* Mutant: one set of keys for all open objects.                           *)
KeySeenOutside ==
  LET p == AfterBlanks(position) IN
  /\ stage = "member" /\ Top.closing = "}"
  /\ At(p) \in Strings /\ \E k \in DOMAIN stack : Decode[At(p)] \in stack[k].keys

KeySeen ==
  LET p == AfterBlanks(position) IN
  /\ stage = "member" /\ Top.closing = "}"
  /\ At(p) \in Strings /\ Decode[At(p)] \in Top.keys

NoSeparator ==
  /\ stage = "separator" /\ stack # <<>>
  /\ At(AfterBlanks(position)) \notin {Top.closing, ","}

MoreText == stage = "separator" /\ stack = <<>> /\ AfterBlanks(position) # End

Refuse ==
  /\ \/ TooDeep \/ NoValue \/ Unterminated \/ NoKey \/ KeySeen
     \/ NoSeparator \/ MoreText
  /\ Reject

-----------------------------------------------------------------------------
Finite == \A i \in DOMAIN text : text[i] # Overflow

(* JSON.parse with a reviver that refuses infinite numbers.                *)
Parse ==
  /\ stage = "parse"
  /\ \/ Parses(text) /\ Finite /\ Continue(position, "accepted")
     \/ ~(Parses(text) /\ Finite) /\ Continue(position, "rejected")
  /\ UNCHANGED stack

JsonNext == Traverse \/ Refuse \/ Parse

JsonSpec == JsonInit /\ [][JsonNext]_jsonVars

-----------------------------------------------------------------------------
(* Properties.                                                             *)

(* No value or key lies below the nesting limit.                           *)
Shallow(s) == \A p \in DOMAIN s : s[p] \in Starts => Depth(s, p) <= MaxDepth

(* Two keys of one object, however deep it lies, that a reader decodes to  *)
(* the same name.                                                          *)
SameObject(s, i, j) ==
  Depth(s, i) = Depth(s, j) /\ \A p \in i .. j : Depth(s, p) >= Depth(s, i)

Ambiguous(s) ==
  \E i, j \in DOMAIN s :
    /\ i < j /\ IsKey(s, i) /\ IsKey(s, j)
    /\ SameObject(s, i, j) /\ Decode[s[i]] = Decode[s[j]]

(* What parseJson accepts, JSON.parse accepts, within the nesting limit    *)
(* and with finite numbers, and no object of it has two members of one     *)
(* decoded name: the lenient traversal never loses its place in a text     *)
(* JSON.parse accepts, so it misses no duplicate (runtime-files.mts:26-31).*)
NothingAmbiguousAccepted ==
  stage = "accepted" => Parses(text) /\ Finite /\ Shallow(text) /\ ~Ambiguous(text)

(* No other document is refused: whatever blanks and nesting a valid text  *)
(* uses, the traversal follows it to its end (runtime-files.mts:45-104).   *)
NothingElseRefused ==
  stage = "rejected" => ~(Parses(text) /\ Finite /\ Shallow(text) /\ ~Ambiguous(text))
=============================================================================
