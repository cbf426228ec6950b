---------------------------- MODULE JsonAnswers ----------------------------
(***************************************************************************)
(* How the app reads a field of a service's JSON answer: Util.json_parse.  *)
(*                                                                         *)
(* A text is a sequence of tokens: the punctuation characters, and words.  *)
(* indexOf looks for a character or for the name of the field, which it    *)
(* also finds inside a longer word.  The texts are objects with quoted     *)
(* names, as the services answer, possibly inside the "data" of an answer. *)
(***************************************************************************)
EXTENDS Integers, Sequences, FiniteSets

CONSTANTS Field,         \* the field asked for
          Longer,        \* words that contain Field
          Others,        \* other names and values
          Numbers,       \* words that are numbers
          MaxMembers     \* members of an object (bounds the model)

Words   == {Field, "status", "data", "1", "null"} \cup Longer \cup Others \cup Numbers

Quote  == "\""
Comma  == ","
LBrace == "{"
RBrace == "}"
Punctuation == {Quote, ":", Comma, LBrace, RBrace, "[", "]"}

(* Where indexOf finds the name of the field. *)
Hits == {Field} \cup Longer

(* The field is one of the object, not of the answer around it. *)
ASSUME JsonAssumption ==
  /\ MaxMembers \in Nat \ {0}
  /\ Field \notin Longer \cup Others /\ Longer \cap Others = {}
  /\ Hits \cap ({"status", "data", "1", "null"} \cup Numbers) = {}
  /\ Words \cap Punctuation = {}

Quoted(words) == <<Quote>> \o words \o <<Quote>>

(* Values: quoted text, which may hold a comma, and plain numbers and null. *)
QuotedValues == {<<w>> : w \in Longer \cup Others} \cup {<<w, Comma, w>> : w \in Others}
Values == {Quoted(v) : v \in QuotedValues} \cup {<<w>> : w \in Numbers \cup {"null"}}

Members == [name : {Field} \cup Longer \cup Others, value : Values]

MemberText(m) == Quoted(<<m.name>>) \o <<":">> \o m.value

MemberList(ms) ==
  LET list[i \in 1..Len(ms)] ==
        IF i = 1 THEN MemberText(ms[1]) ELSE (list[i - 1] \o <<Comma>>) \o MemberText(ms[i])
  IN list[Len(ms)]

ObjectText(ms) == <<LBrace>> \o (MemberList(ms) \o <<RBrace>>)

AnswerText(ms) ==
  <<LBrace, Quote, "status", Quote, ":", "1", Comma, Quote, "data", Quote, ":", "[">>
    \o (ObjectText(ms) \o <<"]", RBrace>>)

VARIABLES
  members,   \* the object the service describes
  json,      \* the text
  idx,       \* where json_parse has come to
  done,
  value      \* what it returns, as words

jsonVars == <<members, json, idx, done, value>>

JsonInit ==
  /\ members \in UNION {[1..n -> Members] : n \in 1..MaxMembers}
  /\ \A i, j \in DOMAIN members : members[i].name = members[j].name => i = j
  /\ json \in {ObjectText(members), AnswerText(members)}
  /\ idx = 1
  /\ done = FALSE
  /\ value = <<>>

-----------------------------------------------------------------------------
(* indexOf: the first position from i on with a token in S, 0 without one. *)
FirstAt(S, i) ==
  IF \E j \in i..Len(json) : json[j] \in S
  THEN CHOOSE j \in i..Len(json) : json[j] \in S /\ \A k \in i..(j - 1) : json[k] \notin S
  ELSE 0

FieldIdx == FirstAt(Hits, idx)
QuoteIdx == FirstAt({Quote}, idx)
MatchIdx == FirstAt({Quote}, QuoteIdx + 1)

(* Mutant: a quoted name that contains the field will do. *)
MutNamesField == \E i \in (QuoteIdx + 1)..(MatchIdx - 1) : json[i] \in Hits

(* The text between the quotes is the field's name. *)
NamesField == SubSeq(json, QuoteIdx + 1, MatchIdx - 1) = <<Field>>

(* A quoted text before the field is found, and it is not its name. *)
OtherQuoted ==
  /\ QuoteIdx > 0 /\ QuoteIdx < FieldIdx
  /\ MatchIdx > 0
  /\ ~NamesField

(* On with the text behind it. *)
Skip ==
  /\ ~done
  /\ OtherQuoted
  /\ idx' = MatchIdx + 1
  /\ UNCHANGED <<members, json, done, value>>

(* The text without its quotes. *)
Unquoted(t) ==
  LET kept[i \in 0..Len(t)] ==
        IF i = 0 THEN <<>> ELSE IF t[i] = Quote THEN kept[i - 1] ELSE Append(kept[i - 1], t[i])
  IN kept[Len(t)]

(* The value: between the colon and the next comma or brace, or between    *)
(* the quotes if one comes first.  Without a colon the text's beginning is *)
(* taken, without a comma or brace nothing.                                *)
ValueAt(field_idx) ==
  LET beg   == FirstAt({":"}, field_idx + 1) + 1
      end   == FirstAt({Comma, RBrace}, beg)
      quote == FirstAt({Quote}, beg)
      match == FirstAt({Quote}, quote + 1)
      raw   == IF quote > 0 /\ quote < end /\ match > 0
               THEN SubSeq(json, quote + 1, match - 1) ELSE SubSeq(json, beg, end - 1)
  IN IF end = 0 THEN <<>> ELSE Unquoted(raw)

Take ==
  /\ ~done
  /\ ~OtherQuoted
  /\ done' = TRUE
  /\ value' = IF FieldIdx > 0 THEN ValueAt(FieldIdx) ELSE <<>>
  /\ UNCHANGED <<members, json, idx>>

JsonNext == Skip \/ Take

JsonSpec == JsonInit /\ [][JsonNext]_jsonVars

-----------------------------------------------------------------------------
(* Properties.                                                             *)

(* The value of the member with the field's name, <<>> without one. *)
FieldValue ==
  LET named == {i \in DOMAIN members : members[i].name = Field} IN
  IF named = {} THEN <<>>
  ELSE Unquoted(members[CHOOSE i \in named : TRUE].value)

(* Types; json_parse stays within the text. *)
JsonTypeOK ==
  /\ idx \in 1..(Len(json) + 1)
  /\ done \in BOOLEAN
  /\ \A i \in DOMAIN value : value[i] \in Words \cup {Comma}

(* The value of the field is found wherever it stands, and not taken from  *)
(* a name or a text that only contains the field's: the parser's warning   *)
(* ("you can't have several keywards with partial matches", Util.java:70)  *)
(* does not concern answers with quoted names.                             *)
ReadsField == done => value = FieldValue
=============================================================================
