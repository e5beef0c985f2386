------------------------------ MODULE Interner -----------------------------
(***************************************************************************)
(* What the string pool promises the lexer and the parser: every string    *)
(* asked for gets an id, the same one whenever it is asked for again, no   *)
(* two strings the same one, and an id reads back as its string for ever.  *)
(***************************************************************************)
CONSTANTS
  Strings,   \* the texts interned
  NoString,  \* nothing is being interned
  Ids        \* what an id can be

VARIABLES
  text,     \* the string each id given so far stands for
  str,      \* the string being interned
  answer    \* the id given last

vars == <<text, str, answer>>

Init == text = <<>> /\ str = NoString /\ answer \in Ids

Ask ==
  /\ str = NoString
  /\ str' \in Strings
  /\ UNCHANGED <<text, answer>>

AnswerKnown ==
  /\ str # NoString
  /\ answer' \in DOMAIN text /\ text[answer'] = str
  /\ str' = NoString
  /\ UNCHANGED text

AnswerNew ==
  /\ str # NoString
  /\ \A id \in DOMAIN text : text[id] # str
  /\ answer' \in Ids \ DOMAIN text
  /\ text' = [id \in DOMAIN text \cup {answer'} |->
                IF id = answer' THEN str ELSE text[id]]
  /\ str' = NoString

Next == Ask \/ AnswerKnown \/ AnswerNew

Spec == Init /\ [][Next]_vars
=============================================================================
