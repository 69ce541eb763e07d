--------------------------- MODULE SentenceFields ---------------------------
(***************************************************************************)
(* The text in which a sentence keeps what its API sets: the MISC column   *)
(* of a token (token.cpp, see TokenFields) and the comments of a sentence  *)
(* (sentence.cpp).  A comment is a name, a sequence of words of which      *)
(* another name may be the beginning, and a value.                         *)
(***************************************************************************)
EXTENDS TokenFields

CONSTANTS
  SpaceValues,    \* the spaces that are set
  CommentValues,  \* the values of comments that are set
  FirstMiscs,     \* the MISC columns and the comments of the input
  FirstComments

VARIABLES
  misc,
  comments,       \* <<[name, value]>>
  said            \* field -> what its setter was last given

vars == <<misc, comments, said>>

Tab == "\t"
LineEnds == {Newline, "\r"}

SpaceFields == {"SpacesBefore", "SpacesInToken"}
CommentFields == {"newdoc", "newpar", "sent_id", "text"}

Unset == [set |-> FALSE]
Said(v) == [set |-> TRUE, to |-> v]

Init ==
  /\ misc \in FirstMiscs
  /\ comments \in FirstComments
  /\ said = [f \in SpaceFields \cup CommentFields \cup {"SpacesAfter", "SpaceAfter", "other"} |->
               IF f = "other" THEN Said(has_misc_field(misc, "Other")) ELSE Unset]

-----------------------------------------------------------------------------
(* A comment matches a name it begins with; it has a value for that name   *)
(* only if nothing comes between them.                                     *)
Matches(comment, name) == IsPrefix(name, comment.name)

SlipBlanksKept(value) == value

(* The value without the blanks behind the equals sign.                    *)
Skipped(value) ==
  LET first == SelectInSeq(value, LAMBDA c : c \notin {Space, Tab})
  IN IF first = 0 THEN <<>> ELSE SubSeq(value, first, Len(value))

get_comment(name) ==
  LET found == SelectSeq(comments, LAMBDA c : Matches(c, name))
  IN IF found = <<>> THEN [found |-> FALSE, value |-> <<>>]
     ELSE [found |-> TRUE,
           value |-> IF found[1].name = name THEN Skipped(found[1].value) ELSE <<>>]

SlipExactOnly(cs, name) == SelectSeq(cs, LAMBDA c : c.name # name)

remove_comment(cs, name) == SelectSeq(cs, LAMBDA c : ~Matches(c, name))

OneLine(value) == [i \in DOMAIN value |-> IF value[i] \in LineEnds THEN Space ELSE value[i]]

set_comment(cs, name, value) ==
  Append(remove_comment(cs, name), [name |-> name, value |-> OneLine(value)])

(* set_new_doc and set_new_par: with an id the comment has another name.   *)
SetNew(cs, field, new, id) ==
  LET without == remove_comment(remove_comment(cs, <<field>>), <<field, "id">>)
  IN CASE new /\ id # <<>> -> set_comment(without, <<field, "id">>, id)
       [] new /\ id = <<>> -> set_comment(without, <<field>>, <<>>)
       [] ~new -> without

GetNew(field) ==
  IF get_comment(<<field, "id">>).found THEN get_comment(<<field, "id">>) ELSE get_comment(<<field>>)

(* set_sent_id and set_text.                                               *)
SetOrRemove(cs, field, value) ==
  IF value = <<>> THEN remove_comment(cs, <<field>>)
  ELSE set_comment(remove_comment(cs, <<field>>), <<field>>, value)

-----------------------------------------------------------------------------
SetSpaces(f, spaces) ==
  /\ misc' = set_spaces(misc, f, spaces)
  /\ said' = [said EXCEPT ![f] = Said(spaces)]
  /\ UNCHANGED comments

SetSpacesAfter(spaces) ==
  /\ misc' = set_spaces_after(misc, spaces)
  /\ said' = [said EXCEPT !["SpacesAfter"] = Said(spaces), !["SpaceAfter"] = Said(spaces # <<>>)]
  /\ UNCHANGED comments

SetSpaceAfter(after) ==
  /\ misc' = set_space_after(misc, after)
  /\ said' = [said EXCEPT !["SpacesAfter"] = Unset, !["SpaceAfter"] = Said(after)]
  /\ UNCHANGED comments

SetNewDocPar(f, new, id) ==
  /\ comments' = SetNew(comments, f, new, id)
  /\ said' = [said EXCEPT ![f] = Said([found |-> new, value |-> IF new THEN id ELSE <<>>])]
  /\ UNCHANGED misc

SetIdText(f, value) ==
  /\ comments' = SetOrRemove(comments, f, value)
  /\ said' = [said EXCEPT ![f] = Said([found |-> value # <<>>, value |-> value])]
  /\ UNCHANGED misc

SetToken ==
  \/ \E f \in SpaceFields, spaces \in SpaceValues : SetSpaces(f, spaces)
  \/ \E spaces \in SpaceValues : SetSpacesAfter(spaces)
  \/ \E after \in BOOLEAN : SetSpaceAfter(after)

SetSentence ==
  \/ \E f \in {"newdoc", "newpar"}, new \in BOOLEAN, id \in CommentValues : SetNewDocPar(f, new, id)
  \/ \E f \in {"sent_id", "text"}, value \in CommentValues : SetIdText(f, value)

Next == SetToken \/ SetSentence

Spec == Init /\ [][Next]_vars

-----------------------------------------------------------------------------
Holds(f, got) == said[f].set => said[f].to = got

(* After any sequence of setters every getter of a token returns what was  *)
(* set last, whatever characters the spaces have, fields of others are     *)
(* where they were, and the bars still separate fields.                    *)
MiscRight ==
  /\ \A f \in SpaceFields : Holds(f, get_spaces(misc, f))
  /\ Holds("SpacesAfter", get_spaces_after(misc))
  /\ Holds("SpaceAfter", get_space_after(misc))
  /\ Holds("other", has_misc_field(misc, "Other"))
  /\ misc # <<>> => misc[1] # Bar /\ Last(misc) # Bar
  /\ \A i \in 1..Len(misc) - 1 : ~(misc[i] = Bar /\ misc[i + 1] = Bar)

(* A value comes back with its ends of lines as spaces and without blanks  *)
(* and ends of lines in front: of one that has nothing else, nothing.      *)
ReadAs(value, got) ==
  LET blank == {Space, Tab} \cup LineEnds
  IN \E k \in 0..Len(value) :
       /\ \A i \in 1..k : value[i] \in blank
       /\ k < Len(value) => value[k + 1] \notin blank
       /\ Len(got) = Len(value) - k
       /\ \A i \in DOMAIN got :
            got[i] = value[k + i] \/ (got[i] = Space /\ value[k + i] \in LineEnds)
       /\ Range(got) \cap LineEnds = {}

Told(f, got) ==
  said[f].set => got.found = said[f].to.found /\ ReadAs(said[f].to.value, got.value)

(* After any sequence of setters of a sentence every getter finds what was *)
(* set last, its value read as above, although the comments of some fields *)
(* are found also under a name that only begins as they do.                *)
CommentsRight ==
  /\ \A f \in {"newdoc", "newpar"} : Told(f, GetNew(f))
  /\ \A f \in {"sent_id", "text"} : Told(f, get_comment(<<f>>))
=============================================================================
