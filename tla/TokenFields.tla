----------------------------- MODULE TokenFields -----------------------------
(***************************************************************************)
(* The fields of the MISC column of a token (token.cpp).  A MISC column is *)
(* a sequence of characters in which a whole field name counts as one: the *)
(* bars between the fields are part of the model, the spelling of the      *)
(* names and of No is not.                                                 *)
(***************************************************************************)
EXTENDS Integers, FiniteSets, Sequences, SequencesExt, TLC

Bar == "|"
Slash == "\\"
Newline == "\n"
Space == " "

-----------------------------------------------------------------------------
(* Where fields begin: at the start and behind every bar.                  *)
Begins(misc) == {i \in 1..Len(misc) : i = 1 \/ misc[i - 1] = Bar}

Named(misc, name) ==
  {i \in Begins(misc) : i < Len(misc) /\ misc[i] = name /\ misc[i + 1] = "="}

First(S) == CHOOSE i \in S : \A j \in S : i <= j

(* One behind the field that begins at i.                                  *)
FieldEnd(misc, i) == First({j \in i + 2..Len(misc) : misc[j] = Bar} \cup {Len(misc) + 1})

has_misc_field(misc, name) == Named(misc, name) # {}

get_misc_field(misc, name) ==
  LET i == First(Named(misc, name)) IN SubSeq(misc, i + 2, FieldEnd(misc, i) - 1)

SlipBothBars(misc, from, to) ==
  SubSeq(misc, 1, from - 2) \o SubSeq(misc, to + 1, Len(misc))

(* The field goes with the bar before it or, if it is the first, with the  *)
(* one after it.                                                           *)
Erase(misc, from, to) ==
  IF from > 1 THEN SubSeq(misc, 1, from - 2) \o SubSeq(misc, to, Len(misc))
              ELSE SubSeq(misc, to + 1, Len(misc))

(* The loop goes over all fields, so that all of that name are removed.    *)
remove_misc_field(misc, name) ==
  LET left[k \in 0..Len(misc)] ==
        IF k = 0 THEN misc
        ELSE LET m == left[k - 1]
             IN IF Named(m, name) = {} THEN m
                ELSE Erase(m, First(Named(m, name)), FieldEnd(m, First(Named(m, name))))
  IN left[Cardinality(Named(misc, name))]

start_misc_field(misc, name) ==
  LET m == remove_misc_field(misc, name)
  IN (IF m = <<>> THEN m ELSE Append(m, Bar)) \o <<name, "=">>

-----------------------------------------------------------------------------
(* The C-like escapes: what follows the backslash.                         *)
Code == (" " :> "s") @@ ("|" :> "p") @@ ("\t" :> "t") @@ ("\r" :> "r") @@ ("\n" :> "n")
          @@ ("\\" :> "\\")

Decode == [e \in {Code[c] : c \in DOMAIN Code} |-> CHOOSE c \in DOMAIN Code : Code[c] = e]

SlipNoBackslash(spaces) ==
  FlattenSeq([i \in DOMAIN spaces |->
    IF spaces[i] \in DOMAIN Code \ {Slash} THEN <<Slash, Code[spaces[i]]>> ELSE <<spaces[i]>>])

escape_spaces(spaces) ==
  FlattenSeq([i \in DOMAIN spaces |->
    IF spaces[i] \in DOMAIN Code THEN <<Slash, Code[spaces[i]]>> ELSE <<spaces[i]>>])

(* open: the previous character is a backslash that waits for its code.    *)
unescape_spaces(escaped) ==
  LET Char(acc, c) ==
        CASE ~acc.open /\ c = Slash -> [acc EXCEPT !.open = TRUE]
          [] ~acc.open /\ c # Slash -> [acc EXCEPT !.out = Append(@, c)]
          [] acc.open -> [open |-> FALSE,
                          out |-> acc.out \o (IF c \in DOMAIN Decode THEN <<Decode[c]>>
                                                                     ELSE <<Slash, c>>)]
      end == FoldLeft(Char, [open |-> FALSE, out |-> <<>>], escaped)
  IN IF end.open THEN Append(end.out, Slash) ELSE end.out

-----------------------------------------------------------------------------
get_space_after(misc) ==
  ~(has_misc_field(misc, "SpaceAfter") /\ get_misc_field(misc, "SpaceAfter") = <<"No">>)

set_space_after(misc, after) ==
  IF after THEN remove_misc_field(misc, "SpaceAfter")
           ELSE Append(start_misc_field(misc, "SpaceAfter"), "No")

(* set_spaces_before and set_spaces_in_token.                              *)
set_spaces(misc, name, spaces) ==
  IF spaces = <<>> THEN remove_misc_field(misc, name)
                   ELSE start_misc_field(misc, name) \o escape_spaces(spaces)

(* get_spaces_before and get_spaces_in_token.                              *)
get_spaces(misc, name) ==
  IF has_misc_field(misc, name) THEN unescape_spaces(get_misc_field(misc, name)) ELSE <<>>

set_spaces_after(misc, spaces) ==
  LET plain == spaces \in {<<>>, <<Space>>}
      m == set_space_after(misc, spaces # <<>>)
  IN IF plain THEN remove_misc_field(m, "SpacesAfter")
              ELSE start_misc_field(m, "SpacesAfter") \o escape_spaces(spaces)

get_spaces_after(misc) ==
  IF has_misc_field(misc, "SpacesAfter")
  THEN unescape_spaces(get_misc_field(misc, "SpacesAfter"))
  ELSE IF get_space_after(misc) THEN <<Space>> ELSE <<>>

(* string::npos as the start takes the range away.                         *)
npos == -1

set_token_range(misc, start, end) ==
  IF start = npos THEN remove_misc_field(misc, "TokenRange")
  ELSE start_misc_field(misc, "TokenRange") \o <<ToString(start), ":", ToString(end)>>
=============================================================================
