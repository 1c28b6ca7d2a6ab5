------------------------------- MODULE HoldText -------------------------------
(***************************************************************************)
(* Strings, as far as the code that validates them can tell: the length in *)
(* characters and in bytes of UTF-8, whether it is blank, whether it has a *)
(* control character or white space, the i64 it parses to, if any, and     *)
(* whether it is all digits and, if it is, without a leading zero.  The    *)
(* label stands for the characters: two strings of one label and one       *)
(* length are one string.                                                  *)
(***************************************************************************)
EXTENDS Integers

CONSTANT None

Text(label, chars, bytes) ==
    [json |-> "string", label |-> label, chars |-> chars, bytes |-> bytes,
     blank |-> chars = 0, control |-> FALSE, space |-> FALSE,
     decimal |-> None, digits |-> FALSE, canonical |-> FALSE]

(***************************************************************************)
(* What is so of every string: UTF-8 takes one to four bytes a character,  *)
(* an empty string is blank, and digits spell no negative number, and a    *)
(* positive one if they do not begin with zero.                            *)
(***************************************************************************)
IsText(v) ==
    /\ v.json = "string"
    /\ v.chars \in Nat /\ v.bytes \in v.chars..(4 * v.chars)
    /\ v.blank \in BOOLEAN /\ v.control \in BOOLEAN /\ v.space \in BOOLEAN
    /\ v.chars = 0 => v.blank
    /\ v.decimal \in Int \cup {None}
    /\ v.canonical => v.digits
    /\ v.digits /\ v.decimal # None =>
         v.decimal >= IF v.canonical THEN 1 ELSE 0

ValidText(v, max_bytes) == v.bytes <= max_bytes /\ ~v.blank /\ ~v.control

ValidIdentifier(v, max_bytes) == ValidText(v, max_bytes) /\ ~v.space
=============================================================================
