------------------------------- MODULE Console -------------------------------
(***************************************************************************)
(* The command console of loop() in main.cpp: characters are collected in  *)
(* inputBuffer up to the end of a line, and the line becomes the call of a *)
(* driver function, if it is a command.                                    *)
(*                                                                         *)
(* Characters come a word at a time, with a blank between two words.  A    *)
(* word is a verb or a number, and its length; what is left of it when     *)
(* the buffer is full is its beginning.  The first word of a line is taken *)
(* to fit cmd, fifteen characters: beyond them the program's behaviour is  *)
(* not defined.  A number is a word of its own, with or without a sign:    *)
(* sscanf would also take the digits that another word begins with.        *)
(***************************************************************************)
EXTENDS MotorDriver

CONSTANTS
  TypedLines    \* lines the operator may type: words, at least one

Number == "number"
WordText == Verbs \cup {"abc", "other", Number}
Words == [text : WordText, val : Int, len : Nat]

VARIABLES
  typed,      \* the line being typed, or the last one; none before the first
  sent,       \* how many of its words have arrived
  buffer,     \* the words in inputBuffer
  inputPos,   \* its characters
  told        \* whether the last line was answered "Unknown command."

vars == <<typed, sent, buffer, inputPos, told>>

Init ==
  /\ typed = << >> /\ sent = 0
  /\ buffer = << >> /\ inputPos = 0
  /\ told = FALSE

-----------------------------------------------------------------------------
(* Collecting a line.                                                      *)

RoomLong  == 32                \* mutant: the terminating zero forgotten

Room == 31                     \* sizeof(inputBuffer) - 1

Power10(n) == << 1, 10, 100, 1000, 10000, 100000, 1000000, 10000000,
                 100000000, 1000000000 >>[n + 1]

Shortened(val, digits) ==
  LET p == Power10(digits)
  IN  IF val < 0 THEN -((-val) \div p) ELSE val \div p

(* The first keep characters of a word: a number loses its last digits,    *)
(* and a sign alone is no number.                                          *)
Prefix(w, keep) ==
  [text |-> IF w.text = Number /\ (w.val < 0 => keep > 1)
              THEN Number ELSE "other",
   val  |-> IF w.len - keep > 9 THEN 0 ELSE Shortened(w.val, w.len - keep),
   len  |-> keep]

Blank(pos) == IF pos = 0 THEN 0 ELSE 1

Kept(w, room) ==
  IF room >= w.len THEN << w >>
  ELSE IF room > 0 THEN << Prefix(w, room) >> ELSE << >>

(* The next word arrives; characters beyond the buffer are dropped.        *)
Receive ==
  /\ sent < Len(typed)
  /\ LET w == typed[sent + 1]
         end == inputPos + Blank(inputPos) + w.len
     IN  /\ buffer' = buffer \o Kept(w, Room - inputPos - Blank(inputPos))
         /\ inputPos' = IF end > Room THEN Room ELSE end
  /\ sent' = sent + 1
  /\ UNCHANGED <<typed, told>>

(* The operator begins another line.                                       *)
Type(l) ==
  /\ sent = Len(typed) /\ inputPos = 0
  /\ typed' = l
  /\ sent' = 0
  /\ UNCHANGED <<buffer, inputPos, told>>

-----------------------------------------------------------------------------
(* The if-else chain over a complete line.                                 *)

Numbers(ws, k) ==
  Len(ws) > k /\ \A i \in 2 .. k + 1 : ws[i].text = Number

(* sscanf wants the verb and all its numbers, and lets anything follow;    *)
(* strcmp wants the one word.                                              *)
IsCommand(ws) ==
  /\ ws # << >>
  /\ \/ ws[1].text \in {"move", "defaultmove", "setspeeds"} /\ Numbers(ws, 4)
     \/ ws[1].text = "stop" /\ Numbers(ws, 2)
     \/ ws[1].text \in {"a", "b", "c", "d", "abc"} /\ Len(ws) = 1

MakesCall(ws) == IsCommand(ws) /\ ws[1].text # "abc"

LineOf(ws) ==
  LET n(i) == IF Len(ws) > i THEN ws[i + 1].val ELSE 0
  IN  [verb |-> ws[1].text, channel |-> n(1), addr |-> n(2),
       a |-> n(3), b |-> n(4)]

(* mutant: the buffer is not emptied.                                      *)
EndLineKept ==
  /\ sent = Len(typed) /\ inputPos > 0
  /\ told' = (buffer # << >> /\ buffer[1].text = "d" /\ Len(buffer) = 1)
  /\ inputPos' = 0
  /\ UNCHANGED <<typed, sent, buffer>>

(* The end of the line.  "Unknown command." stands in the branch of the    *)
(* test d: the else that should precede it is part of a comment.           *)
EndLine ==
  /\ sent = Len(typed) /\ inputPos > 0
  /\ told' = (buffer # << >> /\ buffer[1].text = "d" /\ Len(buffer) = 1)
  /\ buffer' = << >>
  /\ inputPos' = 0
  /\ UNCHANGED <<typed, sent>>

(* The second character of a line ended by two, or a bare Return.          *)
EndEmptyLine ==
  /\ sent = Len(typed) /\ inputPos = 0
  /\ told' = FALSE
  /\ UNCHANGED <<typed, sent, buffer, inputPos>>

(* The controller starts again: what it had received is gone.              *)
Restart ==
  /\ typed' = << >> /\ sent' = 0
  /\ buffer' = << >> /\ inputPos' = 0
  /\ told' = FALSE

-----------------------------------------------------------------------------
(* The characters of a line's first words, blanks included.                *)
Lengths(ws) ==
  LET len[i \in 0 .. Len(ws)] ==
        IF i = 0 THEN 0 ELSE len[i - 1] + Blank(len[i - 1]) + ws[i].len
  IN  len

LineLength(ws) == Lengths(ws)[Len(ws)]

TypeOK ==
  /\ typed \in {<< >>} \cup TypedLines
  /\ sent \in 0 .. Len(typed)
  /\ buffer \in Seq(Words)
  /\ inputPos \in 0 .. 31
  /\ told \in BOOLEAN

(* A line that is no command is answered "Unknown command.", and only such *)
(* a line.                                                                 *)
UnknownIsTold ==
  [][inputPos > 0 /\ inputPos' = 0 /\ sent' = sent =>
       (told' <=> ~IsCommand(buffer))]_vars
=============================================================================
