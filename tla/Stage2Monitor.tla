---------------------------- MODULE Stage2Monitor ---------------------------
(***************************************************************************)
(* The real-mode monitor (mini-kernel/boot/stage2.S): it reads a line key  *)
(* by key into a buffer of fixed size, echoes it, and runs the command     *)
(* whose name it is.  One step is one key (int 16h), answered in full.     *)
(*                                                                         *)
(* The BIOS is external: which keys come, what the teletype call (int 10h) *)
(* does to the row the cursor is in, and whether int 19h ever returns.     *)
(***************************************************************************)
EXTENDS Naturals, Sequences

CONSTANTS
    Glyph,          \* the characters that are shown as themselves
    Nul,            \* AL of an extended key
    Bell, Feed,     \* AL of Ctrl-G, and of Ctrl-J (0ah)
    Erase,          \* AL = 08h
    Blank,          \* ' ', which is also what the teletype shows for Nul
    Prompt,         \* the text of `prompt'
    Name,           \* the texts of the commands, by command
    BufferSize      \* .space of command_buffer

Unseen == {Bell, Feed}     \* nothing is shown for them, and the column stays
Char   == Glyph \cup {Nul} \cup Unseen
Cells  == 0..(BufferSize - 1)

(* The order in which finish_command compares                              *)
Commands == <<"help", "about", "clear", "halt", "reboot">>

ASSUME MonitorAssumption ==
    /\ Blank \in Glyph /\ Glyph \cap ({Nul} \cup Unseen) = {}
    /\ Nul \notin Unseen /\ Bell # Feed
    /\ Erase \notin Char
    /\ Prompt \in Seq(Glyph)
    /\ BufferSize \in Nat \ {0}
    /\ DOMAIN Name = {Commands[i] : i \in DOMAIN Commands}
    /\ \A c \in DOMAIN Name :
          /\ Name[c] \in Seq(Glyph) \ {<< >>} /\ Len(Name[c]) < BufferSize
          /\ \A d \in DOMAIN Name : Name[c] = Name[d] => c = d

VARIABLES
    at,         \* "reading", "halted" or "rebooting"
    buffer,     \* command_buffer; a line leaves the end of the last one in it
    di, cx,     \* the registers: where the next key goes, how many are stored
    row,        \* the row of the screen the cursor is in, up to its last text
    col,        \* the column of the cursor
    ran,        \* what the latest line ran
    line,       \* history: the keys typed since the prompt, less the erased
    quiet       \* history: none of them was in Unseen

vars == <<at, buffer, di, cx, row, col, ran, line, quiet>>

(* int 10h, AH = 0eh, for everything but CR: Bell is heard, not seen; a    *)
(* line feed leaves for the same column of the row below, which is blank;  *)
(* a text cell is overwritten; a backspace moves the cursor only.          *)
Teletype(r, c, ch) ==
    CASE ch = Bell  -> [row |-> r, col |-> c]
      [] ch = Feed  -> [row |-> [i \in 1..c |-> Blank], col |-> c]
      [] ch = Erase -> [row |-> r, col |-> IF c = 0 THEN 0 ELSE c - 1]
      [] OTHER      -> LET shown == IF ch = Nul THEN Blank ELSE ch
                       IN  [row |-> IF c < Len(r) THEN [r EXCEPT ![c + 1] = shown]
                                                  ELSE Append(r, shown),
                            col |-> c + 1]

(* print_char, and print_string of erase_char: back, blank, back           *)
Echo(ch) ==
    LET shown == Teletype(row, col, ch) IN row' = shown.row /\ col' = shown.col

(* Mutant of RubOut: an erase_char that moves back and blanks nothing.     *)
RubOutBack ==
    LET back == Teletype(row, col, Erase) IN row' = back.row /\ col' = back.col

RubOut ==
    LET back    == Teletype(row, col, Erase)
        blanked == Teletype(back.row, back.col, Blank)
        done    == Teletype(blanked.row, blanked.col, Erase)
    IN  row' = done.row /\ col' = done.col

(* Mutant of StoreKey: room for one key more.                              *)
StoreKeyFull(key) ==
    /\ at = "reading"
    /\ cx < BufferSize
    /\ buffer' = [buffer EXCEPT ![di] = key]
    /\ di' = di + 1 /\ cx' = cx + 1
    /\ Echo(key)
    /\ line' = Append(line, key) /\ quiet' = (quiet /\ key \notin Unseen)
    /\ UNCHANGED <<at, ran>>

(* A key that is stored and shown, and one for which there is no room.     *)
StoreKey(key) ==
    /\ at = "reading"
    /\ cx < BufferSize - 1
    /\ buffer' = [buffer EXCEPT ![di] = key]
    /\ di' = di + 1 /\ cx' = cx + 1
    /\ Echo(key)
    /\ line' = Append(line, key) /\ quiet' = (quiet /\ key \notin Unseen)
    /\ UNCHANGED <<at, ran>>

DropKey ==
    /\ at = "reading"
    /\ cx >= BufferSize - 1
    /\ UNCHANGED vars

(* Mutant of Backspace: an empty line not noticed.                         *)
BackspaceAnyway ==
    /\ at = "reading"
    /\ di' = di - 1 /\ cx' = cx - 1
    /\ RubOut
    /\ line' = SubSeq(line, 1, Len(line) - 1)
    /\ UNCHANGED <<at, buffer, ran, quiet>>

(* backspace: on an empty line it does nothing.                            *)
Backspace ==
    /\ at = "reading"
    /\ \/ /\ cx = 0
          /\ UNCHANGED vars
       \/ /\ cx # 0
          /\ di' = di - 1 /\ cx' = cx - 1
          /\ RubOut
          /\ line' = SubSeq(line, 1, Len(line) - 1)
          /\ UNCHANGED <<at, buffer, ran, quiet>>

-----------------------------------------------------------------------------
(* streq: the same bytes up to a NUL, the text's and the buffer's.         *)
Streq(b, text) ==
    LET Byte(j) == IF j = Len(text) THEN Nul ELSE text[j + 1] IN
    \E i \in 0..Len(text) :
        /\ \A j \in 0..i : b[j] = Byte(j)
        /\ b[i] = Nul

Matching(b) == {i \in DOMAIN Commands : Streq(b, Name[Commands[i]])}

(* What finish_command makes of the buffer                                 *)
Answer(b) ==
    IF Matching(b) # {}
    THEN Commands[CHOOSE i \in Matching(b) : \A j \in Matching(b) : i <= j]
    ELSE IF b[0] = Nul THEN "nothing" ELSE "unknown"

(* command_loop: the prompt on a row of its own, for every text printed    *)
(* before it ends the row it is in.                                        *)
NextLine ==
    /\ row' = Prompt /\ col' = Len(Prompt)
    /\ di' = 0 /\ cx' = 0
    /\ line' = << >> /\ quiet' = TRUE

(* Mutant of Terminated: no NUL stored.                                    *)
Unterminated == buffer

Terminated == [buffer EXCEPT ![di] = Nul]

(* finish_command and the handlers: show_help, show_about, show_clear, the *)
(* message for an unknown name and none for an empty one end at the next   *)
(* prompt; halt_system and reboot_system do not, and no row is read again. *)
FinishCommand ==
    /\ at = "reading"
    /\ buffer' = Terminated
    /\ ran' = Answer(Terminated)
    /\ \/ /\ ran' \notin {"halt", "reboot"}
          /\ NextLine
          /\ UNCHANGED at
       \/ /\ ran' \in {"halt", "reboot"}
          /\ at' = IF ran' = "halt" THEN "halted" ELSE "rebooting"
          /\ UNCHANGED <<di, cx, row, col, line, quiet>>

(* int 19h loads the monitor from the disk again, or returns to halt_loop. *)
Reboot ==
    /\ at = "rebooting"
    /\ \/ /\ at' = "reading"
          /\ buffer' = [i \in Cells |-> Nul]
          /\ ran' = "nothing"
          /\ NextLine
       \/ /\ at' = "halted"
          /\ UNCHANGED <<buffer, di, cx, row, col, ran, line, quiet>>

(* stage2_start up to the first prompt                                     *)
Init ==
    /\ at = "reading"
    /\ buffer = [i \in Cells |-> Nul]
    /\ di = 0 /\ cx = 0
    /\ row = Prompt /\ col = Len(Prompt)
    /\ ran = "nothing"
    /\ line = << >> /\ quiet = TRUE

Next ==
    \/ \E key \in Char : StoreKey(key)
    \/ DropKey
    \/ Backspace
    \/ FinishCommand
    \/ Reboot

Spec == Init /\ [][Next]_vars

-----------------------------------------------------------------------------
Answers == {"help", "about", "clear", "halt", "reboot", "nothing", "unknown"}

TypeOK ==
    /\ at \in {"reading", "halted", "rebooting"}
    /\ buffer \in [Cells -> Char]
    /\ di \in Cells /\ cx \in Cells
    /\ row \in Seq(Glyph) /\ col \in Nat
    /\ ran \in Answers
    /\ line \in Seq(Char) /\ quiet \in BOOLEAN

(* The buffer holds the line as it was typed, in order, and room is left   *)
(* for its NUL: no sequence of keys and erasures makes di and cx disagree, *)
(* or either of them disagree with what was typed.                         *)
LineInBuffer ==
    at = "reading" =>
        /\ di = cx /\ cx = Len(line) /\ cx < BufferSize
        /\ \A i \in 1..Len(line) : buffer[i - 1] = line[i]

(* What the row shows after the prompt is the line that will be run        *)
(* (extended keys show as blanks), and erasing never reaches the prompt,   *)
(* as long as the line has had no Bell and no line feed: those are stored  *)
(* too, but leave the cursor where it was or take it to another row.       *)
(* Whatever was typed, nothing that was erased is left behind the cursor.  *)
Shown(ch) == IF ch = Nul THEN Blank ELSE ch
ScreenShowsLine ==
    at = "reading" =>
        /\ \A i \in (col + 1)..Len(row) : row[i] = Blank
        /\ quiet =>
              /\ col = Len(Prompt) + Len(line)
              /\ SubSeq(row, 1, col) =
                    Prompt \o [i \in 1..Len(line) |-> Shown(line[i])]

(* A line names a text when it is the text, or goes on after the text with *)
(* an extended key.                                                        *)
Names(s, text) ==
    /\ Len(s) >= Len(text)
    /\ \A i \in 1..Len(text) : s[i] = text[i]
    /\ Len(s) > Len(text) => s[Len(text) + 1] = Nul

(* Enter runs the command the typed line names and no other, whatever      *)
(* longer lines have left in the buffer.                                   *)
RunsWhatWasTyped ==
    [][FinishCommand =>
          /\ \A c \in DOMAIN Name : ran' = c <=> Names(line, Name[c])
          /\ ran' = "nothing" <=> Names(line, << >>)]_vars
=============================================================================
