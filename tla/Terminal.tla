------------------------------ MODULE Terminal ------------------------------
(***************************************************************************)
(* The terminal: the console of con_pico.c or con_posix.c, the line editor *)
(* of the monitor (prompt() of machine.c), and the guest's ports 0 and 1   *)
(* with the translation of ADM-3A sequences.  Keys and bytes are numbers;  *)
(* what goes to the screen is a sequence of tokens.                        *)
(***************************************************************************)
EXTENDS Integers, Sequences, SequencesExt

CONSTANTS Kind,               \* "pico" or "posix"
          MAX_PROMPT,         \* length of a line
          Keys,               \* what the user types, of 1 .. 255
          Bytes,              \* what the guest writes
          MaxTyped, MaxAhead, MaxSent   \* bounds

ASSUME TerminalAssumption ==
  /\ Kind \in {"pico", "posix"}
  /\ Keys \cup Bytes \subseteq 0 .. 255 /\ 0 \notin Keys
  /\ MAX_PROMPT \in Nat \ {0} /\ {MaxTyped, MaxAhead, MaxSent} \subseteq Nat

VARIABLES
  line,            \* typed, and not yet fetched from the library
  held,            \* unget_char, fifo_flag: a character, or None
  mode,            \* "prompt" or "guest"
  buffer, size,    \* of prompt()
  echo,            \* what the user sees behind the prompt
  status,          \* the guest's last IN 0, Unknown after an IN 1
  esc, vt_cnv,     \* of out()
  typed, taken,    \* history: all that was typed; all that was handed out
  sent, screen     \* history: bytes of the guest with vt_cnv, and tokens

editor == <<buffer, size, echo>>
output == <<esc, sent, screen>>
vars == <<line, held, mode, editor, status, vt_cnv, typed, taken, output>>

None == -1
Unknown == -1
BS == 8
LF == 10
CR == 13
DLE == 16    \* ctrl-P
SUB == 26
ESC == 27
DEL == 127
Equals == 61
Semicolon == 59
BootLine == <<98>>    \* "b"

\* The buffer is a local variable: at the first prompt, and after a command,
\* it holds anything.  Bound: empty, or the last line if there is one.
Empty == [i \in 0 .. MAX_PROMPT |-> 0]
Init == /\ line = << >> /\ held = None /\ mode = "prompt"
        /\ buffer = Empty /\ size = 0 /\ echo = << >>
        /\ status = Unknown /\ esc = 0 /\ vt_cnv = 1
        /\ typed = << >> /\ taken = << >> /\ sent = << >> /\ screen = << >>
-----------------------------------------------------------------------------
(* The console.                                                             *)

Type(c) == /\ Len(typed) < MaxTyped /\ Len(line) < MaxAhead
           /\ typed' = Append(typed, c) /\ line' = Append(line, c)
           /\ UNCHANGED <<held, mode, editor, status, vt_cnv, taken, output>>

\* con_getchar(), when there is a character; its callers wait for one.
Getchar(c) ==
  /\ IF held # None
     THEN c = held /\ held' = None /\ UNCHANGED line
     ELSE /\ line # << >> /\ c = Head(line)
          /\ line' = Tail(line) /\ UNCHANGED held
  /\ taken' = Append(taken, c)
  /\ UNCHANGED typed

\* con_peek() of the Pico looks at the character held first.
\* Mutant: it looks for another one.
AlwaysFetches == TRUE
Fetches == Kind = "posix" \/ held = None
Fetched == IF line = << >> THEN None ELSE Head(line)
Peek == IF Fetches
        THEN /\ held' = Fetched
             /\ line' = IF line = << >> THEN line ELSE Tail(line)
        ELSE UNCHANGED <<held, line>>
-----------------------------------------------------------------------------
(* prompt().                                                                *)

Line == [i \in 1 .. size |-> buffer[i - 1]]
Ended == [buffer EXCEPT ![size] = 0]
Key(c) == mode = "prompt" /\ Getchar(c) /\ UNCHANGED <<status, output>>
IsControl(c) == c \in {BS, DEL, LF, CR} \/ (size = 0 /\ c = DLE)

\* Mutant: nothing is erased on the screen.
NotErased == echo
Erased == IF echo = << >> THEN echo ELSE Front(echo)
Erase == /\ \E c \in {BS, DEL} : Key(c)
         /\ IF size # 0 THEN size' = size - 1 /\ echo' = Erased
                         ELSE UNCHANGED <<size, echo>>
         /\ UNCHANGED <<buffer, mode, vt_cnv>>
LineFeed == Key(LF) /\ UNCHANGED <<editor, mode, vt_cnv>>
\* ctrl-P on an empty line: what the buffer holds, up to its zero.
Recall == /\ size = 0 /\ Key(DLE)
          /\ \E n \in 0 .. MAX_PROMPT :
               /\ buffer[n] = 0 /\ \A i \in 0 .. n - 1 : buffer[i] # 0
               /\ size' = n /\ echo' = echo \o [i \in 1 .. n |-> buffer[i - 1]]
          /\ UNCHANGED <<buffer, mode, vt_cnv>>
Insert == /\ \E c \in Keys :
               /\ ~IsControl(c) /\ Key(c)
               /\ IF size # MAX_PROMPT
                  THEN /\ buffer' = [buffer EXCEPT ![size] = c]
                       /\ size' = size + 1 /\ echo' = Append(echo, c)
                  ELSE UNCHANGED editor
          /\ UNCHANGED <<mode, vt_cnv>>
\* The line is a command: b starts the guest, vt sets vt_cnv, the others do
\* not concern the terminal.
Enter == /\ Key(CR)
         /\ mode' = IF Line = BootLine THEN "guest" ELSE "prompt"
         /\ vt_cnv' \in IF size = 0 \/ Line = BootLine THEN {vt_cnv} ELSE {0, 1}
         /\ buffer' \in {Ended, Empty} /\ size' = 0 /\ echo' = << >>
Prompt == Erase \/ LineFeed \/ Recall \/ Insert \/ Enter
-----------------------------------------------------------------------------
(* The guest.                                                               *)

\* IN 0.
Waiting == held # None \/ line # << >>
Status == /\ mode = "guest" /\ Peek
          /\ status' = IF held' # None THEN 255 ELSE 0
          /\ UNCHANGED <<mode, editor, vt_cnv, typed, taken, output>>
\* IN 1 waits for a character.
Read == /\ mode = "guest"
        /\ \E c \in Keys : Getchar(c)
        /\ status' = Unknown
        /\ UNCHANGED <<mode, editor, vt_cnv, output>>

\* con_putnum_u16(): n / d, then n % d, with d from 10000 down to 1.
Digits(n) == LET d == <<10000, 1000, 100, 10, 1>>
             IN  [i \in 1 .. 5 |-> (n \div d[i]) % 10]
\* A screen position is a byte from 0x20 on; the sum is an unsigned short.
\* Mutant: counted from 0.
FromZero(val) == Digits((val - 32) % 65536)
Position(val) == Digits((val - 32 + 1) % 65536)
Clear == <<"clear">>
Shown(val) == <<"char", val>>
\* OUT 1.
NextEsc(val) ==
  CASE esc = 1 -> IF val = Equals THEN 2 ELSE 0
    [] esc = 2 -> 3
    [] esc = 3 -> 0
    [] esc = 0 -> IF vt_cnv # 0 /\ val = ESC THEN 1 ELSE 0
Puts(val) ==
  CASE esc = 1 -> IF val = Semicolon /\ vt_cnv = 1 THEN <<Clear>> ELSE << >>
    [] esc = 2 -> IF vt_cnv = 1 THEN <<<<"row", Position(val)>>>> ELSE << >>
    [] esc = 3 -> IF vt_cnv = 1 THEN <<<<"column", Position(val)>>>> ELSE << >>
    [] esc = 0 -> IF vt_cnv = 0 \/ val \notin {SUB, ESC} THEN <<Shown(val)>>
                  ELSE IF val = SUB THEN <<Clear>> ELSE << >>
Out(val) == /\ mode = "guest" /\ Len(sent) < MaxSent
            /\ esc' = NextEsc(val) /\ screen' = screen \o Puts(val)
            /\ sent' = Append(sent, [val |-> val, vt |-> vt_cnv])
            /\ UNCHANGED <<line, held, mode, editor, status, vt_cnv>>
            /\ UNCHANGED <<typed, taken>>
\* HLT: the next prompt; esc is kept.
Quit == /\ mode = "guest" /\ mode' = "prompt"
        /\ status' = Unknown
        /\ UNCHANGED <<line, held, editor, vt_cnv, typed, taken, output>>

Next == \/ \E c \in Keys : Type(c)
        \/ Prompt \/ Status \/ Read \/ Quit
        \/ \E val \in Bytes : Out(val)
Spec == Init /\ [][Next]_vars
-----------------------------------------------------------------------------
(* Properties.                                                              *)

TypeOK == /\ held \in Keys \cup {None} /\ mode \in {"prompt", "guest"}
          /\ buffer \in [0 .. MAX_PROMPT -> Keys \cup {0}]
          /\ size \in 0 .. MAX_PROMPT
          /\ status \in {Unknown, 0, 255}
          /\ esc \in 0 .. 3 /\ vt_cnv \in {0, 1}

\* Every character typed is handed out once and in order, to the monitor or to
\* the guest, however IN 0 and IN 1 mix and whoever looked at it first.
InputKept == taken \o (IF held = None THEN << >> ELSE <<held>>) \o line = typed

\* A status of 0 is given only when there is no character, 0xFF only when IN 1
\* will not wait; between the two the character cannot go to anyone else.
StatusTrue == [][/\ Status => status' = IF Waiting THEN 255 ELSE 0
                 /\ status' = 255 => held' # None]_vars

\* The command that Enter takes is the one on the screen, after any mixture of
\* erasures, recalls and a full line.
ShownIsLine == mode = "prompt" => echo = Line

\* The documented IN 0: 0xFF when nothing has been received (DesignNote.md:301).
StatusAsDocumented == [][Status /\ ~Waiting => status' = 255]_vars

\* A character typed behind others is taken into the line: a name of 30
\* characters fits the m command (DesignNote.md:293).
NameTaken == [][\A c \in Keys : ~IsControl(c) /\ Key(c) /\ size < 2 + 30
                  => size' = size + 1]_vars
=============================================================================
