---------------------------- MODULE ConsoleProofs ----------------------------
(***************************************************************************)
(* Proofs about the two sides of a line: about Terminal for every set of   *)
(* keys, length of the line and number of characters, about Rings for      *)
(* every size of the rings, and about Handshakes for all ports and bytes.  *)
(* Types and the line on the screen do not depend on the console; that no  *)
(* character is lost is proved for con_pico.c.                             *)
(***************************************************************************)
EXTENDS Terminal, Rings, Handshakes, ModArith, SequenceTheorems, TLAPS

Pico == Kind = "pico"

Handed == IF held = None THEN << >> ELSE <<held>>

\* The inductive invariant: the screen shows the line whoever has the console,
\* and only a guest's status outlives the step that gave it.
Inv == /\ TypeOK
       /\ line \in Seq(Keys) /\ typed \in Seq(Keys) /\ taken \in Seq(Keys)
       /\ echo = Line
       /\ mode = "prompt" => status = Unknown
       /\ status = 255 => held # None
-----------------------------------------------------------------------------
(* Keys and lines.                                                          *)

LEMMA KeysAreBytes == Keys \subseteq 1 .. 255 /\ None \notin Keys /\ 0 \notin Keys
  BY TerminalAssumption DEF None

LEMMA LineOf ==
  ASSUME NEW n \in 0 .. MAX_PROMPT, NEW b \in [0 .. MAX_PROMPT -> Keys \cup {0}]
  PROVE  /\ [i \in 1 .. n |-> b[i - 1]] \in Seq(Keys \cup {0})
         /\ Len([i \in 1 .. n |-> b[i - 1]]) = n
<1>1. n \in Nat /\ \A i \in 1 .. n : b[i - 1] \in Keys \cup {0}
  BY TerminalAssumption
<1>2. QED
  BY <1>1, IsASeq

LEMMA EmptyBuffer == Empty \in [0 .. MAX_PROMPT -> Keys \cup {0}]
  BY DEF Empty

LEMMA LongerByOne ==
  ASSUME NEW S, NEW s \in Seq(S), NEW x \in S
  PROVE  Len(Append(s, x)) = Len(s) + 1
  OBVIOUS

LEMMA NoLine == [i \in 1 .. 0 |-> buffer[i - 1]] = << >>
  OBVIOUS

\* What con_getchar() and con_peek() leave.
LEMMA GetcharKeeps ==
  ASSUME Inv, NEW c, Getchar(c)
  PROVE  /\ c \in Keys /\ held' \in Keys \cup {None}
         /\ line' \in Seq(Keys) /\ taken' \in Seq(Keys) /\ typed' = typed
<1>1. CASE held # None
  <2>1. c = held /\ held' = None /\ line' = line /\ c \in Keys
    BY <1>1 DEF Getchar, Inv, TypeOK
  <2>2. QED BY <2>1 DEF Getchar, Inv
<1>2. CASE held = None
  <2>1. line # << >> /\ c = Head(line) /\ line' = Tail(line) /\ held' = held
    BY <1>2 DEF Getchar
  <2>2. c \in Keys /\ line' \in Seq(Keys)
    BY <2>1, HeadTailProperties DEF Inv
  <2>3. QED BY <2>1, <2>2 DEF Getchar, Inv, TypeOK
<1>3. QED BY <1>1, <1>2

LEMMA PeekKeeps ==
  ASSUME Inv, Peek
  PROVE  held' \in Keys \cup {None} /\ line' \in Seq(Keys)
<1>1. CASE line = << >>
  <2>1. held' \in {held, None} /\ line' = line
    BY <1>1 DEF Peek, Fetched
  <2>2. QED BY <2>1 DEF Inv, TypeOK
<1>2. CASE line # << >>
  <2>1. Head(line) \in Keys /\ Tail(line) \in Seq(Keys)
    BY <1>2, HeadTailProperties DEF Inv
  <2>2. Fetched = Head(line)
    BY <1>2 DEF Fetched
  <2>3. CASE Fetches
    BY <1>2, <2>1, <2>2, <2>3 DEF Peek
  <2>4. CASE ~Fetches
    BY <2>4 DEF Peek, Inv, TypeOK
  <2>5. QED BY <2>3, <2>4
<1>3. QED BY <1>1, <1>2
-----------------------------------------------------------------------------
(* The invariant.                                                           *)

LEMMA InitInv == Init => Inv
<1> SUFFICES ASSUME Init PROVE Inv
  OBVIOUS
<1>1. TypeOK
  BY TerminalAssumption, EmptyBuffer DEF Init, TypeOK, None, Unknown
<1>2. echo = Line
  BY NoLine DEF Init, Line
<1>3. QED
  BY <1>1, <1>2, EmptySeq DEF Init, Inv, Unknown, None

LEMMA TypeStep ==
  ASSUME Inv, NEW c \in Keys, Type(c)
  PROVE  Inv'
<1>1. line' \in Seq(Keys) /\ typed' \in Seq(Keys)
  BY DEF Type, Inv
<1>2. QED
  BY <1>1 DEF Type, Inv, TypeOK, Line, editor, output

\* A key in the editor: what is left to show for each command of it.
LEMMA KeyStep ==
  ASSUME Inv, NEW c, Key(c),
         mode' \in {"prompt", "guest"}, vt_cnv' \in {0, 1},
         buffer' \in [0 .. MAX_PROMPT -> Keys \cup {0}],
         size' \in 0 .. MAX_PROMPT,
         echo' = Line'
  PROVE  Inv'
<1>1. Getchar(c) /\ status' = Unknown /\ esc' = esc
  BY DEF Key, Inv, output
<1>2. QED
  BY <1>1, GetcharKeeps DEF Inv, TypeOK, Unknown

LEMMA EraseStep == ASSUME Inv, Erase PROVE Inv'
<1>1. PICK c \in {BS, DEL} : Key(c)
  BY DEF Erase
<1>2. size \in 0 .. MAX_PROMPT /\ buffer \in [0 .. MAX_PROMPT -> Keys \cup {0}]
      /\ MAX_PROMPT \in Nat /\ mode \in {"prompt", "guest"} /\ vt_cnv \in {0, 1}
  BY TerminalAssumption DEF Inv, TypeOK
<1>3. CASE size = 0
  BY <1>1, <1>2, <1>3, KeyStep DEF Erase, Inv, Line
<1>4. CASE size # 0
  <2>1. size' = size - 1 /\ echo' = Erased /\ buffer' = buffer
        /\ size' \in 0 .. MAX_PROMPT /\ mode' = mode /\ vt_cnv' = vt_cnv
    BY <1>2, <1>4 DEF Erase
  <2>2. echo \in Seq(Keys \cup {0}) /\ Len(echo) = size
        /\ echo = [i \in 1 .. size |-> buffer[i - 1]]
    BY <1>2, LineOf DEF Inv, Line
  <2>3. Erased = SubSeq(echo, 1, Len(echo) - 1)
    BY <1>4, <2>2, <1>2 DEF Erased, Front
  <2>4. SubSeq(echo, 1, size - 1) = [i \in 1 .. size - 1 |-> echo[i]]
    BY <2>2, <1>2
  <2>5. [i \in 1 .. size - 1 |-> echo[i]] = [i \in 1 .. size - 1 |-> buffer[i - 1]]
    BY <2>2, <1>2
  <2>6. echo' = Line'
    BY <2>1, <2>2, <2>3, <2>4, <2>5 DEF Line
  <2>7. QED BY <1>1, <1>2, <2>1, <2>6, KeyStep
<1>5. QED BY <1>3, <1>4

LEMMA LineFeedStep == ASSUME Inv, LineFeed PROVE Inv'
<1>1. Key(LF) /\ UNCHANGED <<editor, mode, vt_cnv>>
  BY DEF LineFeed
<1>2. QED BY <1>1, KeyStep DEF editor, Inv, TypeOK, Line

LEMMA RecallStep == ASSUME Inv, Recall PROVE Inv'
<1>1. size = 0 /\ Key(DLE) /\ UNCHANGED <<buffer, mode, vt_cnv>>
  BY DEF Recall
<1>2. PICK n \in 0 .. MAX_PROMPT :
        size' = n /\ echo' = echo \o [i \in 1 .. n |-> buffer[i - 1]]
  BY DEF Recall
<1>3. buffer \in [0 .. MAX_PROMPT -> Keys \cup {0}]
  BY DEF Inv, TypeOK
<1>4. echo = << >>
  BY <1>1, NoLine DEF Inv, Line
<1>5. [i \in 1 .. n |-> buffer[i - 1]] \in Seq(Keys \cup {0})
  BY <1>3, LineOf
<1>6. echo' = [i \in 1 .. n |-> buffer[i - 1]]
  BY <1>2, <1>4, <1>5, ConcatEmptySeq
<1>7. echo' = Line'
  BY <1>1, <1>2, <1>6 DEF Line
<1>8. QED
  BY <1>1, <1>2, <1>3, <1>7, KeyStep DEF Inv, TypeOK

LEMMA InsertStep == ASSUME Inv, Insert PROVE Inv'
<1>1. PICK c \in Keys :
        /\ Key(c)
        /\ IF size # MAX_PROMPT
           THEN /\ buffer' = [buffer EXCEPT ![size] = c]
                /\ size' = size + 1 /\ echo' = Append(echo, c)
           ELSE UNCHANGED editor
  BY DEF Insert
<1>2. size \in 0 .. MAX_PROMPT /\ buffer \in [0 .. MAX_PROMPT -> Keys \cup {0}]
      /\ MAX_PROMPT \in Nat /\ mode \in {"prompt", "guest"} /\ vt_cnv \in {0, 1}
      /\ mode' = mode /\ vt_cnv' = vt_cnv
  BY TerminalAssumption DEF Inv, TypeOK, Insert
<1>3. CASE size = MAX_PROMPT
  BY <1>1, <1>2, <1>3, KeyStep DEF editor, Inv, Line
<1>4. CASE size # MAX_PROMPT
  <2>1. size' = size + 1 /\ echo' = Append(echo, c)
        /\ buffer' = [buffer EXCEPT ![size] = c] /\ size' \in 0 .. MAX_PROMPT
    BY <1>1, <1>2, <1>4
  <2>2. buffer' \in [0 .. MAX_PROMPT -> Keys \cup {0}]
    BY <1>2, <2>1
  <2>3. echo \in Seq(Keys \cup {0}) /\ Len(echo) = size
        /\ echo = [i \in 1 .. size |-> buffer[i - 1]]
    BY <1>2, LineOf DEF Inv, Line
  <2>4. Append(echo, c) \in Seq(Keys \cup {0}) /\ Len(Append(echo, c)) = size + 1
    <3>1. c \in Keys \cup {0}
      OBVIOUS
    <3>2. Append(echo, c) \in Seq(Keys \cup {0})
      BY <2>3, <3>1
    <3>3. Len(Append(echo, c)) = Len(echo) + 1
      BY <2>3, <3>1, LongerByOne
    <3>4. QED BY <2>3, <3>2, <3>3
  <2>5. \A i \in 1 .. size + 1 : Append(echo, c)[i] = buffer'[i - 1]
    BY <1>2, <2>1, <2>3, AppendProperties
  <2>6. Line' = [i \in 1 .. size + 1 |-> buffer'[i - 1]]
    BY <2>1 DEF Line
  <2>7. Line' \in Seq(Keys \cup {0}) /\ Len(Line') = size + 1
    BY <2>1, <2>2, <2>6, LineOf
  <2>8. \A i \in 1 .. Len(Append(echo, c)) : Append(echo, c)[i] = Line'[i]
    BY <2>4, <2>5, <2>6
  <2>9. echo' = Line'
    BY <2>1, <2>4, <2>7, <2>8, SeqEqual
  <2>10. QED BY <1>1, <1>2, <2>1, <2>2, <2>9, KeyStep
<1>5. QED BY <1>3, <1>4

LEMMA EnterStep == ASSUME Inv, Enter PROVE Inv'
<1>1. Key(CR) /\ mode' \in {"prompt", "guest"} /\ vt_cnv' \in {0, 1}
      /\ size' = 0 /\ echo' = << >> /\ buffer' \in {Ended, Empty}
  BY DEF Enter, Inv, TypeOK
<1>2. buffer' \in [0 .. MAX_PROMPT -> Keys \cup {0}]
  BY <1>1, EmptyBuffer DEF Ended, Inv, TypeOK
<1>3. echo' = Line'
  BY <1>1 DEF Line
<1>4. size' \in 0 .. MAX_PROMPT
  BY <1>1, TerminalAssumption
<1>5. QED BY <1>1, <1>2, <1>3, <1>4, KeyStep

LEMMA GuestStep ==
  ASSUME Inv, Status \/ Read \/ Quit \/ \E val \in Bytes : Out(val)
  PROVE  Inv'
<1>1. CASE Status
  <2>1. Peek /\ mode = "guest" /\ mode' = mode
        /\ UNCHANGED <<editor, vt_cnv, typed, taken, esc>>
        /\ status' = IF held' # None THEN 255 ELSE 0
    BY <1>1 DEF Status, output
  <2>2. QED BY <2>1, PeekKeeps DEF Inv, TypeOK, Line, editor
<1>2. CASE Read
  <2>1. PICK c \in Keys : Getchar(c)
    BY <1>2 DEF Read
  <2>2. status' = Unknown /\ UNCHANGED <<mode, editor, vt_cnv, esc>>
    BY <1>2 DEF Read, output
  <2>3. QED BY <2>1, <2>2, GetcharKeeps DEF Inv, TypeOK, Line, editor, Unknown
<1>3. CASE Quit
  BY <1>3 DEF Quit, Inv, TypeOK, Line, editor, output, Unknown
<1>4. ASSUME NEW val \in Bytes, Out(val) PROVE Inv'
  <2>1. esc' \in 0 .. 3
    BY <1>4 DEF Out, NextEsc, Inv, TypeOK
  <2>2. QED BY <1>4, <2>1 DEF Out, Inv, TypeOK, Line, editor
<1>5. QED BY <1>1, <1>2, <1>3, <1>4

LEMMA NextInv == Inv /\ [Next]_vars => Inv'
<1> SUFFICES ASSUME Inv, [Next]_vars PROVE Inv'
  OBVIOUS
<1>1. CASE \E c \in Keys : Type(c)
  BY <1>1, TypeStep
<1>2. CASE Prompt
  BY <1>2, EraseStep, LineFeedStep, RecallStep, InsertStep, EnterStep DEF Prompt
<1>3. CASE Status \/ Read \/ Quit \/ \E val \in Bytes : Out(val)
  BY <1>3, GuestStep
<1>4. CASE UNCHANGED vars
  BY <1>4 DEF vars, Inv, TypeOK, Line, editor, output
<1>5. QED BY <1>1, <1>2, <1>3, <1>4 DEF Next

LEMMA Invariance == Spec => []Inv
<1>1. QED BY InitInv, NextInv, PTL DEF Spec

\* The buffer and the variables of the console and of out() keep their types.
THEOREM TypeCorrect == Spec => []TypeOK
<1>1. Inv => TypeOK BY DEF Inv
<1>2. QED BY <1>1, Invariance, PTL

\* Enter takes the line on the screen, for a line of any length and any keys.
THEOREM CommandIsShown == Spec => []ShownIsLine
<1>1. Inv => ShownIsLine BY DEF Inv, ShownIsLine
<1>2. QED BY <1>1, Invariance, PTL
-----------------------------------------------------------------------------
(* No character is lost on the Pico.                                        *)

\* Taking the first of what is held and typed ahead.
LEMMA Moved ==
  ASSUME NEW S, NEW s \in Seq(S), NEW t \in Seq(S), t # << >>
  PROVE  /\ Append(s, Head(t)) \o Tail(t) = s \o t
         /\ <<Head(t)>> \o Tail(t) = t
  BY HeadTailProperties, ConcatProperties, SeqEqual

LEMMA KeptInit == Init => InputKept
  BY DEF Init, InputKept, None

LEMMA KeptGetchar ==
  ASSUME Inv, InputKept, NEW c, Getchar(c)
  PROVE  InputKept'
<1>1. CASE held # None
  <2>1. held \in Keys /\ held' = None /\ line' = line /\ typed' = typed
        /\ taken' = Append(taken, held)
    BY <1>1 DEF Getchar, Inv, TypeOK
  <2>2. (taken \o <<held>>) \o line = Append(taken, held) \o << >> \o line
    BY <2>1 DEF Inv
  <2>3. QED BY <1>1, <2>1, <2>2 DEF InputKept
<1>2. CASE held = None
  <2>1. line # << >> /\ line' = Tail(line) /\ held' = None /\ typed' = typed
        /\ taken' = Append(taken, Head(line))
    BY <1>2 DEF Getchar
  <2>2. (taken \o << >>) \o line = (taken' \o << >>) \o line'
    BY <2>1, Moved, HeadTailProperties, ConcatEmptySeq, SMTT(40) DEF Inv
  <2>3. QED BY <1>2, <2>1, <2>2 DEF InputKept
<1>3. QED BY <1>1, <1>2

LEMMA KeptPeek ==
  ASSUME Inv, InputKept, Pico, Peek, UNCHANGED <<typed, taken>>
  PROVE  InputKept'
<1>1. CASE held # None
  BY <1>1 DEF Peek, Fetches, Pico, InputKept
<1>2. CASE held = None /\ line = << >>
  BY <1>2 DEF Peek, Fetches, Fetched, InputKept
<1>3. CASE held = None /\ line # << >>
  <2>1. held' = Head(line) /\ line' = Tail(line) /\ Head(line) \in Keys
        /\ Tail(line) \in Seq(Keys)
    BY <1>3, HeadTailProperties DEF Peek, Fetches, Fetched, Inv
  <2>2. held' # None
    BY <2>1, KeysAreBytes
  <2>3. (taken \o <<held'>>) \o line' = (taken \o << >>) \o line
    <3>1. taken \in Seq(Keys) /\ line \in Seq(Keys) /\ <<held'>> \in Seq(Keys)
      BY <2>1 DEF Inv
    <3>2. (taken \o <<held'>>) \o line' = taken \o (<<held'>> \o line')
      BY <2>1, <3>1, ConcatAssociative
    <3>3. <<held'>> \o line' = line
      BY <1>3, <2>1, <3>1, Moved
    <3>4. taken \o << >> = taken
      BY <3>1, ConcatEmptySeq
    <3>5. QED BY <3>2, <3>3, <3>4
  <2>4. QED BY <1>3, <2>2, <2>3 DEF InputKept
<1>4. QED BY <1>1, <1>2, <1>3

LEMMA KeptType ==
  ASSUME Inv, InputKept, NEW c \in Keys, Type(c)
  PROVE  InputKept'
<1>1. typed' = Append(typed, c) /\ line' = Append(line, c)
      /\ held' = held /\ taken' = taken
  BY DEF Type
<1>2. Handed \in Seq(Keys)
  BY DEF Handed, Inv, TypeOK
<1>3. taken \o Handed \o Append(line, c) = Append(taken \o Handed \o line, c)
  BY <1>2, ConcatProperties, AppendProperties, SeqEqual, SMTT(40) DEF Inv
<1>4. QED BY <1>1, <1>3 DEF InputKept, Handed

LEMMA KeptNext == Inv /\ InputKept /\ Pico /\ [Next]_vars => InputKept'
<1> SUFFICES ASSUME Inv, InputKept, Pico, [Next]_vars PROVE InputKept'
  OBVIOUS
<1>1. CASE \E c \in Keys : Type(c)
  BY <1>1, KeptType
<1>2. CASE Prompt
  <2>1. \E c : Getchar(c)
    BY <1>2 DEF Prompt, Erase, LineFeed, Recall, Insert, Enter, Key
  <2>2. QED BY <2>1, KeptGetchar
<1>3. CASE Status
  BY <1>3, KeptPeek DEF Status
<1>4. CASE Read
  BY <1>4, KeptGetchar DEF Read
<1>5. CASE Quit \/ (\E val \in Bytes : Out(val)) \/ UNCHANGED vars
  BY <1>5 DEF Quit, Out, vars, InputKept
<1>6. QED BY <1>1, <1>2, <1>3, <1>4, <1>5 DEF Next

\* What is typed reaches the monitor or the guest once and in order.
THEOREM InputNotLost == ASSUME Pico PROVE Spec => []InputKept
<1>1. QED BY Invariance, KeptInit, KeptNext, PTL DEF Spec

\* IN 0 says whether IN 1 will find a character.
THEOREM StatusIsTrue == ASSUME Pico PROVE Spec => StatusTrue
<1>1. Inv /\ Inv' /\ [Next]_vars =>
        [/\ Status => status' = IF Waiting THEN 255 ELSE 0
         /\ status' = 255 => held' # None]_vars
  <2> SUFFICES ASSUME Inv, Inv', Status PROVE status' = IF Waiting THEN 255 ELSE 0
    BY DEF Inv
  <2>1. CASE held # None
    BY <2>1 DEF Status, Peek, Fetches, Pico, Waiting
  <2>2. CASE held = None /\ line = << >>
    BY <2>2 DEF Status, Peek, Fetches, Fetched, Waiting
  <2>3. CASE held = None /\ line # << >>
    <3>1. Head(line) \in Keys
      BY <2>3, HeadTailProperties DEF Inv
    <3>2. QED BY <2>3, <3>1, KeysAreBytes DEF Status, Peek, Fetches, Fetched, Waiting
  <2>4. QED BY <2>1, <2>2, <2>3
<1>2. QED BY <1>1, Invariance, PTL DEF Spec, StatusTrue
-----------------------------------------------------------------------------
(* Rings: what stands between a read index f and a write index w.           *)

\* Kept closed in what follows: the provers know little of a remainder.
Rem(x, cap) == x % cap

RingSeq(buf, cap, f, w) ==
  [i \in 1 .. Rem(w - f, cap) |-> buf[Rem(f + i - 1, cap)]]

\* The remainder of a number that is off by at most one turn.
LEMMA Wrapped ==
  ASSUME NEW cap \in Nat \ {0}, NEW x \in -cap .. 2 * cap - 1
  PROVE  Rem(x, cap) = IF x < 0 THEN x + cap ELSE IF x < cap THEN x ELSE x - cap
<1>1. CASE x < 0
  <2>1. Rem(cap * (-1) + (x + cap), cap) = x + cap
    BY <1>1, RemainderUnique DEF Rem
  <2>2. cap * (-1) + (x + cap) = x
    OBVIOUS
  <2>3. QED BY <1>1, <2>1, <2>2
<1>2. CASE x >= 0 /\ x < cap
  <2>1. Rem(cap * 0 + x, cap) = x
    BY <1>2, RemainderUnique DEF Rem
  <2>2. cap * 0 + x = x
    OBVIOUS
  <2>3. QED BY <1>2, <2>1, <2>2
<1>3. CASE x >= cap
  <2>0. x - cap \in 0 .. cap - 1
    BY <1>3
  <2>1. Rem(cap * 1 + (x - cap), cap) = x - cap
    BY <2>0, RemainderUnique DEF Rem
  <2>2. cap * 1 + (x - cap) = x
    OBVIOUS
  <2>3. QED BY <1>3, <2>1, <2>2
<1>4. QED BY <1>1, <1>2, <1>3

LEMMA RingIndices ==
  ASSUME NEW cap \in Nat \ {0}, NEW f \in 0 .. cap - 1, NEW w \in 0 .. cap - 1
  PROVE  /\ Rem(w - f, cap) = IF w < f THEN w - f + cap ELSE w - f
         /\ Rem(w - f, cap) \in 0 .. cap - 1
         /\ \A i \in 1 .. cap :
              /\ Rem(f + i - 1, cap) = IF f + i - 1 < cap THEN f + i - 1
                                      ELSE f + i - 1 - cap
              /\ Rem(f + i - 1, cap) \in 0 .. cap - 1
<1>1. Rem(w - f, cap) = IF w < f THEN w - f + cap ELSE w - f
  <2>1. w - f \in -cap .. 2 * cap - 1
    OBVIOUS
  <2>2. QED BY <2>1, Wrapped
<1>2. ASSUME NEW i \in 1 .. cap
      PROVE  Rem(f + i - 1, cap) = IF f + i - 1 < cap THEN f + i - 1
                                  ELSE f + i - 1 - cap
  <2>1. f + i - 1 \in -cap .. 2 * cap - 1 /\ ~(f + i - 1 < 0)
    OBVIOUS
  <2>2. QED BY <2>1, Wrapped
<1>3. QED BY <1>1, <1>2, SMTT(40)

LEMMA RingNext ==
  ASSUME NEW cap \in Nat \ {0}, NEW w \in 0 .. cap - 1
  PROVE  /\ Rem(w + 1, cap) = IF w + 1 = cap THEN 0 ELSE w + 1
         /\ Rem(w + 1, cap) \in 0 .. cap - 1
         /\ Rem(w + 1 - 1, cap) = w /\ Rem(w - w, cap) = 0
<1>1. Rem(w + 1, cap) = IF w + 1 = cap THEN 0 ELSE w + 1
  <2>1. w + 1 \in -cap .. 2 * cap - 1 /\ ~(w + 1 < 0)
    OBVIOUS
  <2>2. QED BY <2>1, Wrapped
<1>2. w + 1 - 1 = w /\ w - w = 0 /\ w \in -cap .. 2 * cap - 1 /\ 0 \in -cap .. 2 * cap - 1
  OBVIOUS
<1>3. Rem(w, cap) = w /\ Rem(0, cap) = 0
  BY <1>2, Wrapped
<1>4. QED BY <1>1, <1>2, <1>3

LEMMA RingLength ==
  ASSUME NEW cap \in Nat \ {0}, NEW buf,
         NEW f \in 0 .. cap - 1, NEW w \in 0 .. cap - 1
  PROVE  /\ Len(RingSeq(buf, cap, f, w)) = Rem(w - f, cap)
         /\ \A i \in 1 .. Rem(w - f, cap) :
              RingSeq(buf, cap, f, w)[i] = buf[Rem(f + i - 1, cap)]
<1> DEFINE n == Rem(w - f, cap)
<1>1. n \in Nat
  BY RingIndices
<1> HIDE DEF n
<1>2. RingSeq(buf, cap, f, w) = [i \in 1 .. n |-> buf[Rem(f + i - 1, cap)]]
  BY DEF RingSeq, n
<1>3. Len(RingSeq(buf, cap, f, w)) = n
  BY <1>1, <1>2
<1>4. \A i \in 1 .. n : RingSeq(buf, cap, f, w)[i] = buf[Rem(f + i - 1, cap)]
  BY <1>2
<1>5. QED BY <1>3, <1>4 DEF n

LEMMA RingContent ==
  ASSUME NEW cap \in Nat \ {0}, NEW S, NEW buf \in [0 .. cap - 1 -> S],
         NEW f \in 0 .. cap - 1, NEW w \in 0 .. cap - 1
  PROVE  RingSeq(buf, cap, f, w) \in Seq(S)
<1> DEFINE n == Rem(w - f, cap)
<1>1. n \in 0 .. cap - 1
  BY RingIndices
<1>2. \A i \in 1 .. n : i \in 1 .. cap
  BY <1>1
<1>3. \A i \in 1 .. n : Rem(f + i - 1, cap) \in 0 .. cap - 1
  BY <1>2, RingIndices
<1>4. \A i \in 1 .. n : buf[Rem(f + i - 1, cap)] \in S
  BY <1>3
<1> HIDE DEF n
<1>5. RingSeq(buf, cap, f, w) = [i \in 1 .. n |-> buf[Rem(f + i - 1, cap)]]
  BY DEF RingSeq, n
<1>6. QED BY <1>1, <1>4, <1>5, IsASeq

LEMMA IsSeqOver ==
  ASSUME NEW S, NEW n \in Nat, NEW c, c = [i \in 1 .. n |-> c[i]],
         \A i \in 1 .. n : c[i] \in S
  PROVE  c \in Seq(S)
<1>1. [i \in 1 .. n |-> c[i]] \in Seq(S)
  OBVIOUS
<1>2. QED BY <1>1, Zenon

LEMMA ConcatIs ==
  ASSUME NEW S, NEW c \in Seq(S), NEW s \in Seq(S)
  PROVE  /\ c \o s \in Seq(S) /\ Len(c \o s) = Len(c) + Len(s)
         /\ \A i \in 1 .. Len(c) + Len(s) :
              (c \o s)[i] = IF i <= Len(c) THEN c[i] ELSE s[i - Len(c)]
  OBVIOUS

Holds(buf, cap, w, s) == \A j \in 1 .. Len(s) : buf[Rem(w + j - 1, cap)] = s[j]
Untouched(buf, buf2, cap, f, w) ==
  \A i \in 1 .. Rem(w - f, cap) : buf2[Rem(f + i - 1, cap)] = buf[Rem(f + i - 1, cap)]

\* The sequence s is stored behind the content, as far as there is room.
RingTakes(S, buf, buf2, cap, f, w, s) ==
  /\ cap \in Nat \ {0} /\ buf \in [0 .. cap - 1 -> S] /\ buf2 \in [0 .. cap - 1 -> S]
  /\ f \in 0 .. cap - 1 /\ w \in 0 .. cap - 1 /\ s \in Seq(S)
  /\ Len(s) + Rem(w - f, cap) <= cap - 1
  /\ Holds(buf2, cap, w, s) /\ Untouched(buf, buf2, cap, f, w)

LEMMA RingStore ==
  ASSUME NEW S, NEW buf, NEW buf2, NEW cap, NEW f, NEW w, NEW s,
         RingTakes(S, buf, buf2, cap, f, w, s)
  PROVE  /\ Rem(w + Len(s), cap) \in 0 .. cap - 1
         /\ RingSeq(buf2, cap, f, Rem(w + Len(s), cap))
              = RingSeq(buf, cap, f, w) \o s
<1> cap \in Nat \ {0} /\ f \in 0 .. cap - 1 /\ w \in 0 .. cap - 1
  BY DEF RingTakes
<1> buf \in [0 .. cap - 1 -> S] /\ buf2 \in [0 .. cap - 1 -> S] /\ s \in Seq(S)
  BY DEF RingTakes
<1> Len(s) + Rem(w - f, cap) <= cap - 1
  BY DEF RingTakes
<1> Holds(buf2, cap, w, s) /\ Untouched(buf, buf2, cap, f, w)
  BY DEF RingTakes
<1> DEFINE n == Rem(w - f, cap)
           len == Len(s)
           v == Rem(w + len, cap)
           c == RingSeq(buf, cap, f, w)
           d == RingSeq(buf2, cap, f, v)
<1>1. n = (IF w < f THEN w - f + cap ELSE w - f) /\ n \in 0 .. cap - 1
  BY RingIndices
<1>2. len \in Nat /\ len + n <= cap - 1
  OBVIOUS
<1>3. v = (IF w + len < cap THEN w + len ELSE w + len - cap) /\ v \in 0 .. cap - 1
  <2>1. w + len \in -cap .. 2 * cap - 1 /\ ~(w + len < 0)
    BY <1>1, <1>2
  <2>2. v = (IF w + len < cap THEN w + len ELSE w + len - cap)
    BY <2>1, Wrapped
  <2>3. QED BY <1>1, <1>2, <2>2
<1>4. Rem(v - f, cap) = n + len
  <2>1. Rem(v - f, cap) = IF v < f THEN v - f + cap ELSE v - f
    BY <1>3, RingIndices
  <2> HIDE DEF n, len, v
  <2>2. QED BY <1>1, <1>2, <1>3, <2>1
<1>5. /\ c \in Seq(S) /\ Len(c) = n
      /\ \A i \in 1 .. n : c[i] = buf[Rem(f + i - 1, cap)]
  <2>1. c \in Seq(S)
    BY RingContent
  <2>2. Len(c) = n
    BY RingLength
  <2>3. \A i \in 1 .. n : c[i] = buf[Rem(f + i - 1, cap)]
    BY Zenon DEF RingSeq
  <2>4. QED BY <2>1, <2>2, <2>3
<1>6. /\ d \in Seq(S) /\ Len(d) = n + len
      /\ \A i \in 1 .. n + len : d[i] = buf2[Rem(f + i - 1, cap)]
  <2>1. d \in Seq(S)
    BY <1>3, RingContent
  <2>2. Len(d) = n + len
    BY <1>3, <1>4, RingLength
  <2>3. \A i \in 1 .. n + len : d[i] = buf2[Rem(f + i - 1, cap)]
    BY <1>4, Zenon DEF RingSeq
  <2>4. QED BY <2>1, <2>2, <2>3
<1>7. ASSUME NEW j \in 1 .. len PROVE Rem(f + (n + j) - 1, cap) = Rem(w + j - 1, cap)
  <2>1. n + j \in 1 .. cap /\ j \in 1 .. cap
    BY <1>1, <1>2, SMTT(40)
  <2>2. Rem(f + (n + j) - 1, cap) = IF f + (n + j) - 1 < cap THEN f + (n + j) - 1
                                   ELSE f + (n + j) - 1 - cap
    BY <2>1, RingIndices
  <2>3. Rem(w + j - 1, cap) = IF w + j - 1 < cap THEN w + j - 1
                             ELSE w + j - 1 - cap
    BY <2>1, RingIndices
  <2> HIDE DEF n, len
  <2>4. QED BY <1>1, <1>2, <2>1, <2>2, <2>3
<1>8. c \o s \in Seq(S) /\ Len(c \o s) = n + len
      /\ \A i \in 1 .. n + len : (c \o s)[i] = IF i <= n THEN c[i] ELSE s[i - n]
  <2> HIDE DEF c, n
  <2>1. QED BY <1>5, ConcatIs, ZenonT(60)
<1> HIDE DEF c, d, n, len, v
<1>9. ASSUME NEW i \in 1 .. n + len PROVE d[i] = (c \o s)[i]
  <2>1. CASE i <= n
    <3>1. i \in 1 .. n
      BY <1>1, <2>1
    <3>2. QED BY <1>5, <1>6, <1>8, <2>1, <3>1 DEF n, Untouched
  <2>2. CASE i > n
    <3>1. i - n \in 1 .. len /\ n + (i - n) = i
      BY <1>1, <1>2, <2>2
    <3>2. buf2[Rem(w + (i - n) - 1, cap)] = s[i - n]
      BY <3>1 DEF len, Holds
    <3>3. Rem(f + (n + (i - n)) - 1, cap) = Rem(w + (i - n) - 1, cap)
      BY <1>7, <3>1
    <3>4. QED BY <1>1, <1>6, <1>8, <2>2, <3>1, <3>2, <3>3, SMTT(40)
  <2>3. i <= n \/ i > n
    BY <1>1, <1>2
  <2>4. QED BY <2>1, <2>2, <2>3
<1>10. d = c \o s
  BY <1>1, <1>2, <1>6, <1>8, <1>9, SeqEqual, ZenonT(60)
<1>11. QED BY <1>3, <1>10 DEF c, d, v, len

\* One character c is put into the ring at w, which then goes on to v.
RingPut(S, buf, buf2, cap, f, w, v, c) ==
  /\ cap \in Nat \ {0} /\ buf \in [0 .. cap - 1 -> S] /\ c \in S
  /\ f \in 0 .. cap - 1 /\ w \in 0 .. cap - 1
  /\ buf2 = [buf EXCEPT ![w] = c] /\ v = Rem(w + 1, cap) /\ v # f

LEMMA RingAppend ==
  ASSUME NEW S, NEW buf, NEW buf2, NEW cap, NEW f, NEW w, NEW v, NEW c,
         RingPut(S, buf, buf2, cap, f, w, v, c)
  PROVE  RingSeq(buf2, cap, f, v) = Append(RingSeq(buf, cap, f, w), c)
<1> DEFINE n == Rem(w - f, cap)
           s == <<c>>
<1>1. cap \in Nat \ {0} /\ f \in 0 .. cap - 1 /\ w \in 0 .. cap - 1
  BY DEF RingPut
<1>2. buf \in [0 .. cap - 1 -> S] /\ c \in S
  BY DEF RingPut
<1>3. v = Rem(w + 1, cap) /\ v # f
  BY DEF RingPut
<1>4. buf2 \in [0 .. cap - 1 -> S] /\ s \in Seq(S) /\ Len(s) = 1 /\ s[1] = c
  BY DEF RingPut
<1>5. buf2[w] = c /\ \A i \in 0 .. cap - 1 : i # w => buf2[i] = buf[i]
  BY DEF RingPut
<1>6. n = (IF w < f THEN w - f + cap ELSE w - f) /\ n \in 0 .. cap - 1
  BY <1>1, RingIndices
<1>7. Rem(w + 1, cap) = IF w + 1 = cap THEN 0 ELSE w + 1
  BY <1>1, RingNext
<1>8. Len(s) + n <= cap - 1
  <2> HIDE DEF n
  <2>1. QED BY <1>1, <1>3, <1>4, <1>6, <1>7
<1>9. \A j \in 1 .. Len(s) : buf2[Rem(w + j - 1, cap)] = s[j]
  <2>1. Rem(w + 1 - 1, cap) = w
    BY <1>1, RingNext
  <2>2. QED BY <1>4, <1>5, <2>1
<1>10. ASSUME NEW i \in 1 .. n
      PROVE  buf2[Rem(f + i - 1, cap)] = buf[Rem(f + i - 1, cap)]
  <2>1. i \in 1 .. cap
    BY <1>1, <1>6
  <2>2. Rem(f + i - 1, cap) = (IF f + i - 1 < cap THEN f + i - 1
                                 ELSE f + i - 1 - cap)
        /\ Rem(f + i - 1, cap) \in 0 .. cap - 1
    BY <1>1, <2>1, RingIndices
  <2>3. Rem(f + i - 1, cap) # w
    <3> HIDE DEF n
    <3>1. QED BY <1>1, <1>6, <2>1, <2>2
  <2>4. QED BY <1>5, <2>2, <2>3
<1>11. RingSeq(buf2, cap, f, Rem(w + Len(s), cap)) = RingSeq(buf, cap, f, w) \o s
  <2>1. Holds(buf2, cap, w, s)
    BY <1>9 DEF Holds
  <2>2. Untouched(buf, buf2, cap, f, w)
    BY <1>10 DEF Untouched
  <2>3. Len(s) + Rem(w - f, cap) <= cap - 1
    BY <1>8
  <2>4. RingTakes(S, buf, buf2, cap, f, w, s)
    BY <1>1, <1>2, <1>4, <2>1, <2>2, <2>3 DEF RingTakes
  <2> HIDE DEF s, n
  <2>5. QED BY <2>4, RingStore
<1>12. RingSeq(buf, cap, f, w) \in Seq(S)
  BY <1>1, <1>2, RingContent
<1>13. RingSeq(buf, cap, f, w) \o <<c>> = Append(RingSeq(buf, cap, f, w), c)
  BY <1>2, <1>12
<1>14. QED BY <1>3, <1>4, <1>11, <1>13

LEMMA RingTail ==
  ASSUME NEW cap \in Nat \ {0}, NEW S, NEW buf \in [0 .. cap - 1 -> S],
         NEW f \in 0 .. cap - 1, NEW w \in 0 .. cap - 1, f # w
  PROVE  /\ RingSeq(buf, cap, f, w) # << >>
         /\ Head(RingSeq(buf, cap, f, w)) = buf[f]
         /\ Rem(f + 1, cap) \in 0 .. cap - 1
         /\ RingSeq(buf, cap, Rem(f + 1, cap), w) = Tail(RingSeq(buf, cap, f, w))
<1> DEFINE n == Rem(w - f, cap)
           g == Rem(f + 1, cap)
           c == RingSeq(buf, cap, f, w)
           d == RingSeq(buf, cap, g, w)
<1>1. n = (IF w < f THEN w - f + cap ELSE w - f) /\ n \in 0 .. cap - 1
  BY RingIndices
<1>2. g = (IF f + 1 = cap THEN 0 ELSE f + 1) /\ g \in 0 .. cap - 1
  <2>1. g = IF f + 1 = cap THEN 0 ELSE f + 1
    BY RingNext
  <2>2. QED BY <2>1
<1>3. n > 0
  <2> HIDE DEF n
  <2>1. QED BY <1>1
<1>4. Rem(w - g, cap) = n - 1
  <2>1. Rem(w - g, cap) = IF w < g THEN w - g + cap ELSE w - g
    BY <1>2, RingIndices
  <2> HIDE DEF n, g
  <2>2. QED BY <1>1, <1>2, <2>1
<1>5. /\ c \in Seq(S) /\ Len(c) = n
      /\ \A i \in 1 .. n : c[i] = buf[Rem(f + i - 1, cap)]
  <2>1. c \in Seq(S)
    BY RingContent
  <2>2. Len(c) = n
    BY RingLength
  <2>3. \A i \in 1 .. n : c[i] = buf[Rem(f + i - 1, cap)]
    BY Zenon DEF RingSeq
  <2>4. QED BY <2>1, <2>2, <2>3
<1>6. /\ d \in Seq(S) /\ Len(d) = n - 1
      /\ \A i \in 1 .. n - 1 : d[i] = buf[Rem(g + i - 1, cap)]
  <2>1. d \in Seq(S)
    BY <1>2, RingContent
  <2>2. Len(d) = n - 1
    BY <1>2, <1>4, RingLength, ZenonT(60)
  <2>3. \A i \in 1 .. n - 1 : d[i] = buf[Rem(g + i - 1, cap)]
    BY <1>4, Zenon DEF RingSeq
  <2>4. QED BY <2>1, <2>2, <2>3
<1>7. ASSUME NEW i \in 1 .. n - 1 PROVE Rem(g + i - 1, cap) = Rem(f + (i + 1) - 1, cap)
  <2>1. i \in 1 .. cap /\ i + 1 \in 1 .. cap
    BY <1>1
  <2>2. Rem(g + i - 1, cap) = IF g + i - 1 < cap THEN g + i - 1 ELSE g + i - 1 - cap
    BY <1>2, <2>1, RingIndices
  <2>3. Rem(f + (i + 1) - 1, cap) = IF f + (i + 1) - 1 < cap THEN f + (i + 1) - 1
                                   ELSE f + (i + 1) - 1 - cap
    BY <2>1, RingIndices
  <2> HIDE DEF n, g
  <2>4. QED BY <1>1, <1>2, <2>1, <2>2, <2>3
<1>8. c # << >> /\ Head(c) = c[1] /\ Tail(c) \in Seq(S) /\ Len(Tail(c)) = n - 1
      /\ \A i \in 1 .. n - 1 : Tail(c)[i] = c[i + 1]
  BY <1>1, <1>3, <1>5
<1>9. c[1] = buf[f]
  <2>1. 1 \in 1 .. n /\ 1 \in 1 .. cap
    BY <1>1, <1>3
  <2>2. Rem(f + 1 - 1, cap) = f
    BY RingNext
  <2>3. QED BY <1>5, <2>1, <2>2
<1>10. \A i \in 1 .. n - 1 : d[i] = Tail(c)[i]
  <2>1. \A i \in 1 .. n - 1 : i + 1 \in 1 .. n
    BY <1>1
  <2>2. SUFFICES ASSUME NEW i \in 1 .. n - 1 PROVE d[i] = Tail(c)[i]
    OBVIOUS
  <2>3. d[i] = buf[Rem(g + i - 1, cap)] /\ Tail(c)[i] = c[i + 1]
    BY <1>6, <1>8, Zenon
  <2>4. c[i + 1] = buf[Rem(f + (i + 1) - 1, cap)]
    BY <1>5, <2>1, Zenon
  <2>5. Rem(g + i - 1, cap) = Rem(f + (i + 1) - 1, cap)
    BY <1>7, Zenon
  <2>6. QED BY <2>3, <2>4, <2>5, Zenon
<1> HIDE DEF c, d, n, g
<1>11. d = Tail(c)
  BY <1>1, <1>6, <1>8, <1>10, SeqEqual
<1>12. QED BY <1>2, <1>8, <1>9, <1>11 DEF c, d, g

\* A ring that is not empty.
RingHas(S, buf, cap, f, w) ==
  /\ cap \in Nat \ {0} /\ buf \in [0 .. cap - 1 -> S]
  /\ f \in 0 .. cap - 1 /\ w \in 0 .. cap - 1 /\ f # w

LEMMA RingFirst ==
  ASSUME NEW S, NEW buf, NEW cap, NEW f, NEW w, RingHas(S, buf, cap, f, w)
  PROVE  /\ RingSeq(buf, cap, f, w) # << >>
         /\ Head(RingSeq(buf, cap, f, w)) = buf[f]
         /\ Rem(f + 1, cap) \in 0 .. cap - 1
         /\ RingSeq(buf, cap, Rem(f + 1, cap), w) = Tail(RingSeq(buf, cap, f, w))
  BY RingTail, ZenonT(60) DEF RingHas

LEMMA RingEmpty ==
  ASSUME NEW cap \in Nat \ {0}, NEW buf, NEW f \in 0 .. cap - 1
  PROVE  RingSeq(buf, cap, f, f) = << >>
<1>1. Rem(f - f, cap) = 0
  BY RingNext
<1>2. QED BY <1>1 DEF RingSeq

\* A ring of which every place is taken, from 0 on.
Whole(buf, cap) == [i \in 1 .. cap |-> buf[i - 1]]

LEMMA WholeIs ==
  ASSUME NEW cap \in Nat \ {0, 1}, NEW S, NEW buf \in [0 .. cap - 1 -> S]
  PROVE  /\ Whole(buf, cap) \in Seq(S) /\ Whole(buf, cap) # << >>
         /\ Whole(buf, cap) = Append(RingSeq(buf, cap, 0, cap - 1), buf[cap - 1])
         /\ Head(Whole(buf, cap)) = buf[0]
         /\ Tail(Whole(buf, cap)) = RingSeq(buf, cap, 1, 0)
<1> DEFINE h == Whole(buf, cap)
           c == RingSeq(buf, cap, 0, cap - 1)
           d == RingSeq(buf, cap, 1, 0)
<1>1. cap \in Nat \ {0} /\ 0 \in 0 .. cap - 1 /\ 1 \in 0 .. cap - 1 /\ cap - 1 \in 0 .. cap - 1
  OBVIOUS
<1>2. h \in Seq(S) /\ Len(h) = cap /\ \A i \in 1 .. cap : h[i] = buf[i - 1]
  <2>1. \A i \in 1 .. cap : buf[i - 1] \in S
    OBVIOUS
  <2>2. QED BY <2>1, IsASeq DEF Whole
<1>3. Rem(cap - 1 - 0, cap) = cap - 1 /\ Rem(0 - 1, cap) = cap - 1
  <2>1. Rem(cap - 1 - 0, cap) = IF cap - 1 < 0 THEN cap - 1 - 0 + cap ELSE cap - 1 - 0
    BY <1>1, RingIndices, SMTT(40)
  <2>2. Rem(0 - 1, cap) = IF 0 < 1 THEN 0 - 1 + cap ELSE 0 - 1
    BY <1>1, RingIndices
  <2>3. QED BY <2>1, <2>2
<1>4. c \in Seq(S) /\ Len(c) = cap - 1 /\ \A i \in 1 .. cap - 1 : c[i] = buf[i - 1]
  <2>1. c \in Seq(S)
    BY <1>1, RingContent
  <2>2. Len(c) = cap - 1
    BY <1>1, <1>3, RingLength
  <2>3. ASSUME NEW i \in 1 .. cap - 1 PROVE c[i] = buf[i - 1]
    <3>1. i \in 1 .. cap /\ 0 + i - 1 = i - 1 /\ i - 1 < cap
      OBVIOUS
    <3>2. Rem(0 + i - 1, cap) = IF 0 + i - 1 < cap THEN 0 + i - 1 ELSE 0 + i - 1 - cap
      BY <1>1, <3>1, RingIndices
    <3>3. c[i] = buf[Rem(0 + i - 1, cap)]
      BY <1>3, Zenon DEF RingSeq
    <3>4. QED BY <3>1, <3>2, <3>3
  <2>4. QED BY <2>1, <2>2, <2>3
<1>5. d \in Seq(S) /\ Len(d) = cap - 1 /\ \A i \in 1 .. cap - 1 : d[i] = buf[i]
  <2>1. d \in Seq(S)
    BY <1>1, RingContent
  <2>2. Len(d) = cap - 1
    <3>1. \A w \in 0 .. cap - 1 :
            Len(RingSeq(buf, cap, 1, w)) = Rem(w - 1, cap)
      BY <1>1, RingLength, ZenonT(60)
    <3>2. Len(d) = Rem(0 - 1, cap)
      BY <1>1, <3>1, Zenon
    <3>3. QED BY <1>3, <3>2, Zenon
  <2>3. ASSUME NEW i \in 1 .. cap - 1 PROVE d[i] = buf[i]
    <3>1. i \in 1 .. cap /\ 1 + i - 1 = i /\ i < cap
      OBVIOUS
    <3>2. Rem(1 + i - 1, cap) = IF 1 + i - 1 < cap THEN 1 + i - 1 ELSE 1 + i - 1 - cap
      BY <1>1, <3>1, RingIndices
    <3>3. d[i] = buf[Rem(1 + i - 1, cap)]
      BY <1>3, Zenon DEF RingSeq
    <3>4. QED BY <3>1, <3>2, <3>3, Zenon
  <2>4. QED BY <2>1, <2>2, <2>3
<1> HIDE DEF h, c, d
<1>6. buf[cap - 1] \in S
  BY <1>1
<1>7. h # << >> /\ Head(h) = buf[0]
  BY <1>2
<1>8. h = Append(c, buf[cap - 1])
  <2>1. Append(c, buf[cap - 1]) \in Seq(S) /\ Len(Append(c, buf[cap - 1])) = cap
    BY <1>4, <1>6
  <2>2. \A i \in 1 .. cap : h[i] = Append(c, buf[cap - 1])[i]
    BY <1>2, <1>4, <1>6
  <2>3. QED BY <1>2, <2>1, <2>2, SeqEqual
<1>9. Tail(h) = d
  <2>1. Tail(h) \in Seq(S) /\ Len(Tail(h)) = cap - 1
        /\ \A i \in 1 .. cap - 1 : Tail(h)[i] = h[i + 1]
    BY <1>2, <1>7
  <2>2. \A i \in 1 .. cap - 1 : Tail(h)[i] = d[i]
    BY <1>2, <1>5, <2>1
  <2>3. QED BY <1>5, <2>1, <2>2, SeqEqual
<1>10. QED BY <1>2, <1>7, <1>8, <1>9 DEF h, c, d
-----------------------------------------------------------------------------
(* con_avr_uart.c.                                                          *)

\* The characters of s that are real rise, from beyond the last one read.
Ascending(s, last) ==
  \A i \in DOMAIN s : s[i] # 0 =>
    last < s[i] /\ \A j \in 1 .. i - 1 : s[j] < s[i]

LEMMA AscendingAppend ==
  ASSUME NEW s \in Seq(Nat), NEW last \in Nat, NEW c \in Nat, Ascending(s, last),
         c = 0 \/ (last < c /\ \A i \in 1 .. Len(s) : s[i] < c)
  PROVE  Ascending(Append(s, c), last)
  BY DEF Ascending

LEMMA AscendingTail ==
  ASSUME NEW s \in Seq(Nat), NEW last \in Nat, s # << >>, Ascending(s, last)
  PROVE  Ascending(Tail(s), IF Head(s) = 0 THEN last ELSE Head(s))
<1> DEFINE next == IF Head(s) = 0 THEN last ELSE Head(s)
           u == Tail(s)
<1>1. /\ Len(s) \in Nat \ {0} /\ u \in Seq(Nat) /\ Len(u) = Len(s) - 1
      /\ \A i \in 1 .. Len(u) : u[i] = s[i + 1] /\ i + 1 \in 1 .. Len(s)
      /\ Head(s) = s[1] /\ 1 \in 1 .. Len(s) /\ DOMAIN u = 1 .. Len(u) /\ DOMAIN s = 1 .. Len(s)
  OBVIOUS
<1> HIDE DEF u
<1> SUFFICES ASSUME NEW i \in 1 .. Len(u), u[i] # 0
             PROVE  next < u[i] /\ \A j \in 1 .. i - 1 : u[j] < u[i]
  BY <1>1 DEF Ascending, u
<1>2. u[i] = s[i + 1] /\ i + 1 \in 1 .. Len(s)
  BY <1>1
<1>3. last < s[i + 1] /\ \A j \in 1 .. i : s[j] < s[i + 1]
  <2> DEFINE k == i + 1
  <2>1. k \in DOMAIN s /\ s[k] # 0 /\ k - 1 = i
    BY <1>1, <1>2
  <2> HIDE DEF k
  <2>2. last < s[k] /\ \A j \in 1 .. k - 1 : s[j] < s[k]
    BY <2>1, Zenon DEF Ascending
  <2>3. last < s[k] /\ \A j \in 1 .. i : s[j] < s[k]
    BY <2>1, <2>2
  <2>4. QED BY <2>3 DEF k
<1>4. next < u[i]
  BY <1>1, <1>2, <1>3, SMTT(40)
<1>5. ASSUME NEW j \in 1 .. i - 1 PROVE u[j] < u[i]
  <2>1. j \in 1 .. Len(u) /\ j + 1 \in 1 .. i
    BY <1>1
  <2>2. QED BY <1>1, <1>2, <1>3, <2>1
<1>6. QED BY <1>4, <1>5

\* The last character that can have been received.
UBound == IF rxd.part = "start" THEN started - 1 ELSE started
First == IF rd = UartSize THEN 0 ELSE rd

UTypes ==
  /\ started \in Nat /\ UBound \in Nat
  /\ fifo \in [0 .. UartSize - 1 -> 0 .. UBound]
  /\ wr \in 0 .. UartSize - 1
  /\ rd \in 0 .. UartSize /\ (rd = UartSize => uartMain = "mask")
  /\ uartMain \in {"idle", "send", "reset", "enable", "look", "int", "read", "mask"}
  /\ handler \in {"none", "receive", "end"}
  /\ uartGot \in 0 .. UBound /\ pushed \in Nat
  /\ rxd.part \in {"idle", "start", "rest"}
  /\ rxd.part = "start" => rxd.char = started

\* Only between the test and the read can the ring be filled to the last
\* place, which makes it look empty; what is read then comes in order too.
UOrder == /\ Ascending(Uart!Content, uartGot)
          /\ uartMain = "read" => \/ rd # wr
                                  \/ rd = 0 /\ Ascending(Whole(fifo, UartSize), uartGot)

UDisabled ==
  /\ ~enabled <=> handler # "none" \/ uartMain \in {"send", "reset", "enable"}
  /\ handler # "none" => uartMain \notin {"send", "reset", "enable"}

UInv == UTypes /\ UOrder /\ UDisabled

LEMMA UartSizes == UartSize \in Nat \ {0, 1} /\ UartSize \in Nat \ {0}
  BY RingsAssumption DEF Uart!UartAssumption

LEMMA UFirst ==
  ASSUME NEW r \in 0 .. UartSize
  PROVE  /\ r % UartSize = IF r = UartSize THEN 0 ELSE r
         /\ r % UartSize \in 0 .. UartSize - 1
<1>1. r % UartSize = IF r = UartSize THEN 0 ELSE r
  BY UartSizes, RemainderSmall
<1>2. QED BY <1>1, UartSizes

LEMMA UContent ==
  ASSUME rd \in 0 .. UartSize
  PROVE  /\ Uart!Content = RingSeq(fifo, UartSize, First, wr)
         /\ First \in 0 .. UartSize - 1
<1>1. rd % UartSize = First /\ First \in 0 .. UartSize - 1
  BY UFirst DEF First
<1>2. QED BY <1>1 DEF Uart!Content, RingSeq, Rem

LEMMA UContentNext ==
  ASSUME rd' \in 0 .. UartSize
  PROVE  /\ Uart!Content' = RingSeq(fifo', UartSize, First', wr')
         /\ First' \in 0 .. UartSize - 1
<1>1. rd' % UartSize = First' /\ First' \in 0 .. UartSize - 1
  BY UFirst DEF First
<1>2. QED BY <1>1 DEF Uart!Content, RingSeq, Rem

LEMMA UOrderIs == UTypes => (UOrder => Uart!InOrder)
  BY DEF UOrder, Uart!InOrder, Ascending, Uart!Garbage

\* A character that is later than all there are, or none.
Above(c, buf, last) ==
  c = 0 \/ (last < c /\ \A i \in 0 .. UartSize - 1 : buf[i] < c)

\* What uart_push() does to the ring, with its first place f and its next w.
LEMMA UStored ==
  ASSUME NEW buf \in [0 .. UartSize - 1 -> Nat], NEW last \in Nat, NEW c \in Nat,
         NEW f \in 0 .. UartSize - 1, NEW w \in 0 .. UartSize - 1,
         Ascending(RingSeq(buf, UartSize, f, w), last), Above(c, buf, last)
  PROVE  LET more == [buf EXCEPT ![w] = c]
             v == Rem(w + 1, UartSize)
         IN  /\ Ascending(RingSeq(more, UartSize, f, v), last)
             /\ f = 0 /\ v = f => Ascending(Whole(more, UartSize), last)
<1> DEFINE more == [buf EXCEPT ![w] = c]
           v == Rem(w + 1, UartSize)
           s == RingSeq(buf, UartSize, f, w)
<1>1. s \in Seq(Nat)
  BY UartSizes, RingContent
<1>2. c = 0 \/ (last < c /\ \A i \in 1 .. Len(s) : s[i] < c)
  <2>1. CASE c # 0
    <3> DEFINE S == {x \in Nat : x < c}
    <3>1. last < c /\ buf \in [0 .. UartSize - 1 -> S]
      BY <2>1 DEF Above
    <3> HIDE DEF S
    <3>2. s \in Seq(S)
      BY <3>1, UartSizes, RingContent
    <3> HIDE DEF s
    <3>3. \A i \in 1 .. Len(s) : s[i] \in S
      BY <3>2
    <3>4. QED BY <3>1, <3>3 DEF S
  <2>2. QED BY <2>1
<1>3. Ascending(Append(s, c), last)
  <2> HIDE DEF s
  <2>1. Ascending(s, last)
    BY DEF s
  <2>2. QED BY <1>1, <1>2, <2>1, AscendingAppend
<1>4. Ascending(RingSeq(more, UartSize, f, v), last)
  <2>1. CASE v = f
    <3>1. RingSeq(more, UartSize, f, v) = << >>
      BY <2>1, UartSizes, RingEmpty
    <3>2. QED BY <3>1 DEF Ascending
  <2>2. CASE v # f
    <3>1. RingPut(Nat, buf, more, UartSize, f, w, v, c)
      BY <2>2, UartSizes DEF RingPut
    <3> HIDE DEF more, v, s
    <3>2. RingSeq(more, UartSize, f, v) = Append(RingSeq(buf, UartSize, f, w), c)
      BY <3>1, RingAppend
    <3>3. QED BY <1>3, <3>2 DEF s
  <2>3. QED BY <2>1, <2>2
<1>5. ASSUME f = 0, v = f PROVE Ascending(Whole(more, UartSize), last)
  <2>1. w = UartSize - 1
    <3>1. v = IF w + 1 = UartSize THEN 0 ELSE w + 1
      BY UartSizes, RingNext
    <3>2. QED BY <1>5, <3>1, UartSizes
  <2>2. more \in [0 .. UartSize - 1 -> Nat] /\ more[UartSize - 1] = c
    BY <2>1
  <2>3. Whole(more, UartSize) = Append(RingSeq(more, UartSize, 0, UartSize - 1), c)
    BY <2>2, UartSizes, WholeIs
  <2>4. RingSeq(more, UartSize, 0, UartSize - 1) = s
    <3>1. \A i \in 1 .. Rem(w - f, UartSize) :
            more[Rem(f + i - 1, UartSize)] = buf[Rem(f + i - 1, UartSize)]
      <4>1. Rem(w - f, UartSize) = w
        <5>1. Rem(w - f, UartSize) = IF w < f THEN w - f + UartSize ELSE w - f
          BY UartSizes, RingIndices
        <5>2. QED BY <1>5, <5>1
      <4>2. ASSUME NEW i \in 1 .. w PROVE more[Rem(f + i - 1, UartSize)]
                                           = buf[Rem(f + i - 1, UartSize)]
        <5>1. i \in 1 .. UartSize /\ f + i - 1 < UartSize /\ f + i - 1 # w
              /\ f + i - 1 \in 0 .. UartSize - 1
          BY <1>5, <2>1, UartSizes
        <5>2. Rem(f + i - 1, UartSize) = IF f + i - 1 < UartSize THEN f + i - 1
                                         ELSE f + i - 1 - UartSize
          BY <5>1, UartSizes, RingIndices
        <5>3. QED BY <5>1, <5>2
      <4>3. QED BY <4>1, <4>2
    <3> HIDE DEF more
    <3>2. RingSeq(more, UartSize, f, w) = s
      BY <3>1, Zenon DEF RingSeq, s
    <3>3. QED BY <1>5, <2>1, <3>2
  <2>5. QED BY <1>3, <2>3, <2>4
<1>6. QED BY <1>4, <1>5

\* One call of uart_push() with the character that comes from the line.
UPushed == /\ Uart!Push(Uart!Received) /\ rxd' = Uart!Idle
           /\ UNCHANGED <<rd, started, uartGot>>

LEMMA UPushTypes ==
  ASSUME UTypes, UPushed
  PROVE  /\ Uart!Received \in 0 .. started /\ Above(Uart!Received, fifo, uartGot)
         /\ UBound' = started /\ UBound <= UBound'
         /\ fifo' \in [0 .. UartSize - 1 -> 0 .. UBound']
         /\ wr' \in 0 .. UartSize - 1 /\ First' = First
<1>1. /\ Uart!Received \in 0 .. started /\ Above(Uart!Received, fifo, uartGot)
      /\ UBound' = started /\ UBound <= started
  BY DEF UTypes, UBound, UPushed, Above, Uart!Received, Uart!Idle, Uart!Garbage
<1>2. First' = First
  BY DEF UPushed, First
<1>3. fifo \in [0 .. UartSize - 1 -> 0 .. started]
  BY <1>1 DEF UTypes
<1>4. CASE Uart!NotFull
  <2>1. fifo' = [fifo EXCEPT ![wr] = Uart!Received] /\ wr' = Rem(wr + 1, UartSize)
    BY <1>4 DEF UPushed, Uart!Push, Uart!After, Rem
  <2>2. wr' \in 0 .. UartSize - 1
    BY <2>1, UartSizes, RingNext DEF UTypes
  <2>3. QED BY <1>1, <1>2, <1>3, <2>1, <2>2
<1>5. CASE ~Uart!NotFull
  <2>1. fifo' = fifo /\ wr' = wr
    BY <1>5 DEF UPushed, Uart!Push
  <2>2. QED BY <1>1, <1>2, <1>3, <2>1 DEF UTypes
<1>6. QED BY <1>4, <1>5

LEMMA UPushOrder ==
  ASSUME UTypes, UOrder, UPushed, uartMain' # "read" \/ uartMain' = uartMain
  PROVE  UOrder'
<1>1. /\ rd \in 0 .. UartSize /\ wr \in 0 .. UartSize - 1 /\ uartGot \in Nat
      /\ fifo \in [0 .. UartSize - 1 -> Nat] /\ Uart!Received \in Nat
      /\ rd' = rd /\ uartGot' = uartGot /\ Above(Uart!Received, fifo, uartGot)
  BY UPushTypes DEF UTypes, UPushed
<1>2. Uart!Content = RingSeq(fifo, UartSize, First, wr) /\ First \in 0 .. UartSize - 1
  BY <1>1, UContent
<1>3. Uart!Content' = RingSeq(fifo', UartSize, First, wr') /\ First' = First
  BY <1>1, UContentNext, UPushTypes
<1>4. CASE Uart!NotFull
  <2>1. fifo' = [fifo EXCEPT ![wr] = Uart!Received] /\ wr' = Rem(wr + 1, UartSize)
        /\ rd # wr + 1
    BY <1>4 DEF UPushed, Uart!Push, Uart!After, Rem, Uart!NotFull
  <2>2. Ascending(RingSeq(fifo, UartSize, First, wr), uartGot)
    BY <1>2 DEF UOrder
  <2>3. /\ Ascending(Uart!Content', uartGot')
        /\ First = 0 /\ wr' = First => Ascending(Whole(fifo', UartSize), uartGot')
    BY <1>1, <1>2, <1>3, <2>1, <2>2, UStored
  <2>4. ASSUME uartMain' = "read", rd' = wr' PROVE rd = 0 /\ wr' = First
    <3>1. wr' = IF wr + 1 = UartSize THEN 0 ELSE wr + 1
      BY <1>1, <2>1, UartSizes, RingNext
    <3>2. rd = wr' /\ rd # wr + 1 /\ wr' < UartSize /\ UartSize \in Nat
      BY <1>1, <2>1, <2>4, <3>1, UartSizes
    <3>3. rd # UartSize /\ rd = 0
      BY <3>1, <3>2
    <3>4. QED BY <3>2, <3>3 DEF First
  <2>5. QED BY <1>1, <2>3, <2>4 DEF UOrder, First
<1>5. CASE ~Uart!NotFull
  <2>1. fifo' = fifo /\ wr' = wr
    BY <1>5 DEF UPushed, Uart!Push
  <2>2. Uart!Content' = Uart!Content
    BY <1>2, <1>3, <2>1
  <2>3. QED BY <1>1, <2>1, <2>2 DEF UOrder
<1>6. QED BY <1>4, <1>5

LEMMA UPushKept ==
  ASSUME UTypes, UPushed, rd # 0
  PROVE  \/ Len(Uart!Content) < UartSize - 1 /\ Len(Uart!Content') = Len(Uart!Content) + 1
         \/ Len(Uart!Content) = UartSize - 1 /\ Uart!Content' = Uart!Content
<1>1. /\ rd \in 1 .. UartSize /\ wr \in 0 .. UartSize - 1
      /\ fifo \in [0 .. UartSize - 1 -> Nat] /\ Uart!Received \in Nat /\ rd' = rd
      /\ UartSize \in Nat \ {0, 1}
  BY UPushTypes, UartSizes DEF UTypes, UPushed
<1>2. Uart!Content = RingSeq(fifo, UartSize, First, wr) /\ First \in 0 .. UartSize - 1
  BY <1>1, UContent
<1>3. Uart!Content' = RingSeq(fifo', UartSize, First, wr') /\ First' = First
  BY <1>1, UContentNext, UPushTypes
<1>4. Len(Uart!Content) = IF wr < First THEN wr - First + UartSize ELSE wr - First
  <2>1. Len(Uart!Content) = Rem(wr - First, UartSize)
    BY <1>1, <1>2, UartSizes, RingLength
  <2>2. Rem(wr - First, UartSize) = IF wr < First THEN wr - First + UartSize ELSE wr - First
    BY <1>1, <1>2, UartSizes, RingIndices
  <2>3. QED BY <2>1, <2>2
<1>5. CASE Uart!NotFull
  <2>1. fifo' = [fifo EXCEPT ![wr] = Uart!Received] /\ wr' = Rem(wr + 1, UartSize)
        /\ rd # wr + 1
    BY <1>5 DEF UPushed, Uart!Push, Uart!After, Rem, Uart!NotFull
  <2>2. wr' = IF wr + 1 = UartSize THEN 0 ELSE wr + 1
    BY <1>1, <2>1, UartSizes, RingNext
  <2>3. wr' # First /\ Len(Uart!Content) < UartSize - 1
    BY <1>1, <1>4, <2>1, <2>2, SMTT(40) DEF First
  <2>4. Uart!Content' = Append(Uart!Content, Uart!Received)
    <3>1. RingPut(Nat, fifo, fifo', UartSize, First, wr, wr', Uart!Received)
      BY <1>1, <1>2, <2>1, <2>3 DEF RingPut
    <3>2. RingSeq(fifo', UartSize, First, wr')
            = Append(RingSeq(fifo, UartSize, First, wr), Uart!Received)
      BY <3>1, RingAppend
    <3>3. QED BY <1>2, <1>3, <3>2
  <2>5. Uart!Content \in Seq(Nat)
    BY <1>1, <1>2, UartSizes, RingContent
  <2>6. Len(Uart!Content') = Len(Uart!Content) + 1
    BY <1>1, <2>4, <2>5
  <2>7. QED BY <2>3, <2>6
<1>6. CASE ~Uart!NotFull
  <2>1. fifo' = fifo /\ wr' = wr /\ rd = wr + 1
    BY <1>6, <1>1 DEF UPushed, Uart!Push, Uart!NotFull
  <2>2. Uart!Content' = Uart!Content
    BY <1>2, <1>3, <2>1
  <2>3. Len(Uart!Content) = UartSize - 1
    BY <1>1, <1>4, <2>1 DEF First
  <2>4. QED BY <2>2, <2>3
<1>7. QED BY <1>5, <1>6

\* The steps that leave the ring alone and do not come to the read.
LEMMA UStill ==
  ASSUME UTypes, UOrder, UNCHANGED <<fifo, rd, wr, uartGot>>,
         uartMain' # "read" \/ uartMain' = uartMain \/ rd # wr
  PROVE  UOrder'
<1>1. rd \in 0 .. UartSize /\ rd' = rd /\ wr' = wr /\ fifo' = fifo /\ uartGot' = uartGot
  BY DEF UTypes
<1>2. Uart!Content' = Uart!Content
  BY <1>1 DEF Uart!Content
<1>3. QED BY <1>1, <1>2 DEF UOrder

LEMMA UReadStep ==
  ASSUME UTypes, UOrder, Uart!GetRead
  PROVE  /\ uartGot' \in 0 .. UBound' /\ rd' \in 0 .. UartSize /\ uartMain' = "mask"
         /\ UOrder'
<1>1. /\ rd \in 0 .. UartSize - 1 /\ wr \in 0 .. UartSize - 1 /\ uartGot \in Nat
      /\ fifo \in [0 .. UartSize - 1 -> Nat] /\ First = rd /\ UartSize \in Nat \ {0, 1}
      /\ uartMain = "read" /\ uartMain' = "mask" /\ rd' = rd + 1 /\ wr' = wr /\ fifo' = fifo
      /\ uartGot' = IF fifo[rd] = 0 THEN uartGot ELSE fifo[rd]
  BY UartSizes DEF UTypes, Uart!GetRead, Uart!Main, Uart!Place, Uart!Garbage, First
<1>2. UBound' = UBound /\ uartGot' \in 0 .. UBound
  BY <1>1 DEF UTypes, Uart!GetRead, UBound
<1>3. Uart!Content = RingSeq(fifo, UartSize, rd, wr)
  BY <1>1, UContent
<1>4. Uart!Content' = RingSeq(fifo, UartSize, Rem(rd + 1, UartSize), wr)
  <2>1. rd' \in 0 .. UartSize
    BY <1>1
  <2>2. Rem(rd + 1, UartSize) = IF rd + 1 = UartSize THEN 0 ELSE rd + 1
    BY <1>1, UartSizes, RingNext
  <2>3. First' = Rem(rd + 1, UartSize)
    BY <1>1, <2>2 DEF First
  <2>4. QED BY <1>1, <2>1, <2>3, UContentNext
<1>5. Ascending(Uart!Content', uartGot')
  <2>1. CASE rd # wr
    <3> DEFINE s == RingSeq(fifo, UartSize, rd, wr)
    <3>1. s # << >> /\ Head(s) = fifo[rd] /\ Uart!Content' = Tail(s)
      <4>1. RingHas(Nat, fifo, UartSize, rd, wr)
        BY <1>1, <2>1 DEF RingHas
      <4>2. s # << >> /\ Head(s) = fifo[rd]
            /\ RingSeq(fifo, UartSize, Rem(rd + 1, UartSize), wr) = Tail(s)
        BY <4>1, RingFirst
      <4>3. QED BY <1>4, <4>2
    <3>2. s \in Seq(Nat)
      BY <1>1, UartSizes, RingContent
    <3>3. Ascending(s, uartGot)
      BY <1>3 DEF UOrder
    <3> HIDE DEF s
    <3>4. Ascending(Tail(s), IF Head(s) = 0 THEN uartGot ELSE Head(s))
      BY <1>1, <3>1, <3>2, <3>3, AscendingTail
    <3>5. QED BY <1>1, <3>1, <3>4
  <2>2. CASE rd = wr
    <3> DEFINE s == Whole(fifo, UartSize)
    <3>1. rd = 0 /\ Ascending(s, uartGot)
      BY <1>1, <2>2 DEF UOrder
    <3>2. /\ s \in Seq(Nat) /\ s # << >> /\ Head(s) = fifo[0]
          /\ Tail(s) = RingSeq(fifo, UartSize, 1, 0)
      BY <1>1, UartSizes, WholeIs
    <3>3. Rem(rd + 1, UartSize) = 1
      <4>1. Rem(rd + 1, UartSize) = IF rd + 1 = UartSize THEN 0 ELSE rd + 1
        BY <1>1, UartSizes, RingNext
      <4>2. QED BY <1>1, <3>1, <4>1
    <3>4. Uart!Content' = Tail(s)
      BY <1>1, <1>4, <2>2, <3>1, <3>2, <3>3
    <3> HIDE DEF s
    <3>5. Ascending(Tail(s), IF Head(s) = 0 THEN uartGot ELSE Head(s))
      BY <1>1, <3>1, <3>2, AscendingTail
    <3>6. QED BY <1>1, <3>1, <3>2, <3>4, <3>5
  <2>3. QED BY <2>1, <2>2
<1>6. QED BY <1>1, <1>2, <1>5 DEF UOrder

LEMMA UMaskStep ==
  ASSUME UTypes, UOrder, Uart!GetMask
  PROVE  rd' \in 0 .. UartSize - 1 /\ uartMain' = "idle" /\ UOrder'
<1>1. /\ rd \in 0 .. UartSize /\ uartMain' = "idle" /\ rd' = rd % UartSize
      /\ wr' = wr /\ fifo' = fifo /\ uartGot' = uartGot
  BY DEF UTypes, Uart!GetMask, Uart!Main
<1>2. rd' = First /\ First \in 0 .. UartSize - 1
  BY <1>1, UFirst DEF First
<1>3. First' = First
  BY <1>2, UartSizes DEF First
<1>4. Uart!Content' = Uart!Content
  <2>1. rd' \in 0 .. UartSize
    BY <1>2, UartSizes
  <2>2. QED BY <1>1, <1>3, <2>1, UContent, UContentNext
<1>5. QED BY <1>1, <1>2, <1>4 DEF UOrder

LEMMA UDisabledStep ==
  ASSUME UDisabled, [Uart!Next]_Uart!vars
  PROVE  UDisabled'
<1>1. CASE Uart!HostStart \/ Uart!Pass \/ Uart!Receive
  <2>1. /\ UNCHANGED <<enabled, uartMain>>
        /\ handler' = handler \/ (handler = "receive" /\ handler' = "end")
    BY <1>1 DEF Uart!HostStart, Uart!Pass, Uart!Receive
  <2>2. QED BY <2>1 DEF UDisabled
<1>2. CASE Uart!Isr
  BY <1>2 DEF UDisabled, Uart!Isr
<1>3. CASE Uart!End
  BY <1>3 DEF UDisabled, Uart!End
<1>4. CASE Uart!PutDisable
  BY <1>4 DEF UDisabled, Uart!PutDisable, Uart!Main
<1>5. CASE Uart!PutSend
  BY <1>5 DEF UDisabled, Uart!PutSend, Uart!Main
<1>6. CASE Uart!PutReset
  BY <1>6 DEF UDisabled, Uart!PutReset, Uart!Main
<1>7. CASE Uart!PutEnable
  BY <1>7 DEF UDisabled, Uart!PutEnable, Uart!Main
<1>8. CASE Uart!PutLook
  BY <1>8 DEF UDisabled, Uart!PutLook, Uart!Main
<1>9. CASE Uart!PutInt
  BY <1>9 DEF UDisabled, Uart!PutInt, Uart!Main
<1>10. CASE Uart!GetTest
  BY <1>10 DEF UDisabled, Uart!GetTest, Uart!Main
<1>11. CASE Uart!GetRead
  BY <1>11 DEF UDisabled, Uart!GetRead, Uart!Main
<1>12. CASE Uart!GetMask
  BY <1>12 DEF UDisabled, Uart!GetMask, Uart!Main
<1>13. CASE UNCHANGED Uart!vars
  BY <1>13 DEF UDisabled, Uart!vars
<1>14. QED
  BY <1>1, <1>2, <1>3, <1>4, <1>5, <1>6, <1>7, <1>8, <1>9, <1>10, <1>11, <1>12,
     <1>13 DEF Uart!Next

LEMMA UInitInv == Uart!Init => UInv
<1> SUFFICES ASSUME Uart!Init PROVE UInv
  OBVIOUS
<1>1. UTypes
  BY UartSizes DEF Uart!Init, UTypes, UBound, Uart!Idle, Uart!Garbage
<1>2. UOrder
  <2>1. Uart!Content = RingSeq(fifo, UartSize, First, wr) /\ First = 0 /\ wr = 0
        /\ uartMain = "idle"
    BY <1>1, UartSizes, UContent DEF UTypes, Uart!Init, First
  <2>2. RingSeq(fifo, UartSize, 0, 0) = << >>
    BY UartSizes, RingEmpty
  <2>3. QED BY <2>1, <2>2 DEF UOrder, Ascending
<1>3. UDisabled
  BY DEF Uart!Init, UDisabled
<1>4. QED BY <1>1, <1>2, <1>3 DEF UInv

\* What a step that leaves the ring and the line alone keeps of the types.
LEMMA UTypesStill ==
  ASSUME UTypes, UNCHANGED <<fifo, wr, started, pushed, uartGot>>,
         UBound' \in Nat, UBound <= UBound',
         rxd'.part \in {"idle", "start", "rest"},
         rxd'.part = "start" => rxd'.char = started',
         rd' \in 0 .. UartSize, rd' = UartSize => uartMain' = "mask",
         uartMain' \in {"idle", "send", "reset", "enable", "look", "int", "read", "mask"},
         handler' \in {"none", "receive", "end"}
  PROVE  UTypes'
<1>1. fifo' \in [0 .. UartSize - 1 -> 0 .. UBound'] /\ uartGot' \in 0 .. UBound'
  <2>1. UBound \in Nat /\ fifo \in [0 .. UartSize - 1 -> 0 .. UBound]
        /\ uartGot \in 0 .. UBound /\ fifo' = fifo /\ uartGot' = uartGot
    BY DEF UTypes
  <2>2. \A x \in 0 .. UBound : x \in 0 .. UBound'
    BY <2>1
  <2>3. QED BY <2>1, <2>2
<1>2. QED BY <1>1 DEF UTypes

\* Every step is a step of uart_push(), of con_getchar(), or leaves the ring.
LEMMA UNextInv ==
  ASSUME UInv, [Uart!Next]_Uart!vars
  PROVE  UInv'
<1> USE DEF UInv
<1>0. UDisabled'
  BY UDisabledStep
<1>1. UTypes /\ UOrder
  OBVIOUS
<1>2. ASSUME UPushed, handler' \in {"none", "receive", "end"},
             \/ uartMain' = uartMain
             \/ uartMain = "send" /\ uartMain' = "reset"
      PROVE  UInv'
  <2>1. UOrder'
    BY <1>1, <1>2, UPushOrder
  <2>2. UTypes'
    <3>1. /\ UBound' = started /\ UBound <= started /\ wr' \in 0 .. UartSize - 1
          /\ fifo' \in [0 .. UartSize - 1 -> 0 .. UBound']
      BY <1>1, <1>2, UPushTypes
    <3>2. /\ started' = started /\ rd' = rd /\ uartGot' = uartGot
          /\ rxd'.part = "idle" /\ pushed' = pushed + 1
      BY <1>2 DEF UPushed, Uart!Push, Uart!Idle
    <3>3. rd' \in 0 .. UartSize /\ (rd' = UartSize => uartMain' = "mask")
          /\ uartMain' \in {"idle", "send", "reset", "enable", "look", "int", "read", "mask"}
      BY <1>1, <1>2, <3>2 DEF UTypes
    <3>4. uartGot' \in 0 .. UBound' /\ UBound' \in Nat /\ started' \in Nat /\ pushed' \in Nat
      BY <1>1, <3>1, <3>2 DEF UTypes
    <3>5. QED BY <1>2, <3>1, <3>2, <3>3, <3>4 DEF UTypes
  <2>3. QED BY <1>0, <2>1, <2>2
<1>3. ASSUME UNCHANGED <<fifo, rd, wr, rxd, started, pushed, uartGot>>,
             handler' \in {"none", "receive", "end"},
             \/ uartMain' = uartMain
             \/ rd # UartSize /\ rd # wr /\ uartMain' = "read"
             \/ rd # UartSize
                /\ uartMain' \in {"idle", "send", "reset", "enable", "look", "int"}
      PROVE  UInv'
  <2>1. UOrder'
    BY <1>1, <1>3, UStill
  <2>2. UBound' = UBound /\ UBound \in Nat
    BY <1>1, <1>3 DEF UTypes, UBound
  <2>3. rd' \in 0 .. UartSize /\ (rd' = UartSize => uartMain' = "mask")
        /\ uartMain' \in {"idle", "send", "reset", "enable", "look", "int", "read", "mask"}
    BY <1>1, <1>3 DEF UTypes
  <2>4. rxd'.part \in {"idle", "start", "rest"} /\ (rxd'.part = "start" => rxd'.char = started')
    BY <1>1, <1>3 DEF UTypes
  <2>5. UTypes'
    BY <1>1, <1>3, <2>2, <2>3, <2>4, UTypesStill
  <2>6. QED BY <1>0, <2>1, <2>5
<1>4. CASE Uart!HostStart \/ Uart!Pass
  <2>1. UNCHANGED <<fifo, rd, wr, uartMain, handler, pushed, uartGot>>
    BY <1>4 DEF Uart!HostStart, Uart!Pass, Uart!ring
  <2>2. UOrder'
    BY <1>1, <2>1, UStill
  <2>3. /\ UBound' \in Nat /\ UBound <= UBound' /\ started' \in Nat
        /\ rxd'.part \in {"idle", "start", "rest"}
        /\ rxd'.part = "start" => rxd'.char = started'
    <3>1. CASE Uart!HostStart
      <4>1. /\ rxd.part = "idle" /\ started' = started + 1
            /\ rxd' = [part |-> IF handler = "receive" THEN "rest" ELSE "start",
                       char |-> started + 1]
        BY <3>1 DEF Uart!HostStart
      <4>2. started \in Nat /\ UBound = started
        BY <1>1, <4>1 DEF UTypes, UBound
      <4>3. rxd'.char = started + 1 /\ rxd'.part = (IF handler = "receive" THEN "rest" ELSE "start")
        BY <4>1
      <4>4. UBound' = IF handler = "receive" THEN started + 1 ELSE started
        BY <4>1, <4>2, <4>3 DEF UBound
      <4>5. QED BY <4>1, <4>2, <4>3, <4>4
    <3>2. CASE Uart!Pass
      <4>1. /\ rxd.part # "idle" /\ started' = started
            /\ rxd' = IF rxd.part = "start" THEN [rxd EXCEPT !.part = "rest"] ELSE Uart!Idle
        BY <3>2 DEF Uart!Pass
      <4>2. rxd'.part \in {"idle", "rest"}
        BY <4>1 DEF Uart!Idle
      <4>3. QED BY <1>1, <4>1, <4>2 DEF UTypes, UBound
    <3>3. QED BY <1>4, <3>1, <3>2
  <2>4. UTypes'
    <3>1. fifo' \in [0 .. UartSize - 1 -> 0 .. UBound'] /\ uartGot' \in 0 .. UBound'
      <4>1. UBound \in Nat /\ fifo \in [0 .. UartSize - 1 -> 0 .. UBound]
            /\ uartGot \in 0 .. UBound
        BY <1>1 DEF UTypes
      <4>2. \A x \in 0 .. UBound : x \in 0 .. UBound'
        BY <2>3, <4>1
      <4>3. QED BY <2>1, <4>1, <4>2
    <3>2. QED BY <1>1, <2>1, <2>3, <3>1 DEF UTypes
  <2>5. QED BY <1>0, <2>2, <2>4
<1>5. CASE Uart!Receive
  BY <1>2, <1>5 DEF Uart!Receive, UPushed
<1>6. CASE Uart!PutSend
  <2>1. CASE UPushed
    BY <1>2, <1>6, <2>1, <1>1 DEF Uart!PutSend, Uart!Main, UTypes
  <2>2. CASE UNCHANGED <<fifo, wr, pushed, rxd>>
    BY <1>1, <1>3, <1>6, <2>2 DEF Uart!PutSend, Uart!Main, UTypes
  <2>3. UPushed \/ UNCHANGED <<fifo, wr, pushed, rxd>>
    BY <1>6 DEF Uart!PutSend, UPushed
  <2>4. QED BY <2>1, <2>2, <2>3
<1>7. CASE Uart!Isr \/ Uart!End
  BY <1>3, <1>7 DEF Uart!Isr, Uart!End, Uart!ring
<1>8. CASE Uart!PutDisable \/ Uart!PutReset \/ Uart!PutEnable
  BY <1>1, <1>3, <1>8 DEF Uart!PutDisable, Uart!PutReset, Uart!PutEnable, Uart!Main, Uart!ring, UTypes
<1>9. CASE Uart!PutLook
  <2>1. uartMain = "look" /\ uartMain' \in {"int", "idle"}
        /\ UNCHANGED <<fifo, rd, wr, handler, rxd, started, pushed, uartGot>>
    BY <1>9 DEF Uart!PutLook, Uart!Main, Uart!ring
  <2>2. QED BY <1>1, <1>3, <2>1 DEF UTypes
<1>10. CASE Uart!PutInt \/ Uart!GetTest
  BY <1>1, <1>3, <1>10 DEF Uart!PutInt, Uart!GetTest, Uart!Main, Uart!ring, UTypes
<1>11. CASE Uart!GetRead
  <2>1. /\ uartGot' \in 0 .. UBound' /\ rd' \in 0 .. UartSize /\ uartMain' = "mask"
        /\ UOrder'
    BY <1>1, <1>11, UReadStep
  <2>2. UBound' = UBound /\ UNCHANGED <<fifo, wr, handler, rxd, started, pushed>>
    BY <1>11 DEF Uart!GetRead, UBound
  <2>3. UTypes'
    BY <1>1, <2>1, <2>2 DEF UTypes
  <2>4. QED BY <1>0, <2>1, <2>3
<1>12. CASE Uart!GetMask
  <2>1. rd' \in 0 .. UartSize - 1 /\ uartMain' = "idle" /\ UOrder'
    BY <1>1, <1>12, UMaskStep
  <2>2. UBound' = UBound /\ UNCHANGED <<fifo, wr, handler, rxd, started, pushed, uartGot>>
    BY <1>12 DEF Uart!GetMask, UBound
  <2>3. UTypes'
    BY <1>1, <2>1, <2>2, UartSizes DEF UTypes
  <2>4. QED BY <1>0, <2>1, <2>3
<1>13. CASE UNCHANGED Uart!vars
  BY <1>1, <1>3, <1>13 DEF Uart!vars, Uart!ring, UTypes
<1>14. QED
  BY <1>4, <1>5, <1>6, <1>7, <1>8, <1>9, <1>10, <1>11, <1>12, <1>13 DEF Uart!Next

LEMMA UInvIs == UInv => Uart!TypeOK /\ Uart!InOrder
<1> SUFFICES ASSUME UInv PROVE Uart!TypeOK /\ Uart!InOrder
  OBVIOUS
<1>1. UTypes /\ UOrder /\ UDisabled
  BY DEF UInv
<1>2. fifo \in [0 .. UartSize - 1 -> 0 .. started] /\ uartGot \in 0 .. started
  <2>1. UBound \in Nat /\ started \in Nat /\ UBound <= started
        /\ fifo \in [0 .. UartSize - 1 -> 0 .. UBound] /\ uartGot \in 0 .. UBound
    BY <1>1 DEF UTypes, UBound
  <2>2. \A x \in 0 .. UBound : x \in 0 .. started
    BY <2>1
  <2>3. QED BY <2>1, <2>2
<1>3. ~enabled <=> handler # "none" \/ uartMain \in {"send", "reset", "enable"}
  BY <1>1 DEF UDisabled
<1>4. QED BY <1>1, <1>2, <1>3, UOrderIs DEF UTypes, Uart!TypeOK

LEMMA UartPushKept ==
  ASSUME UInv, [Uart!Next]_Uart!vars, pushed' # pushed, rd # 0
  PROVE  \/ Len(Uart!Content) < UartSize - 1 /\ Len(Uart!Content') = Len(Uart!Content) + 1
         \/ Len(Uart!Content) = UartSize - 1 /\ Uart!Content' = Uart!Content
<1>1. UPushed
  <2>1. CASE Uart!HostStart \/ Uart!Pass \/ Uart!Isr \/ Uart!End
    BY <2>1 DEF Uart!HostStart, Uart!Pass, Uart!Isr, Uart!End
  <2>2. CASE Uart!Receive
    BY <2>2 DEF Uart!Receive, UPushed
  <2>3. CASE Uart!PutDisable \/ Uart!PutReset \/ Uart!PutEnable \/ Uart!PutLook \/ Uart!PutInt
    BY <2>3 DEF Uart!PutDisable, Uart!PutReset, Uart!PutEnable, Uart!PutLook, Uart!PutInt
  <2>4. CASE Uart!PutSend
    BY <2>4 DEF Uart!PutSend, UPushed
  <2>5. CASE Uart!GetTest \/ Uart!GetRead \/ Uart!GetMask
    BY <2>5 DEF Uart!GetTest, Uart!GetRead, Uart!GetMask
  <2>6. CASE UNCHANGED Uart!vars
    BY <2>6 DEF Uart!vars
  <2>7. QED BY <2>1, <2>2, <2>3, <2>4, <2>5, <2>6 DEF Uart!Next
<1>2. QED BY <1>1, UPushKept DEF UInv
-----------------------------------------------------------------------------
(* con_avr_cdc.c.                                                           *)

\* The n characters that follow the first a.
Run(a, n) == [i \in 1 .. n |-> a + i]

LEMMA RunIs ==
  ASSUME NEW a \in Nat, NEW n \in Nat
  PROVE  /\ Run(a, n) \in Seq(Nat) /\ Len(Run(a, n)) = n
         /\ \A i \in 1 .. n : Run(a, n)[i] = a + i
  BY IsASeq DEF Run

LEMMA RunAppend ==
  ASSUME NEW a \in Nat, NEW n \in Nat
  PROVE  Append(Run(a, n), a + n + 1) = Run(a, n + 1)
<1>1. /\ Run(a, n) \in Seq(Nat) /\ Len(Run(a, n)) = n
      /\ \A i \in 1 .. n : Run(a, n)[i] = a + i
  BY RunIs
<1>2. /\ Run(a, n + 1) \in Seq(Nat) /\ Len(Run(a, n + 1)) = n + 1
      /\ \A i \in 1 .. n + 1 : Run(a, n + 1)[i] = a + i
  BY RunIs
<1>3. Append(Run(a, n), a + n + 1) \in Seq(Nat) /\ Len(Append(Run(a, n), a + n + 1)) = n + 1
  BY <1>1
<1>4. \A i \in 1 .. n + 1 : Append(Run(a, n), a + n + 1)[i] = a + i
  BY <1>1
<1>5. Append(Run(a, n), a + n + 1) = Run(a, n + 1)
  <2> DEFINE s == Append(Run(a, n), a + n + 1)
             t == Run(a, n + 1)
             m == n + 1
  <2>1. s \in Seq(Nat) /\ t \in Seq(Nat) /\ Len(s) = m /\ Len(t) = m /\ m \in Nat
    BY <1>2, <1>3
  <2>2. \A i \in 1 .. m : s[i] = t[i]
    BY <1>2, <1>4
  <2> HIDE DEF s, t, m
  <2>3. s = t
    BY <2>1, <2>2, SeqEqual
  <2>4. QED BY <2>3 DEF s, t
<1>6. QED BY <1>5

\* When the first of two parts has gone, the other one is the rest.
LEMMA RunRest ==
  ASSUME NEW a \in Nat, NEW n \in Nat, NEW c \in Seq(Nat), NEW s \in Seq(Nat),
         c \o s = Run(a, n)
  PROVE  Len(c) <= n /\ s = Run(a + Len(c), n - Len(c))
<1>1. /\ Run(a, n) \in Seq(Nat) /\ Len(Run(a, n)) = n
      /\ \A i \in 1 .. n : Run(a, n)[i] = a + i
  BY RunIs
<1>2. /\ Len(c \o s) = Len(c) + Len(s)
      /\ \A i \in 1 .. Len(c) + Len(s) :
           (c \o s)[i] = IF i <= Len(c) THEN c[i] ELSE s[i - Len(c)]
  BY ConcatIs
<1>3. Len(c) \in Nat /\ Len(s) \in Nat /\ a + Len(c) \in Nat /\ Len(c) + Len(s) = n
  <2>1. Len(c \o s) = n
    BY <1>1, Zenon
  <2>2. Len(c) \in Nat /\ Len(s) \in Nat
    OBVIOUS
  <2>3. Len(c) + Len(s) = n
    BY <1>2, <2>1, Zenon
  <2>4. QED BY <2>2, <2>3
<1>4. /\ Run(a + Len(c), Len(s)) \in Seq(Nat) /\ Len(Run(a + Len(c), Len(s))) = Len(s)
      /\ \A i \in 1 .. Len(s) : Run(a + Len(c), Len(s))[i] = a + Len(c) + i
  BY <1>3, RunIs
<1>5. ASSUME NEW i \in 1 .. Len(s) PROVE s[i] = a + Len(c) + i
  <2> DEFINE k == Len(c) + i
  <2>1. k \in 1 .. n /\ k \in 1 .. Len(c) + Len(s) /\ ~(k <= Len(c)) /\ k - Len(c) = i
        /\ a + k = a + Len(c) + i
    BY <1>3
  <2> HIDE DEF k
  <2>2. Run(a, n)[k] = a + k /\ (c \o s)[k] = s[k - Len(c)]
    BY <1>1, <1>2, <2>1
  <2>3. QED BY <2>1, <2>2
<1>6. s = Run(a + Len(c), Len(s))
  BY <1>4, <1>5, SeqEqual
<1>7. QED BY <1>3, <1>6

\* The characters of s rise, from beyond the last one.
Rising(s, last) ==
  \A i \in 1 .. Len(s) : s[i] > (IF i = 1 THEN last ELSE s[i - 1])

LEMMA RisingTail ==
  ASSUME NEW s \in Seq(Nat), s # << >>, NEW last \in Nat, Rising(s, last)
  PROVE  Rising(Tail(s), Head(s))
<1> DEFINE u == Tail(s)
<1>1. /\ Len(s) \in Nat \ {0} /\ u \in Seq(Nat) /\ Len(u) = Len(s) - 1 /\ Head(s) = s[1]
      /\ \A i \in 1 .. Len(u) : u[i] = s[i + 1]
  OBVIOUS
<1> HIDE DEF u
<1>2. SUFFICES ASSUME NEW i \in 1 .. Len(u)
               PROVE  u[i] > (IF i = 1 THEN s[1] ELSE u[i - 1])
  BY <1>1 DEF Rising, u
<1> DEFINE k == i + 1
<1>3. k \in 1 .. Len(s) /\ k # 1 /\ k - 1 = i /\ u[i] = s[k]
  BY <1>1
<1> HIDE DEF k
<1>4. s[k] > s[i]
  BY <1>3 DEF Rising
<1>5. i # 1 => i - 1 \in 1 .. Len(u) /\ (i - 1) + 1 = i
  BY <1>1
<1>6. i # 1 => u[i - 1] = s[i]
  BY <1>1, <1>5
<1>7. QED BY <1>3, <1>4, <1>6

\* Characters that are later than all those in s may follow them.
LEMMA RisingConcat ==
  ASSUME NEW a \in Nat, NEW s \in Seq(0 .. a), NEW last \in 0 .. a, Rising(s, last),
         NEW b \in Nat, a <= b, NEW n \in Nat
  PROVE  s \o Run(b, n) \in Seq(0 .. b + n) /\ Rising(s \o Run(b, n), last)
<1> DEFINE u == Run(b, n)
           c == s \o u
<1>1. u \in Seq(Nat) /\ Len(u) = n /\ \A i \in 1 .. n : u[i] = b + i
  BY RunIs
<1>2. s \in Seq(Nat) /\ Len(s) \in Nat /\ \A i \in 1 .. Len(s) : s[i] \in 0 .. a
  <2>1. \A i \in 1 .. Len(s) : s[i] \in 0 .. a
    OBVIOUS
  <2>2. \A i \in 1 .. Len(s) : s[i] \in Nat
    BY <2>1
  <2>3. s = [i \in 1 .. Len(s) |-> s[i]] /\ Len(s) \in Nat
    OBVIOUS
  <2>4. s \in Seq(Nat)
    BY <2>2, <2>3, IsSeqOver
  <2>5. QED BY <2>1, <2>3, <2>4
<1> HIDE DEF u
<1>3. /\ c \in Seq(Nat) /\ Len(c) = Len(s) + n
      /\ \A i \in 1 .. Len(s) + n : c[i] = IF i <= Len(s) THEN s[i] ELSE u[i - Len(s)]
  BY <1>1, <1>2, ConcatIs
<1> HIDE DEF c
<1>4. \A i \in 1 .. Len(s) : c[i] = s[i]
  BY <1>1, <1>2, <1>3, SMTT(40)
<1>5. ASSUME NEW i \in Len(s) + 1 .. Len(s) + n PROVE c[i] = b + (i - Len(s))
  <2>1. i - Len(s) \in 1 .. n /\ i \in 1 .. Len(s) + n /\ ~(i <= Len(s))
    BY <1>2
  <2>2. QED BY <1>1, <1>3, <2>1
<1>6. c \in Seq(0 .. b + n)
  <2>1. ASSUME NEW i \in 1 .. Len(s) + n PROVE c[i] \in 0 .. b + n
    <3>1. CASE i <= Len(s)
      <4>1. i \in 1 .. Len(s)
        BY <1>2, <3>1
      <4>2. QED BY <1>2, <1>4, <4>1
    <3>2. CASE i > Len(s)
      <4>1. i \in Len(s) + 1 .. Len(s) + n
        BY <1>2, <3>2
      <4>2. QED BY <1>2, <1>5, <4>1
    <3>3. QED BY <1>2, <3>1, <3>2
  <2>2. c = [i \in 1 .. Len(s) + n |-> c[i]] /\ Len(s) + n \in Nat
    BY <1>2, <1>3
  <2>3. QED BY <2>1, <2>2, IsSeqOver
<1>7. Rising(c, last)
  <2>1. SUFFICES ASSUME NEW i \in 1 .. Len(s) + n
                 PROVE  c[i] > (IF i = 1 THEN last ELSE c[i - 1])
    BY <1>3 DEF Rising
  <2>2. CASE i <= Len(s)
    <3>1. i \in 1 .. Len(s) /\ (i # 1 => i - 1 \in 1 .. Len(s))
      BY <1>2, <2>2
    <3>2. s[i] > (IF i = 1 THEN last ELSE s[i - 1])
      BY <3>1 DEF Rising
    <3>3. QED BY <1>4, <3>1, <3>2
  <2>3. CASE i = Len(s) + 1
    <3>1. i \in Len(s) + 1 .. Len(s) + n /\ (i # 1 => i - 1 \in 1 .. Len(s))
      BY <1>2, <2>3
    <3>2. c[i] = b + 1
      BY <1>2, <1>5, <2>3, <3>1, SMTT(40)
    <3>3. i # 1 => c[i - 1] \in 0 .. a
      BY <1>2, <1>4, <3>1
    <3>4. QED BY <3>2, <3>3
  <2>4. CASE i > Len(s) + 1
    <3>1. i \in Len(s) + 1 .. Len(s) + n /\ i - 1 \in Len(s) + 1 .. Len(s) + n /\ i # 1
      BY <1>2, <2>4
    <3>2. c[i] = b + (i - Len(s)) /\ c[i - 1] = b + ((i - 1) - Len(s))
      BY <1>5, <3>1
    <3>3. QED BY <1>2, <3>1, <3>2
  <2>5. QED BY <1>2, <2>2, <2>3, <2>4
<1>8. QED BY <1>6, <1>7 DEF c, u

TxContent == RingSeq(tx.buf, TxSize, tx.rd, tx.wr)
RxContent == RingSeq(rx.buf, RxSize, rx.rd, rx.wr)
\* How many of the host's characters have come out of the endpoint.
Arrived == cdcSent - Len(out)

CControl ==
  /\ state \in {"not_ready", "ready", "error"}
  /\ main \in {"init", "run", "publish", "enable", "take"}
  /\ isr.stage \in {"none", "send", "data", "address"} /\ isr.left \in 0 .. 255
  /\ setup \in Requests \cup {Cdc!None} /\ resets \in Nat

CTxTypes ==
  /\ tx \in [buf : [0 .. TxSize - 1 -> Nat], wr : 0 .. TxSize - 1, rd : 0 .. TxSize - 1]
  /\ put \in 0 .. CdcPuts /\ cdcTaken \in 0 .. put /\ bank \in Seq(Nat)

\* What was put and is not yet gone is in the bank and then in the ring; the
\* character stored and not yet published has its place.
CTxOrder ==
  /\ bank \o TxContent = Run(cdcTaken, put - cdcTaken)
  /\ main = "publish" => /\ put < CdcPuts /\ tx.buf[tx.wr] = put + 1
                         /\ Rem(tx.wr + 1, TxSize) # tx.rd
CBank == txini => bank = << >>

CRxTypes ==
  /\ rx \in [buf : [0 .. RxSize - 1 -> Nat], wr : 0 .. RxSize - 1, rd : 0 .. RxSize - 1]
  /\ cdcSent \in 0 .. CdcChars /\ out \in Seq(Nat) /\ Arrived \in Nat

\* What waits in the endpoint is later than all that has come out of it.
CRxOrder ==
  /\ out = Run(Arrived, Len(out))
  /\ got \in 0 .. Arrived /\ RxContent \in Seq(0 .. Arrived)
  /\ IF main = "take"
     THEN RxContent # << >> /\ Head(RxContent) = got /\ Rising(Tail(RxContent), got)
     ELSE Rising(RxContent, got)

CTx == CTxTypes /\ CTxOrder
CRx == CRxTypes /\ CRxOrder
CInv == CControl /\ CTx /\ CBank /\ CRx

LEMMA CdcSizes ==
  /\ TxSize \in Nat \ {0, 1} /\ TxSize \in Nat \ {0}
  /\ RxSize \in Nat \ {0, 1} /\ RxSize \in Nat \ {0}
  /\ Packet \in Nat \ {0} /\ CdcPuts \in Nat /\ CdcChars \in Nat /\ MaxResets \in Nat
<1>1. /\ {TxSize, RxSize} \subseteq Nat \ {0, 1} /\ {Packet, MaxPacket} \subseteq Nat \ {0}
      /\ {CdcPuts, CdcChars, MaxSetups, MaxResets} \subseteq Nat
  BY RingsAssumption, Zenon DEF Cdc!CdcAssumption
<1>2. QED BY <1>1

LEMMA CContent ==
  ASSUME NEW ring, NEW cap
  PROVE  Cdc!Content(ring, cap) = RingSeq(ring.buf, cap, ring.rd, ring.wr)
  BY DEF Cdc!Content, RingSeq, Rem

LEMMA CReply ==
  ASSUME NEW r \in Requests, r.kind = "descriptor"
  PROVE  Cdc!Reply(r) \in 0 .. 255
<1>0. /\ r.wLength \in Nat
      /\ \E d \in DOMAIN Cdc!Descriptor : r.size = Cdc!Descriptor[d]
  BY RingsAssumption, Zenon DEF Cdc!CdcAssumption
<1>1. PICK d \in DOMAIN Cdc!Descriptor : r.size = Cdc!Descriptor[d]
  BY <1>0
<1>2. r.size \in Nat
  BY <1>1 DEF Cdc!Descriptor
<1>3. r.wLength \in Nat
  BY <1>0
<1>4. QED BY <1>2, <1>3 DEF Cdc!Reply

LEMMA PacketLess ==
  ASSUME NEW n \in 0 .. 255, NEW k \in Nat \ {0}, ~(n < k)
  PROVE  n - k \in 0 .. 255
  OBVIOUS

LEMMA CControlStep ==
  ASSUME CControl, [Cdc!Next]_Cdc!vars
  PROVE  CControl'
<1>1. CASE Cdc!Program
  <2>1. main' \in {"init", "run", "publish", "enable", "take"}
        /\ UNCHANGED <<state, isr, setup, resets>>
    BY <1>1 DEF Cdc!Program, Cdc!ConInit, Cdc!PutStore, Cdc!PutIndex, Cdc!PutEnable,
                Cdc!GetRead, Cdc!GetIndex, Cdc!Main, Cdc!control
  <2>2. QED BY <2>1 DEF CControl
<1>2. CASE Cdc!Interrupt
  <2>1. Cdc!Ready \in {"not_ready", "ready", "error"}
    BY DEF CControl, Cdc!Ready
  <2>2. main' = main /\ resets' = resets /\ setup' = Cdc!None
    BY <1>2 DEF Cdc!Interrupt
  <2>3. /\ state' \in {"not_ready", "ready", "error"}
        /\ isr'.stage \in {"none", "send", "data", "address"} /\ isr'.left \in 0 .. 255
    <3>1. CASE setup = Cdc!None
      BY <1>2, <2>1, <3>1 DEF Cdc!Interrupt, CControl
    <3>2. CASE setup # Cdc!None
      <4>1. setup \in Requests /\ Cdc!Answer(setup)
        BY <1>2, <3>2 DEF Cdc!Interrupt, CControl
      <4>2. CASE Cdc!Ready = "error" \/ setup.kind = "unknown"
        BY <4>1, <4>2, <2>1 DEF Cdc!Answer, Cdc!Stall, Cdc!NoIsr
      <4>3. CASE Cdc!Ready # "error" /\ setup.kind = "qualifier"
        BY <4>1, <4>3, <2>1 DEF Cdc!Answer, Cdc!Stall, Cdc!NoIsr
      <4>4. CASE Cdc!Ready # "error" /\ setup.kind = "descriptor"
        BY <4>1, <4>4, <2>1, CReply DEF Cdc!Answer
      <4>5. CASE Cdc!Ready # "error" /\ setup.kind = "set_line_coding"
        BY <4>1, <4>5, <2>1 DEF Cdc!Answer
      <4>6. CASE Cdc!Ready # "error" /\ setup.kind = "set_line_state"
        BY <4>1, <4>6, <2>1 DEF Cdc!Answer, Cdc!NoIsr
      <4>7. CASE Cdc!Ready # "error" /\ setup.kind = "set_address"
        BY <4>1, <4>7, <2>1 DEF Cdc!Answer
      <4>8. CASE Cdc!Ready # "error"
                 /\ setup.kind \notin {"unknown", "qualifier", "descriptor",
                                       "set_line_coding", "set_line_state", "set_address"}
        BY <4>1, <4>8, <2>1 DEF Cdc!Answer, Cdc!Status, Cdc!NoIsr
      <4>9. QED BY <4>2, <4>3, <4>4, <4>5, <4>6, <4>7, <4>8
    <3>3. QED BY <3>1, <3>2
  <2>4. QED BY <2>2, <2>3 DEF CControl
<1>3. CASE Cdc!EpWrite
  <2>1. UNCHANGED <<state, main, setup, resets>>
    BY <1>3 DEF Cdc!EpWrite
  <2>2. isr'.stage \in {"none", "send", "data", "address"} /\ isr'.left \in 0 .. 255
    <3>1. CASE Cdc!EndsShort
      BY <1>3, <3>1 DEF Cdc!EpWrite, Cdc!NoIsr
    <3>2. CASE ~Cdc!EndsShort
      <4>1. isr' = [isr EXCEPT !.left = @ - Packet] /\ ~(isr.left < Packet)
        BY <1>3, <3>2 DEF Cdc!EpWrite, Cdc!EndsShort
      <4>2. isr'.stage = "send" /\ isr'.left = isr.left - Packet
        BY <1>3, <4>1 DEF Cdc!EpWrite
      <4>3. isr.left \in 0 .. 255 /\ ~(isr.left < Packet) /\ Packet \in Nat \ {0}
        BY <4>1, CdcSizes DEF CControl
      <4>4. isr.left - Packet \in 0 .. 255
        BY <4>3, PacketLess, Zenon
      <4>5. QED BY <4>2, <4>4
    <3>3. QED BY <3>1, <3>2
  <2>3. QED BY <2>1, <2>2 DEF CControl
<1>4. CASE Cdc!LineCoding
  <2>1. UNCHANGED <<main, setup, resets>>
    BY <1>4 DEF Cdc!LineCoding
  <2>2. isr' = Cdc!NoIsr /\ (state' = state \/ state' = "error")
    BY <1>4 DEF Cdc!LineCoding, Cdc!Stall
  <2>3. QED BY <2>1, <2>2 DEF CControl, Cdc!NoIsr
<1>5. CASE Cdc!Address
  BY <1>5 DEF Cdc!Address, CControl, Cdc!NoIsr, Cdc!control
<1>6. CASE Cdc!BusReset
  BY <1>6 DEF Cdc!BusReset, CControl
<1>7. CASE Cdc!HostIn \/ Cdc!HostOut \/ Cdc!HostIn0 \/ Cdc!HostData
  BY <1>7, SMTT(40) DEF Cdc!HostIn, Cdc!HostOut, Cdc!HostIn0, Cdc!HostData, CControl, Cdc!control
<1>8. CASE \E r \in Requests : Cdc!Ask(r)
  BY <1>8 DEF Cdc!Ask, CControl
<1>9. CASE UNCHANGED Cdc!vars
  BY <1>9 DEF Cdc!vars, CControl, Cdc!control
<1>10. QED
  BY <1>1, <1>2, <1>3, <1>4, <1>5, <1>6, <1>7, <1>8, <1>9 DEF Cdc!Next

\* What is in the record of a ring.
LEMMA TxParts ==
  ASSUME CTxTypes
  PROVE  /\ tx.buf \in [0 .. TxSize - 1 -> Nat] /\ tx.wr \in 0 .. TxSize - 1
         /\ tx.rd \in 0 .. TxSize - 1 /\ TxContent \in Seq(Nat)
<1>1. /\ tx.buf \in [0 .. TxSize - 1 -> Nat] /\ tx.wr \in 0 .. TxSize - 1
      /\ tx.rd \in 0 .. TxSize - 1
  BY DEF CTxTypes
<1>2. QED BY <1>1, CdcSizes, RingContent DEF TxContent

\* A step that changes nothing here, and does not come to the publication.
LEMMA TxStill ==
  ASSUME CTx, UNCHANGED <<tx, put, cdcTaken, bank>>,
         main' # "publish" \/ main' = main
  PROVE  CTx'
<1>1. TxContent' = TxContent
  BY DEF TxContent
<1>2. QED BY <1>1 DEF CTx, CTxTypes, CTxOrder

LEMMA TxStoreStep ==
  ASSUME CTx, Cdc!PutStore
  PROVE  CTx'
<1>1. /\ tx.buf \in [0 .. TxSize - 1 -> Nat] /\ tx.wr \in 0 .. TxSize - 1
      /\ tx.rd \in 0 .. TxSize - 1
  BY TxParts DEF CTx
<1>2. /\ put < CdcPuts /\ put \in 0 .. CdcPuts /\ Rem(tx.wr + 1, TxSize) # tx.rd
      /\ tx' = [tx EXCEPT !.buf[tx.wr] = put + 1]
      /\ UNCHANGED <<put, cdcTaken, bank>>
  BY DEF CTx, CTxTypes, Cdc!PutStore, Cdc!Room, Cdc!TxNext, Rem
<1>3. /\ tx'.buf = [tx.buf EXCEPT ![tx.wr] = put + 1] /\ tx'.wr = tx.wr /\ tx'.rd = tx.rd
      /\ tx' \in [buf : [0 .. TxSize - 1 -> Nat], wr : 0 .. TxSize - 1, rd : 0 .. TxSize - 1]
  <2> DEFINE b == [tx.buf EXCEPT ![tx.wr] = put + 1]
  <2>1. put + 1 \in Nat /\ b \in [0 .. TxSize - 1 -> Nat]
    BY <1>1, <1>2, CdcSizes, SMTT(40)
  <2>2. tx' = [tx EXCEPT !.buf = b]
    BY <1>2
  <2> HIDE DEF b
  <2>3. /\ tx'.buf = b /\ tx'.wr = tx.wr /\ tx'.rd = tx.rd
        /\ tx' \in [buf : [0 .. TxSize - 1 -> Nat], wr : 0 .. TxSize - 1, rd : 0 .. TxSize - 1]
    BY <2>1, <2>2 DEF CTx, CTxTypes
  <2>4. QED BY <2>3 DEF b
<1>4. tx'.buf[tx.wr] = put + 1 /\ \A i \in 0 .. TxSize - 1 : i # tx.wr => tx'.buf[i] = tx.buf[i]
  BY <1>1, <1>3
<1>5. TxContent' = TxContent
  <2>1. Rem(tx.wr - tx.rd, TxSize) = (IF tx.wr < tx.rd THEN tx.wr - tx.rd + TxSize ELSE tx.wr - tx.rd)
        /\ Rem(tx.wr - tx.rd, TxSize) \in 0 .. TxSize - 1
    BY <1>1, CdcSizes, RingIndices, ZenonT(60)
  <2>2. ASSUME NEW i \in 1 .. Rem(tx.wr - tx.rd, TxSize)
        PROVE  tx'.buf[Rem(tx.rd + i - 1, TxSize)] = tx.buf[Rem(tx.rd + i - 1, TxSize)]
    <3>1. i \in 1 .. TxSize
      BY <2>1, CdcSizes
    <3>2. /\ Rem(tx.rd + i - 1, TxSize) = IF tx.rd + i - 1 < TxSize THEN tx.rd + i - 1
                                          ELSE tx.rd + i - 1 - TxSize
          /\ Rem(tx.rd + i - 1, TxSize) \in 0 .. TxSize - 1
      BY <1>1, <3>1, CdcSizes, RingIndices
    <3>3. Rem(tx.rd + i - 1, TxSize) # tx.wr
      BY <1>1, <2>1, <3>1, <3>2, CdcSizes, SMTT(40)
    <3>4. QED BY <1>4, <3>2, <3>3
  <2>3. QED BY <1>3, <2>2, Zenon DEF TxContent, RingSeq
<1>6. CTxTypes'
  BY <1>2, <1>3 DEF CTx, CTxTypes
<1>7. CTxOrder'
  BY <1>2, <1>3, <1>4, <1>5 DEF CTx, CTxOrder
<1>8. QED BY <1>6, <1>7 DEF CTx

LEMMA TxIndexStep ==
  ASSUME CTx, Cdc!PutIndex
  PROVE  CTx'
<1>1. /\ tx.buf \in [0 .. TxSize - 1 -> Nat] /\ tx.wr \in 0 .. TxSize - 1
      /\ tx.rd \in 0 .. TxSize - 1 /\ TxContent \in Seq(Nat)
  BY TxParts DEF CTx
<1>2. /\ main = "publish" /\ main' = "enable" /\ put' = put + 1
      /\ tx' = [tx EXCEPT !.wr = Rem(tx.wr + 1, TxSize)] /\ UNCHANGED <<cdcTaken, bank>>
  BY DEF Cdc!PutIndex, Cdc!Main, Cdc!TxNext, Rem
<1>3. /\ put < CdcPuts /\ tx.buf[tx.wr] = put + 1 /\ Rem(tx.wr + 1, TxSize) # tx.rd
      /\ bank \o TxContent = Run(cdcTaken, put - cdcTaken)
  BY <1>2 DEF CTx, CTxOrder
<1>4. Rem(tx.wr + 1, TxSize) \in 0 .. TxSize - 1
  BY <1>1, CdcSizes, RingNext
<1>5. /\ tx'.buf = tx.buf /\ tx'.wr = Rem(tx.wr + 1, TxSize) /\ tx'.rd = tx.rd
      /\ tx' \in [buf : [0 .. TxSize - 1 -> Nat], wr : 0 .. TxSize - 1, rd : 0 .. TxSize - 1]
  BY <1>2, <1>4 DEF CTx, CTxTypes
<1>6. put \in 0 .. CdcPuts /\ cdcTaken \in 0 .. put /\ CdcPuts \in Nat /\ bank \in Seq(Nat)
  BY CdcSizes DEF CTx, CTxTypes
<1>7. CTxTypes'
  <2>1. put + 1 \in 0 .. CdcPuts /\ cdcTaken \in 0 .. put + 1
    BY <1>3, <1>6
  <2>2. QED BY <1>2, <1>5, <1>6, <2>1 DEF CTxTypes
<1>8. TxContent' = Append(TxContent, put + 1)
  <2>1. tx.buf = [tx.buf EXCEPT ![tx.wr] = put + 1]
    BY <1>1, <1>3
  <2>2. RingPut(Nat, tx.buf, tx.buf, TxSize, tx.rd, tx.wr, Rem(tx.wr + 1, TxSize), put + 1)
    BY <1>1, <1>3, <1>6, <2>1, CdcSizes, SMTT(40) DEF RingPut
  <2>3. RingSeq(tx.buf, TxSize, tx.rd, Rem(tx.wr + 1, TxSize))
          = Append(RingSeq(tx.buf, TxSize, tx.rd, tx.wr), put + 1)
    BY <2>2, RingAppend
  <2>4. QED BY <1>5, <2>3, Zenon DEF TxContent
<1>9. bank \o Append(TxContent, put + 1) = Append(bank \o TxContent, put + 1)
  <2>1. put + 1 \in Nat
    BY <1>6
  <2> DEFINE c == TxContent
             n == put + 1
  <2>2. c \in Seq(Nat) /\ bank \in Seq(Nat) /\ n \in Nat
    BY <1>1, <1>6, <2>1
  <2> HIDE DEF c, n
  <2>3. bank \o Append(c, n) = Append(bank \o c, n)
    BY <2>2
  <2>4. QED BY <2>3 DEF c, n
<1>10. Append(Run(cdcTaken, put - cdcTaken), put + 1) = Run(cdcTaken, (put + 1) - cdcTaken)
  <2> DEFINE n == put - cdcTaken
  <2>1. n \in Nat /\ cdcTaken \in Nat /\ cdcTaken + n + 1 = put + 1 /\ n + 1 = (put + 1) - cdcTaken
    BY <1>6
  <2> HIDE DEF n
  <2>2. Append(Run(cdcTaken, n), cdcTaken + n + 1) = Run(cdcTaken, n + 1)
    BY <2>1, RunAppend
  <2>3. QED BY <2>1, <2>2 DEF n
<1>11. CTxOrder'
  <2>1. bank' \o TxContent' = Run(cdcTaken', put' - cdcTaken')
    BY <1>2, <1>3, <1>8, <1>9, <1>10, Zenon
  <2>2. QED BY <1>2, <2>1 DEF CTxOrder
<1>12. QED BY <1>7, <1>11 DEF CTx

\* The bank, when it has been taken or thrown away, is gone.
LEMMA TxGone ==
  ASSUME CTx, bank' = << >>, cdcTaken' = cdcTaken + Len(bank), UNCHANGED <<tx, put, main>>
  PROVE  CTx'
<1>1. TxContent \in Seq(Nat) /\ TxContent' = TxContent
  BY TxParts DEF CTx, TxContent
<1>2. /\ put \in 0 .. CdcPuts /\ cdcTaken \in 0 .. put /\ CdcPuts \in Nat /\ bank \in Seq(Nat)
      /\ bank \o TxContent = Run(cdcTaken, put - cdcTaken)
  BY CdcSizes DEF CTx, CTxTypes, CTxOrder
<1>3. Len(bank) <= put - cdcTaken
      /\ TxContent = Run(cdcTaken + Len(bank), put - cdcTaken - Len(bank))
  <2>1. put - cdcTaken \in Nat /\ cdcTaken \in Nat
    BY <1>2
  <2>2. QED BY <1>1, <1>2, <2>1, RunRest
<1>4. Len(bank) \in Nat /\ cdcTaken + Len(bank) \in 0 .. put
      /\ put - (cdcTaken + Len(bank)) = put - cdcTaken - Len(bank)
  <2>1. Len(bank) \in Nat
    BY <1>2
  <2>2. QED BY <1>2, <1>3, <2>1
<1>5. bank' \o TxContent' = TxContent
  <2> DEFINE c == TxContent
  <2>1. c \in Seq(Nat)
    BY <1>1
  <2> HIDE DEF c
  <2>2. << >> \o c = c
    BY <2>1
  <2>3. QED BY <1>1, <2>2 DEF c
<1>6. bank' \o TxContent' = Run(cdcTaken', put' - cdcTaken')
  BY <1>3, <1>4, <1>5
<1>7. CTxTypes'
  BY <1>4 DEF CTx, CTxTypes
<1>8. QED BY <1>6, <1>7 DEF CTx, CTxOrder

\* The whole ring goes into the bank.
LEMMA TxSendStep ==
  ASSUME CTx, CBank, Cdc!Send, UNCHANGED <<put, cdcTaken, main>>
  PROVE  CTx' /\ CBank'
<1>1. CASE ~Cdc!Sends
  <2>1. UNCHANGED <<bank, tx, txini>>
    BY <1>1 DEF Cdc!Send
  <2>2. QED BY <2>1, TxStill DEF CBank
<1>2. CASE Cdc!Sends
  <2>1. /\ tx.buf \in [0 .. TxSize - 1 -> Nat] /\ tx.wr \in 0 .. TxSize - 1
        /\ tx.rd \in 0 .. TxSize - 1 /\ TxContent \in Seq(Nat)
    BY TxParts DEF CTx
  <2>2. bank' = Cdc!Content(tx, TxSize) /\ tx' = [tx EXCEPT !.rd = tx.wr] /\ txini' = FALSE
    BY <1>2 DEF Cdc!Send
  <2>3. bank' = TxContent
    BY <2>2, CContent DEF TxContent
  <2>4. bank = << >>
    BY <1>2 DEF CBank, Cdc!Sends
  <2>5. /\ tx'.buf = tx.buf /\ tx'.wr = tx.wr /\ tx'.rd = tx.wr
        /\ tx' \in [buf : [0 .. TxSize - 1 -> Nat], wr : 0 .. TxSize - 1, rd : 0 .. TxSize - 1]
    BY <2>1, <2>2 DEF CTx, CTxTypes
  <2>6. TxContent' = << >>
    BY <2>1, <2>5, CdcSizes, RingEmpty DEF TxContent
  <2>7. bank' \o TxContent' = bank \o TxContent
    <3> DEFINE c == TxContent
    <3>1. c \in Seq(Nat)
      BY <2>1
    <3> HIDE DEF c
    <3>2. c \o << >> = c /\ << >> \o c = c
      BY <3>1
    <3>3. QED BY <2>3, <2>4, <2>6, <3>2 DEF c
  <2>8. CTxTypes'
    BY <2>1, <2>3, <2>5 DEF CTx, CTxTypes
  <2>9. Rem(tx.wr + 1, TxSize) # tx.wr
    <3>1. Rem(tx.wr + 1, TxSize) = IF tx.wr + 1 = TxSize THEN 0 ELSE tx.wr + 1
      BY <2>1, CdcSizes, RingNext
    <3>2. QED BY <2>1, <3>1, CdcSizes
  <2>10. CTxOrder'
    BY <2>5, <2>7, <2>9 DEF CTx, CTxOrder
  <2>11. CBank'
    BY <2>2, Zenon DEF CBank
  <2>12. QED BY <2>8, <2>10, <2>11 DEF CTx
<1>3. QED BY <1>1, <1>2

LEMMA TxStep ==
  ASSUME CTx, CBank, [Cdc!Next]_Cdc!vars
  PROVE  CTx' /\ CBank'
<1>1. CASE Cdc!PutStore
  BY <1>1, TxStoreStep DEF Cdc!PutStore, CBank
<1>2. CASE Cdc!PutIndex
  BY <1>2, TxIndexStep DEF Cdc!PutIndex, CBank
<1>3. CASE Cdc!ConInit \/ Cdc!PutEnable \/ Cdc!GetRead \/ Cdc!GetIndex
  <2>1. UNCHANGED <<tx, put, cdcTaken, bank, txini>> /\ main' # "publish"
    BY <1>3 DEF Cdc!ConInit, Cdc!PutEnable, Cdc!GetRead, Cdc!GetIndex, Cdc!Main, Cdc!rings
  <2>2. QED BY <2>1, TxStill DEF CBank
<1>4. CASE Cdc!Interrupt
  BY <1>4, TxSendStep DEF Cdc!Interrupt
<1>5. CASE Cdc!EpWrite \/ Cdc!LineCoding \/ Cdc!Address
  <2>1. UNCHANGED <<tx, put, cdcTaken, bank, txini, main>>
    BY <1>5 DEF Cdc!EpWrite, Cdc!LineCoding, Cdc!Address, Cdc!rings
  <2>2. QED BY <2>1, TxStill DEF CBank
<1>6. CASE Cdc!BusReset
  BY <1>6, TxGone DEF Cdc!BusReset, CBank, Cdc!rings
<1>7. CASE Cdc!HostIn
  BY <1>7, TxGone DEF Cdc!HostIn, CBank, Cdc!rings
<1>8. CASE Cdc!HostOut \/ Cdc!HostIn0 \/ Cdc!HostData \/ \E r \in Requests : Cdc!Ask(r)
  <2>1. UNCHANGED <<tx, put, cdcTaken, bank, txini, main>>
    BY <1>8 DEF Cdc!HostOut, Cdc!HostIn0, Cdc!HostData, Cdc!Ask, Cdc!rings
  <2>2. QED BY <2>1, TxStill DEF CBank
<1>9. CASE UNCHANGED Cdc!vars
  <2>1. UNCHANGED <<tx, put, cdcTaken, bank, txini, main>>
    BY <1>9 DEF Cdc!vars, Cdc!rings
  <2>2. QED BY <2>1, TxStill DEF CBank
<1>10. QED
  BY <1>1, <1>2, <1>3, <1>4, <1>5, <1>6, <1>7, <1>8, <1>9 DEF Cdc!Next, Cdc!Program

LEMMA RxParts ==
  ASSUME CRxTypes
  PROVE  /\ rx.buf \in [0 .. RxSize - 1 -> Nat] /\ rx.wr \in 0 .. RxSize - 1
         /\ rx.rd \in 0 .. RxSize - 1 /\ RxContent \in Seq(Nat)
         /\ Len(out) \in Nat /\ Arrived \in 0 .. cdcSent /\ cdcSent = Arrived + Len(out)
<1>1. /\ rx.buf \in [0 .. RxSize - 1 -> Nat] /\ rx.wr \in 0 .. RxSize - 1
      /\ rx.rd \in 0 .. RxSize - 1
  BY DEF CRxTypes
<1>2. Len(out) \in Nat /\ cdcSent \in Nat
  BY CdcSizes DEF CRxTypes
<1>3. Arrived \in 0 .. cdcSent /\ cdcSent = Arrived + Len(out)
  BY <1>2 DEF CRxTypes, Arrived
<1>4. QED BY <1>1, <1>2, <1>3, CdcSizes, RingContent DEF RxContent

LEMMA RxStill ==
  ASSUME CRx, UNCHANGED <<rx, out, cdcSent, got>>, main' = main \/ "take" \notin {main, main'}
  PROVE  CRx'
<1>1. RxContent' = RxContent /\ Arrived' = Arrived
  BY DEF RxContent, Arrived
<1>2. QED BY <1>1 DEF CRx, CRxTypes, CRxOrder

\* The ring that is not empty has a first character and others.
LEMMA RxFirst ==
  ASSUME CRxTypes, rx.rd # rx.wr
  PROVE  /\ RxContent # << >> /\ Head(RxContent) = rx.buf[rx.rd]
         /\ Rem(rx.rd + 1, RxSize) \in 0 .. RxSize - 1
         /\ RingSeq(rx.buf, RxSize, Rem(rx.rd + 1, RxSize), rx.wr) = Tail(RxContent)
<1> DEFINE b == rx.buf
           f == rx.rd
           w == rx.wr
<1>1. RingHas(Nat, b, RxSize, f, w)
  BY RxParts, CdcSizes DEF RingHas
<1> HIDE DEF b, f, w
<1>3. /\ RingSeq(b, RxSize, f, w) # << >> /\ Head(RingSeq(b, RxSize, f, w)) = b[f]
      /\ Rem(f + 1, RxSize) \in 0 .. RxSize - 1
      /\ RingSeq(b, RxSize, Rem(f + 1, RxSize), w) = Tail(RingSeq(b, RxSize, f, w))
  BY <1>1, RingFirst
<1>4. QED BY <1>3 DEF RxContent, b, f, w

\* The program reads a character ...
LEMMA RxReadStep ==
  ASSUME CRx, Cdc!GetRead
  PROVE  CRx'
<1>1. /\ rx.buf \in [0 .. RxSize - 1 -> Nat] /\ rx.wr \in 0 .. RxSize - 1
      /\ rx.rd \in 0 .. RxSize - 1 /\ RxContent \in Seq(Nat)
  BY RxParts DEF CRx
<1>2. /\ main = "run" /\ main' = "take" /\ rx.wr # rx.rd /\ got' = rx.buf[rx.rd]
      /\ UNCHANGED <<rx, out, cdcSent>>
  BY DEF Cdc!GetRead, Cdc!Main, Cdc!rings
<1>3. RxContent # << >> /\ Head(RxContent) = rx.buf[rx.rd]
  BY <1>2, RxFirst DEF CRx
<1>4. RxContent' = RxContent /\ Arrived' = Arrived
  BY <1>2 DEF RxContent, Arrived
<1>5. Rising(RxContent, got) /\ got \in 0 .. Arrived /\ RxContent \in Seq(0 .. Arrived)
      /\ Arrived \in Nat
  BY <1>2 DEF CRx, CRxOrder, CRxTypes
<1>6. Rising(Tail(RxContent), Head(RxContent))
  BY <1>1, <1>3, <1>5, RisingTail
<1>7. got' \in 0 .. Arrived
  <2> DEFINE c == RxContent
             S == 0 .. Arrived
  <2>1. c \in Seq(S) /\ c # << >> /\ got' = Head(c)
    BY <1>2, <1>3, <1>5
  <2> HIDE DEF c, S
  <2>2. Head(c) \in S
    BY <2>1
  <2>3. QED BY <2>1, <2>2 DEF S
<1>8. CRxOrder'
  BY <1>2, <1>3, <1>4, <1>5, <1>6, <1>7 DEF CRx, CRxOrder
<1>9. CRxTypes'
  BY <1>2, <1>4 DEF CRx, CRxTypes
<1>10. QED BY <1>8, <1>9 DEF CRx

\* ... and then moves the index.
LEMMA RxIndexStep ==
  ASSUME CRx, Cdc!GetIndex
  PROVE  CRx'
<1>1. /\ rx.buf \in [0 .. RxSize - 1 -> Nat] /\ rx.wr \in 0 .. RxSize - 1
      /\ rx.rd \in 0 .. RxSize - 1 /\ RxContent \in Seq(Nat)
  BY RxParts DEF CRx
<1>2. /\ main = "take" /\ main' = "run" /\ rx' = [rx EXCEPT !.rd = Rem(rx.rd + 1, RxSize)]
      /\ UNCHANGED <<out, cdcSent, got>>
  BY DEF Cdc!GetIndex, Cdc!Main, Cdc!RxNext, Rem
<1>3. /\ RxContent # << >> /\ Head(RxContent) = got /\ Rising(Tail(RxContent), got)
      /\ RxContent \in Seq(0 .. Arrived) /\ got \in 0 .. Arrived
  BY <1>2 DEF CRx, CRxOrder
<1>4. rx.rd # rx.wr
  <2>1. ASSUME rx.rd = rx.wr PROVE RxContent = << >>
    BY <1>1, <2>1, CdcSizes, RingEmpty DEF RxContent
  <2>2. QED BY <1>3, <2>1
<1>5. /\ Rem(rx.rd + 1, RxSize) \in 0 .. RxSize - 1
      /\ RingSeq(rx.buf, RxSize, Rem(rx.rd + 1, RxSize), rx.wr) = Tail(RxContent)
  BY <1>4, RxFirst DEF CRx
<1>6. /\ rx'.buf = rx.buf /\ rx'.wr = rx.wr /\ rx'.rd = Rem(rx.rd + 1, RxSize)
      /\ rx' \in [buf : [0 .. RxSize - 1 -> Nat], wr : 0 .. RxSize - 1, rd : 0 .. RxSize - 1]
  BY <1>2, <1>5 DEF CRx, CRxTypes
<1>7. RxContent' = Tail(RxContent) /\ Arrived' = Arrived
  BY <1>2, <1>5, <1>6 DEF RxContent, Arrived
<1>8. Tail(RxContent) \in Seq(0 .. Arrived)
  <2> DEFINE c == RxContent
             S == 0 .. Arrived
  <2>1. c \in Seq(S) /\ c # << >>
    BY <1>3
  <2> HIDE DEF c, S
  <2>2. Tail(c) \in Seq(S)
    BY <2>1
  <2>3. QED BY <2>2 DEF c, S
<1>9. CRxOrder'
  BY <1>2, <1>3, <1>7, <1>8 DEF CRx, CRxOrder
<1>10. CRxTypes'
  BY <1>2, <1>6, <1>7 DEF CRx, CRxTypes
<1>11. QED BY <1>9, <1>10 DEF CRx

\* The host sends a packet to the free endpoint.
LEMMA RxSentStep ==
  ASSUME CRx, Cdc!HostOut
  PROVE  CRx'
<1>1. PICK n \in 1 .. MaxPacket : /\ cdcSent + n <= CdcChars /\ cdcSent' = cdcSent + n
                                  /\ out' = [i \in 1 .. n |-> cdcSent + i]
  BY DEF Cdc!HostOut
<1>2. out = << >> /\ UNCHANGED <<rx, got, main>>
  BY DEF Cdc!HostOut, Cdc!rings
<1>3. n \in Nat /\ cdcSent \in Nat /\ cdcSent + n \in 0 .. CdcChars /\ Arrived = cdcSent
  BY <1>1, <1>2, CdcSizes DEF CRx, CRxTypes, Arrived
<1>4. out' = Run(cdcSent, n) /\ out' \in Seq(Nat) /\ Len(out') = n
  BY <1>1, <1>3, RunIs DEF Run
<1>5. Arrived' = Arrived /\ Arrived \in Nat
  BY <1>1, <1>3, <1>4 DEF Arrived
<1>6. RxContent' = RxContent
  BY <1>2 DEF RxContent
<1>7. out' = Run(Arrived', Len(out'))
  BY <1>3, <1>4, <1>5
<1>8. CRxOrder'
  BY <1>2, <1>5, <1>6, <1>7 DEF CRx, CRxOrder
<1>9. CRxTypes'
  BY <1>1, <1>2, <1>3, <1>4, <1>5 DEF CRx, CRxTypes
<1>10. QED BY <1>8, <1>9 DEF CRx

LEMMA SubRun ==
  ASSUME NEW a \in Nat, NEW n \in Nat, NEW d \in 0 .. n, NEW l \in d .. n
  PROVE  SubSeq(Run(a, n), 1 + d, l) = Run(a + d, l - d)
<1> DEFINE s == Run(a, n)
           m == 1 + d
           u == SubSeq(s, m, l)
           b == a + d
           k == l - d
<1>1. s \in Seq(Nat) /\ Len(s) = n /\ \A i \in 1 .. n : s[i] = a + i
  BY RunIs
<1>2. m \in 1 .. n + 1 /\ l \in m - 1 .. n /\ l - m + 1 = k /\ b \in Nat /\ k \in Nat
  OBVIOUS
<1>3. Run(b, k) \in Seq(Nat) /\ Len(Run(b, k)) = k /\ \A i \in 1 .. k : Run(b, k)[i] = b + i
  BY <1>2, RunIs
<1>4. \A i \in 1 .. k : i + m - 1 \in 1 .. n /\ a + (i + m - 1) = b + i
  OBVIOUS
<1> HIDE DEF s, m, b, k
<1>5. u \in Seq(Nat) /\ Len(u) = l - m + 1 /\ \A i \in 1 .. l - m + 1 : u[i] = s[i + m - 1]
  BY <1>1, <1>2
<1> HIDE DEF u
<1>6. \A i \in 1 .. k : u[i] = Run(b, k)[i]
  BY <1>1, <1>2, <1>3, <1>4, <1>5, ZenonT(60)
<1>7. u = Run(b, k)
  BY <1>2, <1>3, <1>5, <1>6, SeqEqual
<1>8. QED BY <1>7 DEF s, m, b, k, u

LEMMA RxFree ==
  ASSUME CRxTypes
  PROVE  /\ Len(RxContent) \in 0 .. RxSize - 1
         /\ Len(RxContent) = Rem(rx.wr - rx.rd, RxSize)
         /\ Cdc!Free = RxSize - 1 - Len(RxContent)
<1> DEFINE f == rx.rd
           w == rx.wr
           x == f - w - 1
<1>1. f \in 0 .. RxSize - 1 /\ w \in 0 .. RxSize - 1
  BY RxParts
<1>2. Cdc!Free = Rem(x, RxSize)
  BY DEF Cdc!Free, Rem
<1>3. Len(RxContent) = Rem(w - f, RxSize)
  BY <1>1, CdcSizes, RingLength, ZenonT(60) DEF RxContent
<1>4. Rem(w - f, RxSize) = (IF w < f THEN w - f + RxSize ELSE w - f)
      /\ Rem(w - f, RxSize) \in 0 .. RxSize - 1
  BY <1>1, CdcSizes, RingIndices
<1>5. x \in -RxSize .. 2 * RxSize - 1 /\ x < RxSize
  BY <1>1, CdcSizes
<1>6. Rem(x, RxSize) = IF x < 0 THEN x + RxSize ELSE x
  BY <1>5, CdcSizes, Wrapped
<1>7. Rem(x, RxSize) = RxSize - 1 - Rem(w - f, RxSize)
  BY <1>1, <1>4, <1>6, CdcSizes
<1>8. QED BY <1>2, <1>3, <1>4, <1>7

\* What is taken from a packet: what fits, but for the first byte of all.
LEMMA RxStored ==
  ASSUME CRx
  PROVE  /\ \E b \in Nat, k \in Nat :
              /\ Arrived <= b /\ b + k <= cdcSent /\ Cdc!Stored = Run(b, k)
              /\ k + Len(RxContent) <= RxSize - 1
         /\ out # << >> => Len(Cdc!Stored) \in {Cdc!Free, Len(out) - Cdc!Disposed}
<1> DEFINE a == Arrived
           n == Len(out)
           d == Cdc!Disposed
           v == Cdc!Free
           l == IF n < d + v THEN n ELSE d + v
<1>1. a \in Nat /\ n \in Nat /\ cdcSent = a + n /\ out = Run(a, n)
  BY RxParts, CdcSizes DEF CRx, CRxTypes, CRxOrder
<1>2. d \in {0, 1}
  BY DEF Cdc!Disposed
<1>3. v \in Nat /\ v = RxSize - 1 - Len(RxContent) /\ Len(RxContent) \in Nat /\ RxSize \in Nat
  BY RxFree, CdcSizes DEF CRx
<1>4. Cdc!Stored = IF v = 0 THEN << >> ELSE SubSeq(out, 1 + d, l)
  BY DEF Cdc!Stored
<1>5. out = << >> => n = 0
  OBVIOUS
<1>6. n = 0 => out = << >>
  BY DEF CRx, CRxTypes
<1> HIDE DEF a, n, d, v, l
<1>7. Run(a, 0) = << >>
  BY DEF Run
<1>8. CASE v = 0
  <2>1. Cdc!Stored = Run(a, 0) /\ Len(Cdc!Stored) = v
    BY <1>4, <1>7, <1>8
  <2>2. a <= a /\ a + 0 <= cdcSent /\ 0 + Len(RxContent) <= RxSize - 1
    BY <1>1, <1>3, <1>8
  <2>3. \E b \in Nat, k \in Nat : /\ Arrived <= b /\ b + k <= cdcSent /\ Cdc!Stored = Run(b, k)
                                  /\ k + Len(RxContent) <= RxSize - 1
    BY <1>1, <2>1, <2>2 DEF a
  <2>4. QED BY <2>1, <2>3 DEF v
<1>9. CASE v # 0 /\ n = 0
  <2>1. l = 0
    BY <1>1, <1>2, <1>3, <1>9 DEF l
  <2>2. SubSeq(out, 1 + d, l) = << >>
    BY <1>2, <1>6, <1>9, <2>1
  <2>3. Cdc!Stored = Run(a, 0)
    BY <1>4, <1>7, <1>9, <2>2
  <2>4. a <= a /\ a + 0 <= cdcSent /\ 0 + Len(RxContent) <= RxSize - 1
    BY <1>1, <1>3
  <2>5. \E b \in Nat, k \in Nat : /\ Arrived <= b /\ b + k <= cdcSent /\ Cdc!Stored = Run(b, k)
                                  /\ k + Len(RxContent) <= RxSize - 1
    BY <1>1, <2>3, <2>4 DEF a
  <2>6. QED BY <1>6, <1>9, <2>5
<1>10. CASE v # 0 /\ n # 0
  <2>1. d \in 0 .. n /\ l \in d .. n /\ l - d \in Nat /\ a + d \in Nat /\ a <= a + d
        /\ (a + d) + (l - d) <= cdcSent /\ l - d <= v /\ l - d \in {v, n - d}
    <3>1. n \in Nat \ {0} /\ v \in Nat \ {0} /\ d \in 0 .. n /\ cdcSent \in Nat
      BY <1>1, <1>2, <1>3, <1>10
    <3>2. CASE n < d + v
      <4>1. l = n
        BY <3>2 DEF l
      <4>2. QED BY <1>1, <3>1, <3>2, <4>1
    <3>3. CASE ~(n < d + v)
      <4>1. l = d + v
        BY <3>3 DEF l
      <4>2. QED BY <1>1, <3>1, <3>3, <4>1
    <3>4. QED BY <3>2, <3>3
  <2>2. SubSeq(out, 1 + d, l) = Run(a + d, l - d)
    BY <1>1, <2>1, SubRun
  <2>3. Cdc!Stored = Run(a + d, l - d)
    BY <1>4, <1>10, <2>2
  <2>4. Len(Cdc!Stored) = l - d
    BY <2>1, <2>3, RunIs
  <2>5. (l - d) + Len(RxContent) <= RxSize - 1
    BY <1>3, <2>1
  <2>6. \E b \in Nat, k \in Nat : /\ a <= b /\ b + k <= cdcSent /\ Cdc!Stored = Run(b, k)
                                  /\ k + Len(RxContent) <= RxSize - 1
    BY <2>1, <2>3, <2>5
  <2>7. QED BY <2>1, <2>4, <2>6 DEF a, n, d, v
<1>11. QED BY <1>8, <1>9, <1>10

\* The ring's places from w on, with s in the first of them.
Filled(buf, cap, w, s) ==
  [i \in 0 .. cap - 1 |-> LET n == Rem(i - w, cap) + 1
                          IN  IF n \in DOMAIN s THEN s[n] ELSE buf[i]]

LEMMA FilledIs ==
  ASSUME NEW cap \in Nat \ {0}, NEW buf \in [0 .. cap - 1 -> Nat],
         NEW f \in 0 .. cap - 1, NEW w \in 0 .. cap - 1, NEW s \in Seq(Nat),
         Len(s) + Rem(w - f, cap) <= cap - 1
  PROVE  /\ Filled(buf, cap, w, s) \in [0 .. cap - 1 -> Nat]
         /\ Holds(Filled(buf, cap, w, s), cap, w, s)
         /\ Untouched(buf, Filled(buf, cap, w, s), cap, f, w)
<1> DEFINE more == Filled(buf, cap, w, s)
<1>1. /\ DOMAIN s = 1 .. Len(s) /\ Len(s) \in Nat
      /\ \A i \in 1 .. Len(s) : s[i] \in Nat
  OBVIOUS
<1>2. \A i \in 0 .. cap - 1 :
        more[i] = IF Rem(i - w, cap) + 1 \in DOMAIN s THEN s[Rem(i - w, cap) + 1] ELSE buf[i]
  BY DEF Filled
<1>3. more \in [0 .. cap - 1 -> Nat]
  <2>1. \A i \in 0 .. cap - 1 : more[i] \in Nat
    BY <1>1, <1>2
  <2>2. more = [i \in 0 .. cap - 1 |-> more[i]]
    BY DEF Filled
  <2>3. QED BY <2>1, <2>2
<1> HIDE DEF more
<1>4. Rem(w - f, cap) = (IF w < f THEN w - f + cap ELSE w - f) /\ Rem(w - f, cap) \in 0 .. cap - 1
  BY RingIndices
<1>5. ASSUME NEW j \in 1 .. Len(s) PROVE more[Rem(w + j - 1, cap)] = s[j]
  <2>1. j \in 1 .. cap
    BY <1>1, <1>4
  <2> DEFINE x == Rem(w + j - 1, cap)
  <2>2. x = (IF w + j - 1 < cap THEN w + j - 1 ELSE w + j - 1 - cap) /\ x \in 0 .. cap - 1
    BY <2>1, RingIndices
  <2> HIDE DEF x
  <2>3. Rem(x - w, cap) = IF x < w THEN x - w + cap ELSE x - w
    BY <2>2, RingIndices, ZenonT(60)
  <2>4. Rem(x - w, cap) + 1 = j
    BY <2>1, <2>2, <2>3
  <2>5. QED BY <1>1, <1>2, <2>2, <2>4 DEF x
<1>6. ASSUME NEW i \in 1 .. Rem(w - f, cap)
      PROVE  more[Rem(f + i - 1, cap)] = buf[Rem(f + i - 1, cap)]
  <2>1. i \in 1 .. cap
    BY <1>4
  <2> DEFINE x == Rem(f + i - 1, cap)
  <2>2. x = (IF f + i - 1 < cap THEN f + i - 1 ELSE f + i - 1 - cap) /\ x \in 0 .. cap - 1
    BY <2>1, RingIndices
  <2> HIDE DEF x
  <2>3. Rem(x - w, cap) = IF x < w THEN x - w + cap ELSE x - w
    BY <2>2, RingIndices
  <2> DEFINE r == Rem(w - f, cap)
             y == Rem(x - w, cap)
  <2>4. y + 1 > Len(s)
    <3>1. r = (IF w < f THEN w - f + cap ELSE w - f) /\ r \in Nat /\ i \in 1 .. r
          /\ Len(s) + r <= cap - 1 /\ Len(s) \in Nat
          /\ y = IF x < w THEN x - w + cap ELSE x - w
      BY <1>1, <1>4, <2>3
    <3> HIDE DEF r, y
    <3>2. y = cap - r + i - 1
      BY <2>2, <3>1
    <3>3. QED BY <3>1, <3>2, SMTT(40)
  <2>5. Rem(x - w, cap) + 1 \notin DOMAIN s
    BY <1>1, <2>4
  <2>6. QED BY <1>2, <2>2, <2>5 DEF x
<1>7. QED BY <1>3, <1>5, <1>6 DEF Holds, Untouched, more

LEMMA RxReceive ==
  ASSUME CRx, Cdc!Receive
  PROVE  /\ rx' \in [buf : [0 .. RxSize - 1 -> Nat], wr : 0 .. RxSize - 1, rd : 0 .. RxSize - 1]
         /\ RxContent' = RxContent \o Cdc!Stored
         /\ Len(RxContent') = Len(RxContent) + Len(Cdc!Stored)
<1> DEFINE s == Cdc!Stored
           b == rx.buf
           f == rx.rd
           w == rx.wr
           v == Rem(w + Len(s), RxSize)
           more == Filled(b, RxSize, w, s)
<1>1. /\ b \in [0 .. RxSize - 1 -> Nat] /\ w \in 0 .. RxSize - 1 /\ f \in 0 .. RxSize - 1
      /\ RxSize \in Nat \ {0} /\ RxContent \in Seq(Nat)
  BY RxParts, CdcSizes DEF CRx
<1>2. s \in Seq(Nat) /\ Len(s) + Rem(w - f, RxSize) <= RxSize - 1
  <2>1. PICK c \in Nat, k \in Nat : Cdc!Stored = Run(c, k) /\ k + Len(RxContent) <= RxSize - 1
    BY RxStored
  <2>2. Len(RxContent) = Rem(w - f, RxSize)
    BY RxFree DEF CRx
  <2>3. s \in Seq(Nat) /\ Len(s) = k
    BY <2>1, RunIs
  <2>4. QED BY <2>1, <2>2, <2>3
<1>3. rx' = [rx EXCEPT !.buf = more, !.wr = v]
  BY DEF Cdc!Receive, Filled, Rem
<1> HIDE DEF s, b, f, w
<1>4. /\ more \in [0 .. RxSize - 1 -> Nat] /\ Holds(more, RxSize, w, s)
      /\ Untouched(b, more, RxSize, f, w)
  BY <1>1, <1>2, FilledIs
<1> HIDE DEF more
<1>5. v \in 0 .. RxSize - 1 /\ RingSeq(more, RxSize, f, v) = RingSeq(b, RxSize, f, w) \o s
  <2>1. RingTakes(Nat, b, more, RxSize, f, w, s)
    BY <1>1, <1>2, <1>4 DEF RingTakes
  <2>2. QED BY <2>1, RingStore
<1> HIDE DEF v
<1>6. /\ rx'.buf = more /\ rx'.wr = v /\ rx'.rd = f
      /\ rx' \in [buf : [0 .. RxSize - 1 -> Nat], wr : 0 .. RxSize - 1, rd : 0 .. RxSize - 1]
  BY <1>3, <1>4, <1>5 DEF CRx, CRxTypes, f
<1>7. RxContent' = RxContent \o s
  BY <1>5, <1>6 DEF RxContent, b, f, w
<1>8. Len(RxContent \o s) = Len(RxContent) + Len(s)
  BY <1>1, <1>2, ConcatIs
<1>9. QED BY <1>6, <1>7, <1>8 DEF s

LEMMA TailConcat ==
  ASSUME NEW S, NEW c \in Seq(S), c # << >>, NEW s \in Seq(S)
  PROVE  /\ c \o s # << >> /\ Head(c \o s) = Head(c) /\ Tail(c \o s) = Tail(c) \o s
         /\ Head(c) \in S /\ Tail(c) \in Seq(S)
<1>1. /\ Len(c) \in Nat \ {0} /\ Len(s) \in Nat /\ Tail(c) \in Seq(S) /\ Len(Tail(c)) = Len(c) - 1
      /\ \A i \in 1 .. Len(c) - 1 : Tail(c)[i] = c[i + 1]
      /\ Head(c) = c[1] /\ Head(c) \in S
  OBVIOUS
<1> DEFINE d == c \o s
           u == Tail(c) \o s
<1>2. /\ d \in Seq(S) /\ Len(d) = Len(c) + Len(s)
      /\ \A i \in 1 .. Len(c) + Len(s) : d[i] = IF i <= Len(c) THEN c[i] ELSE s[i - Len(c)]
  BY ConcatIs
<1>3. /\ u \in Seq(S) /\ Len(u) = Len(c) - 1 + Len(s)
      /\ \A i \in 1 .. Len(c) - 1 + Len(s) :
           u[i] = IF i <= Len(c) - 1 THEN Tail(c)[i] ELSE s[i - (Len(c) - 1)]
  BY <1>1, ConcatIs
<1> HIDE DEF d, u
<1>4. d # << >> /\ Head(d) = c[1] /\ Tail(d) \in Seq(S) /\ Len(Tail(d)) = Len(c) + Len(s) - 1
      /\ \A i \in 1 .. Len(c) + Len(s) - 1 : Tail(d)[i] = d[i + 1]
  <2>1. Len(d) \in Nat \ {0} /\ 1 \in 1 .. Len(c) + Len(s) /\ 1 <= Len(c)
    BY <1>1, <1>2
  <2>2. d # << >> /\ Head(d) = d[1] /\ Tail(d) \in Seq(S) /\ Len(Tail(d)) = Len(d) - 1
        /\ \A i \in 1 .. Len(d) - 1 : Tail(d)[i] = d[i + 1]
    BY <1>2, <2>1, SMTT(40)
  <2>3. d[1] = c[1]
    BY <1>2, <2>1
  <2>4. QED BY <1>2, <2>2, <2>3
<1>5. ASSUME NEW i \in 1 .. Len(c) + Len(s) - 1 PROVE Tail(d)[i] = u[i]
  <2>1. i + 1 \in 1 .. Len(c) + Len(s) /\ i \in 1 .. Len(c) - 1 + Len(s)
        /\ i + 1 - Len(c) = i - (Len(c) - 1)
        /\ (i + 1 <= Len(c) <=> i <= Len(c) - 1)
    BY <1>1
  <2>2. i <= Len(c) - 1 => Tail(c)[i] = c[i + 1]
    BY <1>1, <2>1
  <2>3. QED BY <1>2, <1>3, <1>4, <2>1, <2>2, SMTT(40)
<1>6. Tail(d) = u
  <2>1. Len(u) = Len(Tail(d)) /\ Len(u) = Len(c) + Len(s) - 1
    BY <1>1, <1>3, <1>4
  <2>2. QED BY <1>3, <1>4, <1>5, <2>1, SeqEqual
<1>7. QED BY <1>1, <1>4, <1>6 DEF d, u

\* The handler takes the packet.
LEMMA RxReceiveStep ==
  ASSUME CRx, Cdc!Receive, out' = << >>, UNCHANGED <<cdcSent, got, main>>
  PROVE  CRx'
<1>1. PICK b \in Nat, k \in Nat :
        /\ Arrived <= b /\ b + k <= cdcSent /\ Cdc!Stored = Run(b, k)
        /\ k + Len(RxContent) <= RxSize - 1
  BY RxStored
<1>2. /\ Arrived \in Nat /\ cdcSent \in Nat /\ got \in 0 .. Arrived
      /\ RxContent \in Seq(0 .. Arrived) /\ RxContent \in Seq(Nat) /\ Arrived <= cdcSent
  BY RxParts, CdcSizes DEF CRx, CRxTypes, CRxOrder
<1>3. RxContent' = RxContent \o Run(b, k)
  BY <1>1, RxReceive
<1>4. Arrived' = cdcSent /\ out' = Run(Arrived', Len(out'))
  BY <1>2 DEF Arrived, Run
<1>5. got' \in 0 .. Arrived'
  BY <1>2, <1>4
<1>6. Run(b, k) \in Seq(Nat)
  BY RunIs
<1>7. \A s \in Seq(0 .. b + k) : s \in Seq(0 .. cdcSent)
  <2>1. \A x \in 0 .. b + k : x \in 0 .. cdcSent
    BY <1>1, <1>2
  <2> DEFINE S == 0 .. b + k
             T == 0 .. cdcSent
  <2>2. S \subseteq T
    BY <2>1
  <2> HIDE DEF S, T
  <2>3. \A s \in Seq(S) : s \in Seq(T)
    BY <2>2
  <2>4. QED BY <2>3 DEF S, T
<1> DEFINE c == RxContent
           a == Arrived
<1>8. CASE main # "take"
  <2>1. Rising(c, got)
    BY <1>8 DEF CRx, CRxOrder
  <2>2. a \in Nat /\ c \in Seq(0 .. a) /\ got \in 0 .. a /\ a <= b
    BY <1>1, <1>2
  <2> HIDE DEF a, c
  <2>3. c \o Run(b, k) \in Seq(0 .. b + k) /\ Rising(c \o Run(b, k), got)
    BY <2>1, <2>2, RisingConcat
  <2>4. RxContent' \in Seq(0 .. Arrived') /\ Rising(RxContent', got')
    BY <1>3, <1>4, <1>7, <2>3 DEF c
  <2>5. main' # "take"
    BY <1>8
  <2>6. QED BY <1>4, <1>5, <2>4, <2>5, RxReceive DEF CRx, CRxTypes, CRxOrder
<1>9. CASE main = "take"
  <2>1. c # << >> /\ Head(c) = got /\ Rising(Tail(c), got)
    BY <1>9 DEF CRx, CRxOrder
  <2>2. a \in Nat /\ c \in Seq(0 .. a) /\ c \in Seq(Nat) /\ got \in 0 .. a /\ a <= b
    BY <1>1, <1>2
  <2> HIDE DEF a, c
  <2>3. /\ c \o Run(b, k) # << >> /\ Head(c \o Run(b, k)) = got
        /\ Tail(c \o Run(b, k)) = Tail(c) \o Run(b, k)
    BY <1>6, <2>1, <2>2, TailConcat, SMTT(40)
  <2>4. Tail(c) \in Seq(0 .. a)
    <3> DEFINE S == 0 .. a
    <3>1. c \in Seq(S)
      BY <2>2
    <3> HIDE DEF S
    <3>2. Tail(c) \in Seq(S)
      BY <2>1, <3>1
    <3>3. QED BY <3>2 DEF S
  <2>5. Rising(Tail(c) \o Run(b, k), got)
    BY <2>1, <2>2, <2>4, RisingConcat
  <2>6. c \o Run(b, k) \in Seq(0 .. cdcSent)
    <3> DEFINE T == 0 .. cdcSent
    <3>1. \A x \in 0 .. a : x \in T
      BY <1>1, <1>2, <2>2 DEF a
    <3>2. \A i \in 1 .. k : Run(b, k)[i] \in T
      <4>1. ASSUME NEW i \in 1 .. k PROVE Run(b, k)[i] \in 0 .. cdcSent
        <5>1. Run(b, k)[i] = b + i
          BY RunIs
        <5>2. b + i \in 0 .. cdcSent
          BY <1>1, <1>2
        <5>3. QED BY <5>1, <5>2
      <4>2. QED BY <4>1
    <3>3. Len(Run(b, k)) = k
      BY RunIs
    <3> HIDE DEF T
    <3>4. c \in Seq(T)
      <4> DEFINE S == 0 .. a
      <4>1. c \in Seq(S) /\ S \subseteq T
        BY <2>2, <3>1
      <4> HIDE DEF S
      <4>2. QED BY <4>1
    <3>5. Run(b, k) \in Seq(T)
      BY <3>2, IsASeq DEF Run
    <3>6. QED BY <3>4, <3>5 DEF T
  <2>7. RxContent' \in Seq(0 .. Arrived') /\ RxContent' # << >> /\ Head(RxContent') = got'
        /\ Rising(Tail(RxContent'), got') /\ main' = "take"
    BY <1>3, <1>4, <1>9, <2>3, <2>5, <2>6 DEF c
  <2>8. QED BY <1>4, <1>5, <2>7, RxReceive, SMTT(40) DEF CRx, CRxTypes, CRxOrder
<1>10. QED BY <1>8, <1>9

\* The reset of the bus takes what waits in the endpoint away.
LEMMA RxLostStep ==
  ASSUME CRx, out' = << >>, UNCHANGED <<rx, cdcSent, got, main>>
  PROVE  CRx'
<1>1. /\ Arrived \in 0 .. cdcSent /\ cdcSent \in Nat /\ got \in 0 .. Arrived
      /\ RxContent \in Seq(0 .. Arrived) /\ RxContent' = RxContent
  BY RxParts, CdcSizes DEF CRx, CRxTypes, CRxOrder, RxContent
<1>2. Arrived' = cdcSent /\ out' = Run(Arrived', Len(out')) /\ out' \in Seq(Nat)
  BY <1>1 DEF Arrived, Run
<1>3. RxContent' \in Seq(0 .. Arrived')
  <2> DEFINE S == 0 .. Arrived
             T == 0 .. cdcSent
             c == RxContent
  <2>1. S \subseteq T /\ c \in Seq(S)
    BY <1>1
  <2> HIDE DEF S, T, c
  <2>2. c \in Seq(T)
    BY <2>1
  <2>3. QED BY <1>1, <1>2, <2>2 DEF c, T
<1>4. QED BY <1>1, <1>2, <1>3 DEF CRx, CRxTypes, CRxOrder

LEMMA RxStep ==
  ASSUME CRx, [Cdc!Next]_Cdc!vars
  PROVE  CRx'
<1>1. CASE Cdc!GetRead
  BY <1>1, RxReadStep
<1>2. CASE Cdc!GetIndex
  BY <1>2, RxIndexStep
<1>3. CASE Cdc!ConInit \/ Cdc!PutStore \/ Cdc!PutIndex \/ Cdc!PutEnable
  <2>1. UNCHANGED <<rx, out, cdcSent, got>> /\ "take" \notin {main, main'}
    BY <1>3 DEF Cdc!ConInit, Cdc!PutStore, Cdc!PutIndex, Cdc!PutEnable, Cdc!Main, Cdc!rings
  <2>2. QED BY <2>1, RxStill
<1>4. CASE Cdc!Interrupt
  BY <1>4, RxReceiveStep DEF Cdc!Interrupt
<1>5. CASE Cdc!EpWrite \/ Cdc!LineCoding \/ Cdc!Address
  <2>1. UNCHANGED <<rx, out, cdcSent, got, main>>
    BY <1>5 DEF Cdc!EpWrite, Cdc!LineCoding, Cdc!Address, Cdc!rings
  <2>2. QED BY <2>1, RxStill
<1>6. CASE Cdc!BusReset
  BY <1>6, RxLostStep DEF Cdc!BusReset, Cdc!rings
<1>7. CASE Cdc!HostOut
  BY <1>7, RxSentStep
<1>8. CASE Cdc!HostIn \/ Cdc!HostIn0 \/ Cdc!HostData \/ \E r \in Requests : Cdc!Ask(r)
  <2>1. UNCHANGED <<rx, out, cdcSent, got, main>>
    BY <1>8 DEF Cdc!HostIn, Cdc!HostIn0, Cdc!HostData, Cdc!Ask, Cdc!rings
  <2>2. QED BY <2>1, RxStill
<1>9. CASE UNCHANGED Cdc!vars
  <2>1. UNCHANGED <<rx, out, cdcSent, got, main>>
    BY <1>9 DEF Cdc!vars, Cdc!rings
  <2>2. QED BY <2>1, RxStill
<1>10. QED
  BY <1>1, <1>2, <1>3, <1>4, <1>5, <1>6, <1>7, <1>8, <1>9 DEF Cdc!Next, Cdc!Program

LEMMA CInitInv == Cdc!Init => CInv
<1> SUFFICES ASSUME Cdc!Init PROVE CInv
  OBVIOUS
<1>1. CControl
  BY CdcSizes DEF Cdc!Init, CControl, Cdc!NoIsr, Cdc!None
<1>2. /\ tx = [buf |-> [i \in 0 .. TxSize - 1 |-> 0], wr |-> 0, rd |-> 0]
      /\ rx = [buf |-> [i \in 0 .. RxSize - 1 |-> 0], wr |-> 0, rd |-> 0]
      /\ bank = << >> /\ out = << >> /\ put = 0 /\ cdcTaken = 0 /\ cdcSent = 0 /\ got = 0
      /\ main = "init"
  BY DEF Cdc!Init
<1>3. TxContent = << >> /\ RxContent = << >>
  <2>1. tx.wr = 0 /\ tx.rd = 0 /\ rx.wr = 0 /\ rx.rd = 0
    BY <1>2
  <2>2. 0 \in 0 .. TxSize - 1 /\ 0 \in 0 .. RxSize - 1
    BY CdcSizes
  <2>3. QED BY <2>1, <2>2, CdcSizes, RingEmpty DEF TxContent, RxContent
<1>4. CTxTypes /\ CRxTypes /\ Arrived = 0
  <2>1. /\ tx \in [buf : [0 .. TxSize - 1 -> Nat], wr : 0 .. TxSize - 1, rd : 0 .. TxSize - 1]
        /\ rx \in [buf : [0 .. RxSize - 1 -> Nat], wr : 0 .. RxSize - 1, rd : 0 .. RxSize - 1]
    <3>1. 0 \in 0 .. TxSize - 1 /\ 0 \in 0 .. RxSize - 1
      BY CdcSizes
    <3>2. QED BY <1>2, <3>1
  <2>2. bank \in Seq(Nat) /\ out \in Seq(Nat) /\ Len(out) = 0
    BY <1>2
  <2>3. put \in 0 .. CdcPuts /\ cdcTaken \in 0 .. put /\ cdcSent \in 0 .. CdcChars
    BY <1>2, CdcSizes
  <2>4. Arrived = 0
    <3>1. cdcSent = 0 /\ Len(out) = 0
      BY <1>2, <2>2
    <3>2. QED BY <3>1 DEF Arrived
  <2>5. QED BY <2>1, <2>2, <2>3, <2>4 DEF CTxTypes, CRxTypes
<1>5. CTxOrder
  BY <1>2, <1>3 DEF CTxOrder, Run
<1>6. CRxOrder
  BY <1>2, <1>3, <1>4 DEF CRxOrder, Run, Rising
<1>7. CBank
  BY <1>2 DEF CBank
<1>8. QED BY <1>1, <1>4, <1>5, <1>6, <1>7 DEF CInv, CTx, CRx

LEMMA CNextInv ==
  ASSUME CInv, [Cdc!Next]_Cdc!vars
  PROVE  CInv'
  BY CControlStep, TxStep, RxStep DEF CInv

LEMMA CInvIs == CInv => Cdc!TypeOK /\ Cdc!TxInOrder /\ Cdc!RxInOrder
<1> SUFFICES ASSUME CInv PROVE Cdc!TypeOK /\ Cdc!TxInOrder /\ Cdc!RxInOrder
  OBVIOUS
<1>1. CControl /\ CTxTypes /\ CTxOrder /\ CRxTypes /\ CRxOrder
  BY DEF CInv, CTx, CRx
<1>2. /\ tx.wr \in 0 .. TxSize - 1 /\ tx.rd \in 0 .. TxSize - 1
      /\ rx.wr \in 0 .. RxSize - 1 /\ rx.rd \in 0 .. RxSize - 1
  BY <1>1, TxParts, RxParts
<1>3. cdcTaken \in 0 .. put /\ put <= CdcPuts
  BY <1>1, CdcSizes DEF CTxTypes
<1>4. got \in 0 .. cdcSent /\ cdcSent <= CdcChars
  <2>1. got \in 0 .. Arrived /\ Arrived \in 0 .. cdcSent /\ cdcSent \in 0 .. CdcChars
    BY <1>1, RxParts DEF CRxOrder, CRxTypes
  <2>2. QED BY <2>1, CdcSizes
<1>5. Cdc!TypeOK
  BY <1>1, <1>2, <1>3, <1>4 DEF Cdc!TypeOK, CControl
<1>6. Cdc!TxInOrder
  BY <1>1, CContent DEF Cdc!TxInOrder, CTxOrder, TxContent, Run
<1>7. Cdc!RxInOrder
  <2> DEFINE s == RxContent
  <2>1. Cdc!Content(rx, RxSize) = s
    BY CContent DEF RxContent
  <2>2. s \in Seq(Nat)
    BY <1>1, RxParts
  <2>3. CASE main # "take"
    <3>1. Rising(s, got)
      BY <1>1, <2>3 DEF CRxOrder
    <3> HIDE DEF s
    <3>2. QED BY <2>1, <2>3, <3>1 DEF Cdc!RxInOrder, Rising
  <2>4. CASE main = "take"
    <3>1. s # << >> /\ Head(s) = got /\ Rising(Tail(s), got)
      BY <1>1, <2>4 DEF CRxOrder
    <3> HIDE DEF s
    <3>2. s[1] = got
      BY <2>2, <3>1
    <3>3. SubSeq(s, 2, Len(s)) = Tail(s)
      BY <2>2, <3>1, TailIsSubSeq
    <3>4. \A i \in 1 .. Len(Tail(s)) : Tail(s)[i] > (IF i = 1 THEN got ELSE Tail(s)[i - 1])
      BY <3>1 DEF Rising
    <3> DEFINE u == Tail(s)
    <3> HIDE DEF u
    <3>5. QED BY <2>1, <2>4, <3>1, <3>2, <3>3, <3>4, Zenon DEF Cdc!RxInOrder
  <2>5. QED BY <2>3, <2>4
<1>8. QED BY <1>5, <1>6, <1>7

LEMMA CdcLossOnlyFull ==
  ASSUME CInv, [Cdc!Next]_Cdc!vars, out # << >>, out' = << >>, resets' = resets
  PROVE  LET had == Len(Cdc!Content(rx, RxSize))
             has == Len(Cdc!Content(rx', RxSize))
         IN  has = RxSize - 1 \/ has - had = Len(out) - Cdc!Disposed
<1>1. Cdc!Interrupt
  <2>1. CASE Cdc!Program
    BY <2>1 DEF Cdc!Program, Cdc!ConInit, Cdc!PutStore, Cdc!PutIndex, Cdc!PutEnable,
                Cdc!GetRead, Cdc!GetIndex
  <2>2. CASE Cdc!EpWrite \/ Cdc!LineCoding \/ Cdc!Address
    BY <2>2 DEF Cdc!EpWrite, Cdc!LineCoding, Cdc!Address
  <2>3. CASE Cdc!BusReset
    <3>1. resets' = resets - 1 /\ resets \in Nat
      BY <2>3 DEF Cdc!BusReset, CInv, CControl
    <3>2. QED BY <3>1
  <2>4. CASE Cdc!HostIn \/ Cdc!HostIn0 \/ Cdc!HostData \/ \E r \in Requests : Cdc!Ask(r)
    BY <2>4 DEF Cdc!HostIn, Cdc!HostIn0, Cdc!HostData, Cdc!Ask
  <2>5. CASE Cdc!HostOut
    BY <2>5 DEF Cdc!HostOut
  <2>6. CASE UNCHANGED Cdc!vars
    BY <2>6 DEF Cdc!vars
  <2>7. QED BY <2>1, <2>2, <2>3, <2>4, <2>5, <2>6 DEF Cdc!Next
<1>2. Len(RxContent') = Len(RxContent) + Len(Cdc!Stored)
  BY <1>1, RxReceive DEF Cdc!Interrupt, CInv
<1>3. Len(Cdc!Stored) \in {Cdc!Free, Len(out) - Cdc!Disposed}
  BY RxStored DEF CInv
<1>4. Len(RxContent) \in Nat /\ Cdc!Free = RxSize - 1 - Len(RxContent)
  BY RxFree DEF CInv, CRx
<1>5. Len(out) \in Nat /\ Cdc!Disposed \in Nat
  BY RxParts DEF CInv, CRx, Cdc!Disposed
<1>6. Cdc!Content(rx, RxSize) = RxContent /\ Cdc!Content(rx', RxSize) = RxContent'
  BY CContent DEF RxContent
<1>7. Len(RxContent') = RxSize - 1 \/ Len(RxContent') - Len(RxContent) = Len(out) - Cdc!Disposed
  BY <1>2, <1>3, <1>4, <1>5, CdcSizes
<1>8. QED BY <1>6, <1>7
-----------------------------------------------------------------------------

LEMMA UartInvariance == Uart!Spec => []UInv
<1>1. UInv /\ [Uart!Next]_Uart!vars => UInv'
  BY UNextInv
<1>2. QED BY <1>1, UInitInv, PTL DEF Uart!Spec

LEMMA CdcInvariance == Cdc!Init /\ [][Cdc!Next]_Cdc!vars => []CInv
<1>1. CInv /\ [Cdc!Next]_Cdc!vars => CInv'
  BY CNextInv
<1>2. QED BY <1>1, CInitInv, PTL

\* For rings of every size from two on, every packet size and every set of
\* requests: the indices stay in the rings, and between an interrupt handler
\* and the program, wherever the one breaks into the other, no character is
\* given twice or out of order, and none that con_putchar() was given is lost
\* (uart_push(), con_getchar(), con_putchar(), USB_COM_vect).
THEOREM CharactersInOrder == RingsSpec => []RingsInOrder
<1>1. UInv /\ CInv => RingsInOrder
  BY UInvIs, CInvIs DEF RingsInOrder
<1>2. QED BY <1>1, UartInvariance, CdcInvariance, PTL DEF RingsSpec

\* A character received is lost only when its ring is full, the read pointer
\* of the serial console not being at 0, or as the first one of the USB
\* console, or by a reset of the bus.
THEOREM LossOnlyWhenFull == RingsSpec => DroppedOnlyFull
<1>1. UInv /\ [Uart!Next]_Uart!vars =>
        [pushed' # pushed /\ rd # 0 =>
           \/ Len(Uart!Content) < UartSize - 1 /\ Len(Uart!Content') = Len(Uart!Content) + 1
           \/ Len(Uart!Content) = UartSize - 1 /\ Uart!Content' = Uart!Content]_Uart!vars
  BY UartPushKept
<1>2. CInv /\ [Cdc!Next]_Cdc!vars =>
        [out # << >> /\ out' = << >> /\ resets' = resets =>
           LET had == Len(Cdc!Content(rx, RxSize))
               has == Len(Cdc!Content(rx', RxSize))
           IN  has = RxSize - 1 \/ has - had = Len(out) - Cdc!Disposed]_Cdc!vars
  BY CdcLossOnlyFull
<1>3. Uart!Spec => Uart!PushKept
  BY <1>1, UartInvariance, PTL DEF Uart!Spec, Uart!PushKept
<1>4. Cdc!Init /\ [][Cdc!Next]_Cdc!vars => Cdc!RxLossOnlyFull
  BY <1>2, CdcInvariance, PTL DEF Cdc!RxLossOnlyFull
<1>5. QED BY <1>3, <1>4, PTL DEF RingsSpec, DroppedOnlyFull
-----------------------------------------------------------------------------
(* The control endpoint of the USB console: a descriptor goes to the host   *)
(* in packets, by ep_write(), until a short one.                            *)

\* What is given of a descriptor: as much as the host asks for and as there is.
Asked(r) == IF r.size < r.wLength THEN r.size ELSE r.wLength

\* No request ends with a full packet by its own length; there ep_write()
\* prepares an empty packet the host does not ask for.
AsksUneven == \A r \in Requests :
                r.kind = "descriptor" /\ r.wLength \in 1 .. r.size =>
                  r.wLength % Packet # 0

Request == transfer.request
ControlTypes ==
  /\ transfer = [request |-> transfer.request, got |-> transfer.got]
  /\ Request \in Requests \cup {Cdc!None}
  /\ setup # Cdc!None => setup = Request
  /\ setup # Cdc!None \/ isr.stage = "data" => bank0 = Cdc!NoPacket
  /\ isr.stage = "data" => setup = Cdc!None /\ Request.kind = "set_line_coding"
  /\ isr.stage = "send" => Request.kind = "descriptor"

\* The transfer of a descriptor: its set-up packet has come; the handler is in
\* ep_write(); the last packet waits for the host.
Begun == setup = Request /\ transfer.got = 0 /\ isr.stage # "send"
Sending == /\ setup = Cdc!None /\ isr.stage = "send"
           /\ isr.left \in Nat /\ transfer.got \in Nat /\ transfer.got % Packet = 0
           /\ \/ bank0 = Cdc!NoPacket /\ transfer.got + isr.left = Asked(Request)
              \/ bank0 = Packet /\ transfer.got + Packet + isr.left = Asked(Request)
Ending == /\ setup = Cdc!None /\ isr = Cdc!NoIsr
          /\ bank0 \in 0 .. Packet - 1 /\ transfer.got + bank0 = Asked(Request)
Replying == Request.kind = "descriptor" => Begun \/ Sending \/ Ending

ControlInv == ControlTypes /\ Replying

LEMMA DescriptorReply ==
  ASSUME NEW r \in Requests, r.kind = "descriptor"
  PROVE  /\ Cdc!Reply(r) = Asked(r) /\ Asked(r) \in Nat
         /\ r.wLength \in Nat /\ r.size \in Nat
<1>1. /\ r.wLength \in Nat
      /\ \E d \in DOMAIN Cdc!Descriptor : r.size = Cdc!Descriptor[d]
  BY RingsAssumption, Zenon DEF Cdc!CdcAssumption
<1>2. r.size \in 0 .. 67
  BY <1>1 DEF Cdc!Descriptor
<1>3. Asked(r) \in 0 .. 67
  BY <1>1, <1>2 DEF Asked
<1>4. QED BY <1>1, <1>2, <1>3 DEF Asked, Cdc!Reply

\* A request is none of the host's before it asks.
LEMMA NoneAsked ==
  ASSUME transfer = Cdc!NoTransfer
  PROVE  Request = Cdc!None /\ Request.kind = "none" /\ transfer.got = 0
  BY DEF Cdc!NoTransfer, Request, Cdc!None

LEMMA ControlInit == Cdc!Init => ControlInv
<1> SUFFICES ASSUME Cdc!Init PROVE ControlInv
  OBVIOUS
<1>1. /\ transfer = Cdc!NoTransfer /\ setup = Cdc!None /\ bank0 = Cdc!NoPacket
      /\ isr = Cdc!NoIsr
  BY DEF Cdc!Init
<1>2. isr.stage = "none"
  BY <1>1 DEF Cdc!NoIsr
<1>3. Request = Cdc!None /\ Request.kind = "none"
  BY <1>1, NoneAsked
<1>4. ControlTypes
  BY <1>1, <1>2, <1>3 DEF ControlTypes, Cdc!NoTransfer
<1>5. QED BY <1>3, <1>4 DEF ControlInv, Replying

LEMMA ControlSame ==
  ASSUME ControlInv, UNCHANGED <<transfer, setup, bank0, isr>>
  PROVE  ControlInv'
  BY DEF ControlInv, ControlTypes, Replying, Begun, Sending, Ending, Request

LEMMA ControlInterrupt ==
  ASSUME ControlInv, Cdc!Interrupt
  PROVE  ControlInv'
<1>1. isr = Cdc!NoIsr /\ isr.stage = "none" /\ setup' = Cdc!None
  BY DEF Cdc!Interrupt, Cdc!NoIsr
<1>2. CASE setup = Cdc!None
  <2>1. UNCHANGED <<transfer, setup, bank0, isr>>
    BY <1>1, <1>2 DEF Cdc!Interrupt
  <2>2. QED BY <2>1, ControlSame
<1>3. CASE setup # Cdc!None
  <2>1. /\ Cdc!Answer(setup) /\ setup = Request /\ setup \in Requests
        /\ bank0 = Cdc!NoPacket
    BY <1>3 DEF Cdc!Interrupt, ControlInv, ControlTypes
  <2>2. CASE transfer' = Cdc!NoTransfer /\ isr' = Cdc!NoIsr
    <3>1. Request' = Cdc!None /\ Request'.kind = "none" /\ isr'.stage = "none"
      BY <2>2 DEF Cdc!NoTransfer, Request, Cdc!None, Cdc!NoIsr
    <3>2. ControlTypes'
      BY <1>1, <2>2, <3>1 DEF ControlTypes, Cdc!NoTransfer
    <3>3. QED BY <3>1, <3>2 DEF ControlInv, Replying
  <2>3. CASE /\ transfer' = transfer /\ setup.kind # "descriptor"
             /\ \/ isr'.stage \in {"none", "address"}
                \/ /\ isr'.stage = "data" /\ bank0' = bank0
                   /\ setup.kind = "set_line_coding"
    <3>1. Request' = Request
      BY <2>3 DEF Request
    <3>2. ControlTypes'
      BY <1>1, <2>1, <2>3, <3>1 DEF ControlTypes, ControlInv
    <3>3. QED BY <2>1, <2>3, <3>1, <3>2 DEF ControlInv, Replying
  <2>4. CASE /\ transfer' = transfer /\ setup.kind = "descriptor" /\ bank0' = bank0
             /\ isr' = [stage |-> "send", left |-> Cdc!Reply(setup)]
    <3>1. /\ Request' = Request /\ isr'.stage = "send"
          /\ isr'.left = Cdc!Reply(setup)
      BY <2>4 DEF Request
    <3>2. ControlTypes'
      BY <1>1, <2>1, <2>4, <3>1 DEF ControlTypes, ControlInv
    <3>3. transfer.got = 0
      <4>1. ~Sending /\ (Ending => bank0 # Cdc!NoPacket)
        BY <1>1, <1>3 DEF Sending, Ending
      <4>2. QED
        BY <1>3, <2>1, <2>4, <4>1 DEF ControlInv, Replying, Begun, Ending
    <3>4. isr'.left = Asked(Request) /\ Asked(Request) \in Nat
      BY <2>1, <2>4, <3>1, DescriptorReply
    <3>5. 0 % Packet = 0
      BY CdcSizes
    <3>6. Asked(Request)' = Asked(Request)
      BY <3>1 DEF Asked
    <3>7. Sending'
      BY <1>1, <2>1, <2>4, <3>1, <3>3, <3>4, <3>5, <3>6 DEF Sending
    <3>8. QED BY <3>2, <3>7 DEF ControlInv, Replying
  <2>5. QED
    <3>1. CASE Cdc!Ready = "error" \/ setup.kind = "unknown"
      BY <2>1, <2>2, <3>1 DEF Cdc!Answer, Cdc!Stall
    <3>2. CASE Cdc!Ready # "error" /\ setup.kind = "qualifier"
      BY <2>1, <2>2, <3>2 DEF Cdc!Answer, Cdc!Stall
    <3>3. CASE Cdc!Ready # "error" /\ setup.kind = "descriptor"
      BY <2>1, <2>4, <3>3 DEF Cdc!Answer
    <3>4. CASE Cdc!Ready # "error" /\ setup.kind = "set_line_coding"
      BY <2>1, <2>3, <3>4 DEF Cdc!Answer
    <3>5. CASE Cdc!Ready # "error" /\ setup.kind = "set_line_state"
      BY <2>1, <2>3, <3>5 DEF Cdc!Answer, Cdc!NoIsr
    <3>6. CASE Cdc!Ready # "error" /\ setup.kind = "set_address"
      BY <2>1, <2>3, <3>6 DEF Cdc!Answer
    <3>7. CASE Cdc!Ready # "error"
               /\ setup.kind \notin {"unknown", "qualifier", "descriptor",
                                     "set_line_coding", "set_line_state", "set_address"}
      BY <2>1, <2>3, <3>7 DEF Cdc!Answer, Cdc!Status, Cdc!NoIsr
    <3>8. QED BY <3>1, <3>2, <3>3, <3>4, <3>5, <3>6, <3>7
<1>4. QED BY <1>2, <1>3

LEMMA ControlWrite ==
  ASSUME ControlInv, Cdc!EpWrite
  PROVE  ControlInv'
<1>1. /\ isr.stage = "send" /\ bank0 = Cdc!NoPacket
      /\ UNCHANGED <<transfer, setup>> /\ Request' = Request
  BY DEF Cdc!EpWrite, Request
<1>2. Request.kind = "descriptor"
  BY <1>1 DEF ControlInv, ControlTypes
<1>3. Sending
  BY <1>1, <1>2 DEF ControlInv, Replying, Begun, Ending, Cdc!NoIsr
<1>4. /\ setup = Cdc!None /\ isr.left \in Nat /\ transfer.got \in Nat
      /\ transfer.got + isr.left = Asked(Request) /\ transfer.got % Packet = 0
      /\ Packet \in Nat \ {0}
  BY <1>1, <1>3, CdcSizes DEF Sending, Cdc!NoPacket
<1>5. Asked(Request)' = Asked(Request)
  BY <1>1 DEF Asked
<1>6. CASE isr.left < Packet
  <2>1. bank0' = isr.left /\ isr' = Cdc!NoIsr
    BY <1>6 DEF Cdc!EpWrite, Cdc!EndsShort
  <2>2. isr'.stage = "none" /\ bank0' \in 0 .. Packet - 1
    BY <1>4, <1>6, <2>1 DEF Cdc!NoIsr
  <2>3. ControlTypes'
    BY <1>1, <1>4, <2>2 DEF ControlTypes, ControlInv
  <2>4. Ending'
    BY <1>1, <1>4, <1>5, <2>1, <2>2 DEF Ending
  <2>5. QED BY <2>3, <2>4 DEF ControlInv, Replying
<1>7. CASE ~(isr.left < Packet)
  <2>1. bank0' = Packet /\ isr' = [isr EXCEPT !.left = @ - Packet]
    BY <1>7 DEF Cdc!EpWrite, Cdc!EndsShort
  <2>2. isr'.stage = "send" /\ isr'.left = isr.left - Packet
    BY <1>1, <1>4, <2>1 DEF Cdc!EpWrite
  <2>3. ControlTypes'
    BY <1>1, <1>2, <1>4, <2>2 DEF ControlTypes, ControlInv
  <2>4. isr'.left \in Nat /\ transfer.got + Packet + isr'.left = Asked(Request)
    BY <1>4, <1>7, <2>2
  <2>5. Sending'
    BY <1>1, <1>4, <1>5, <2>1, <2>2, <2>4 DEF Sending
  <2>6. QED BY <2>3, <2>5 DEF ControlInv, Replying
<1>8. QED BY <1>6, <1>7

\* The host takes a packet: either the transfer goes on, or all is there.
LEMMA ControlTaken ==
  ASSUME ControlInv, AsksUneven, Cdc!HostIn0
  PROVE  /\ ControlInv'
         /\ Request.kind = "descriptor" /\ transfer' = Cdc!NoTransfer =>
              transfer.got + bank0 = Asked(Request)
<1>1. /\ bank0 # Cdc!NoPacket /\ transfer # Cdc!NoTransfer /\ bank0' = Cdc!NoPacket
      /\ UNCHANGED <<setup, isr>>
      /\ transfer' = IF bank0 < Packet \/ transfer.got + bank0 >= Request.wLength
                     THEN Cdc!NoTransfer
                     ELSE [transfer EXCEPT !.got = @ + bank0]
  BY DEF Cdc!HostIn0, Request
<1>2. setup = Cdc!None /\ isr.stage # "data"
  BY <1>1 DEF ControlInv, ControlTypes
<1>3. ASSUME bank0 < Packet \/ transfer.got + bank0 >= Request.wLength,
             isr.stage # "send"
      PROVE  ControlInv'
  <2>1. transfer' = Cdc!NoTransfer
    BY <1>1, <1>3
  <2>2. Request' = Cdc!None /\ Request'.kind = "none"
    BY <2>1 DEF Cdc!NoTransfer, Request, Cdc!None
  <2>3. ControlTypes'
    BY <1>1, <1>2, <1>3, <2>1, <2>2 DEF ControlTypes, Cdc!NoTransfer
  <2>4. QED BY <2>2, <2>3 DEF ControlInv, Replying
<1>4. ASSUME ~(bank0 < Packet \/ transfer.got + bank0 >= Request.wLength)
      PROVE  /\ transfer' = [request |-> Request, got |-> transfer.got + bank0]
             /\ Request' = Request /\ ControlTypes'
  <2>1. transfer = [request |-> Request, got |-> transfer.got]
    BY DEF ControlInv, ControlTypes, Request
  <2>2. transfer' = [request |-> Request, got |-> transfer.got + bank0]
    BY <1>1, <1>4, <2>1
  <2>3. Request' = Request
    BY <2>2 DEF Request
  <2>4. QED
    BY <1>1, <1>2, <2>2, <2>3 DEF ControlTypes, ControlInv
<1>5. CASE Request.kind # "descriptor"
  <2>1. isr.stage # "send"
    BY <1>5 DEF ControlInv, ControlTypes
  <2>2. CASE bank0 < Packet \/ transfer.got + bank0 >= Request.wLength
    BY <1>3, <1>5, <2>1, <2>2
  <2>3. CASE ~(bank0 < Packet \/ transfer.got + bank0 >= Request.wLength)
    BY <1>4, <1>5, <2>3 DEF ControlInv, Replying
  <2>4. QED BY <2>2, <2>3
<1>6. CASE Request.kind = "descriptor"
  <2>1. Request \in Requests /\ Request # Cdc!None
    BY <1>6 DEF ControlInv, ControlTypes, Cdc!None
  <2>2. /\ Request.wLength \in Nat /\ Request.size \in Nat /\ Asked(Request) \in Nat
        /\ Packet \in Nat \ {0}
    BY <1>6, <2>1, DescriptorReply, CdcSizes
  <2>3. Sending \/ Ending
    BY <1>2, <1>6, <2>1 DEF ControlInv, Replying, Begun
  <2>4. CASE Ending
    <3>1. /\ bank0 < Packet /\ transfer.got + bank0 = Asked(Request)
          /\ isr.stage # "send"
      BY <2>2, <2>4 DEF Ending, Cdc!NoIsr
    <3>2. QED BY <1>3, <3>1
  <2>5. CASE Sending
    <3>1. /\ bank0 = Packet /\ isr.stage = "send" /\ isr.left \in Nat
          /\ transfer.got \in Nat /\ transfer.got % Packet = 0
          /\ transfer.got + Packet + isr.left = Asked(Request)
      BY <1>1, <2>5 DEF Sending
    <3>2. (transfer.got + Packet) % Packet = 0
      BY <2>2, <3>1, RemainderMore, Zenon
    <3>3. transfer.got + Packet < Request.wLength
      <4>1. SUFFICES ASSUME transfer.got + Packet >= Request.wLength PROVE FALSE
        BY <2>2, <3>1
      <4>2. Asked(Request) <= Request.wLength /\ Asked(Request) <= Request.size
        BY <2>2 DEF Asked
      <4>3. /\ Request.wLength = transfer.got + Packet
            /\ Request.wLength \in 1 .. Request.size
        <5>1. transfer.got + Packet <= Asked(Request) /\ transfer.got + Packet \in Nat \ {0}
          BY <2>2, <3>1
        <5>2. PICK n, w, z, q \in Nat : /\ n = transfer.got + Packet /\ w = Request.wLength
                                       /\ z = Request.size /\ q = Asked(Request)
          BY <2>2, <5>1
        <5>3. n # 0 /\ n <= q /\ q <= w /\ q <= z /\ n >= w
          BY <4>1, <4>2, <5>1, <5>2
        <5>4. w = n /\ w \in 1 .. z
          BY <5>3
        <5>5. QED BY <5>2, <5>4
      <4>4. QED BY <1>6, <2>1, <3>2, <4>3, Zenon DEF AsksUneven
    <3>4. ~(bank0 < Packet \/ transfer.got + bank0 >= Request.wLength)
      BY <2>2, <3>1, <3>3
    <3>5. /\ transfer' = [request |-> Request, got |-> transfer.got + bank0]
          /\ Request' = Request /\ ControlTypes'
      BY <1>4, <3>4
    <3>6. transfer'.got = transfer.got + Packet /\ transfer' # Cdc!NoTransfer
      BY <2>1, <3>1, <3>5 DEF Cdc!NoTransfer
    <3>7. Asked(Request)' = Asked(Request)
      BY <3>5 DEF Asked
    <3>8. Sending'
      BY <1>1, <1>2, <2>2, <3>1, <3>2, <3>5, <3>6, <3>7 DEF Sending
    <3>9. QED BY <3>5, <3>6, <3>8 DEF ControlInv, Replying
  <2>6. QED BY <2>3, <2>4, <2>5
<1>7. QED BY <1>5, <1>6

LEMMA ControlCoding ==
  ASSUME ControlInv, Cdc!LineCoding
  PROVE  ControlInv' /\ Request.kind # "descriptor"
<1>1. /\ isr.stage = "data" /\ setup' = setup /\ isr' = Cdc!NoIsr
      /\ \/ transfer' = transfer
         \/ transfer' = Cdc!NoTransfer /\ bank0' = bank0
  BY DEF Cdc!LineCoding, Cdc!Stall
<1>2. Request.kind = "set_line_coding" /\ isr'.stage = "none"
  BY <1>1 DEF ControlInv, ControlTypes, Cdc!NoIsr
<1>3. setup = Cdc!None
  BY <1>1 DEF Cdc!LineCoding, ControlInv, ControlTypes
<1>4. CASE transfer' = transfer
  <2>1. Request' = Request
    BY <1>4 DEF Request
  <2>2. ControlTypes'
    BY <1>1, <1>2, <1>3, <1>4, <2>1 DEF ControlTypes, ControlInv
  <2>3. QED BY <1>2, <2>1, <2>2 DEF ControlInv, Replying
<1>5. CASE transfer' = Cdc!NoTransfer /\ bank0' = bank0
  <2>1. Request' = Cdc!None /\ Request'.kind = "none"
    BY <1>5 DEF Cdc!NoTransfer, Request, Cdc!None
  <2>2. ControlTypes'
    BY <1>1, <1>2, <1>3, <1>5, <2>1 DEF ControlTypes, Cdc!NoTransfer
  <2>3. QED BY <1>2, <2>1, <2>2 DEF ControlInv, Replying
<1>6. QED BY <1>1, <1>4, <1>5

LEMMA ControlStep ==
  ASSUME ControlInv, AsksUneven, [Cdc!Next]_Cdc!vars
  PROVE  ControlInv'
<1>1. CASE Cdc!Program
  BY <1>1, ControlSame DEF Cdc!Program, Cdc!ConInit, Cdc!PutStore, Cdc!PutIndex,
     Cdc!PutEnable, Cdc!GetRead, Cdc!GetIndex, Cdc!control
<1>2. CASE Cdc!Interrupt
  BY <1>2, ControlInterrupt
<1>3. CASE Cdc!EpWrite
  BY <1>3, ControlWrite
<1>4. CASE Cdc!LineCoding
  BY <1>4, ControlCoding
<1>5. CASE Cdc!Address
  <2>1. /\ isr.stage = "address" /\ bank0 = Cdc!NoPacket /\ isr' = Cdc!NoIsr
        /\ UNCHANGED <<transfer, setup, bank0>> /\ Request' = Request
    BY <1>5 DEF Cdc!Address, Cdc!control, Request
  <2>2. isr'.stage = "none"
    BY <2>1 DEF Cdc!NoIsr
  <2>3. ControlTypes'
    BY <2>1, <2>2 DEF ControlTypes, ControlInv
  <2>4. Request.kind = "descriptor" => Begun
    BY <2>1 DEF ControlInv, Replying, Sending, Ending, Cdc!NoIsr
  <2>5. Begun => Begun'
    BY <2>1, <2>2 DEF Begun
  <2>6. QED BY <2>1, <2>3, <2>4, <2>5 DEF ControlInv, Replying
<1>6. CASE Cdc!BusReset
  <2>1. /\ transfer = Cdc!NoTransfer /\ setup = Cdc!None /\ isr = Cdc!NoIsr
        /\ UNCHANGED <<transfer, setup, isr>> /\ bank0' = Cdc!NoPacket
        /\ Request' = Request
    BY <1>6 DEF Cdc!BusReset, Request
  <2>2. ControlTypes'
    BY <2>1 DEF ControlTypes, ControlInv
  <2>3. QED BY <2>1, <2>2, NoneAsked DEF ControlInv, Replying
<1>7. CASE Cdc!HostIn \/ Cdc!HostOut \/ Cdc!HostData
  BY <1>7, ControlSame DEF Cdc!HostIn, Cdc!HostOut, Cdc!HostData, Cdc!control
<1>8. CASE Cdc!HostIn0
  BY <1>8, ControlTaken
<1>9. ASSUME NEW r \in Requests, Cdc!Ask(r) PROVE ControlInv'
  <2>1. /\ transfer = Cdc!NoTransfer /\ transfer' = [request |-> r, got |-> 0]
        /\ setup' = r /\ bank0' = Cdc!NoPacket /\ isr' = isr
    BY <1>9 DEF Cdc!Ask
  <2>2. isr.stage \notin {"send", "data"}
    BY <2>1, NoneAsked DEF ControlInv, ControlTypes
  <2>3. Request' = r
    BY <2>1 DEF Request
  <2>4. ControlTypes'
    BY <2>1, <2>2, <2>3 DEF ControlTypes
  <2>5. Begun'
    BY <2>1, <2>2, <2>3 DEF Begun
  <2>6. QED BY <2>4, <2>5 DEF ControlInv, Replying
<1>10. CASE UNCHANGED Cdc!vars
  BY <1>10, ControlSame DEF Cdc!vars, Cdc!control
<1>11. QED
  BY <1>1, <1>2, <1>3, <1>4, <1>5, <1>6, <1>7, <1>8, <1>9, <1>10 DEF Cdc!Next

\* Whatever the sizes of the packets and the set of requests, however the
\* characters and the requests interleave: a transfer of a descriptor that ends
\* with a packet has given the host as much as it asks for and as there is, when
\* no request ends with a full packet by its own length (ep_write()).
THEOREM DescriptorsWhole ==
  AsksUneven =>
    (Cdc!Init /\ [][Cdc!Next]_Cdc!vars => Cdc!DescriptorWhole)
<1> SUFFICES ASSUME AsksUneven
             PROVE  Cdc!Init /\ [][Cdc!Next]_Cdc!vars => Cdc!DescriptorWhole
  OBVIOUS
<1>1. ControlInv /\ [Cdc!Next]_Cdc!vars => ControlInv'
  BY ControlStep
<1>2. ControlInv /\ [Cdc!Next]_Cdc!vars =>
        [Request.kind = "descriptor" /\ transfer' = Cdc!NoTransfer
           /\ bank0 # Cdc!NoPacket => transfer.got + bank0 = Asked(Request)]_Cdc!vars
  <2> SUFFICES ASSUME ControlInv, Cdc!Next, Request.kind = "descriptor",
                      transfer' = Cdc!NoTransfer, bank0 # Cdc!NoPacket
               PROVE  transfer.got + bank0 = Asked(Request)
    BY DEF Cdc!vars
  <2>1. transfer # Cdc!NoTransfer
    BY NoneAsked
  <2>2. setup = Cdc!None
    BY DEF ControlInv, ControlTypes
  <2>3. ~(UNCHANGED transfer)
    BY <2>1
  <2>4. ~Cdc!LineCoding
    BY ControlCoding
  <2>5. Cdc!HostIn0
    BY <2>1, <2>2, <2>3, <2>4 DEF Cdc!Next, Cdc!Program, Cdc!ConInit, Cdc!PutStore,
       Cdc!PutIndex, Cdc!PutEnable, Cdc!GetRead, Cdc!GetIndex, Cdc!control,
       Cdc!Interrupt, Cdc!EpWrite, Cdc!Address, Cdc!BusReset, Cdc!HostIn,
       Cdc!HostOut, Cdc!HostData, Cdc!Ask
  <2>6. QED BY <2>5, ControlTaken
<1>3. [Request.kind = "descriptor" /\ transfer' = Cdc!NoTransfer
           /\ bank0 # Cdc!NoPacket => transfer.got + bank0 = Asked(Request)]_Cdc!vars
      => [transfer.request.kind = "descriptor" /\ transfer' = Cdc!NoTransfer
            /\ bank0 # Cdc!NoPacket =>
            transfer.got + bank0 =
              IF transfer.request.size < transfer.request.wLength
              THEN transfer.request.size ELSE transfer.request.wLength]_Cdc!vars
  BY DEF Asked, Request
<1>4. QED BY <1>1, <1>2, <1>3, ControlInit, PTL DEF Cdc!DescriptorWhole
-----------------------------------------------------------------------------
(* The handshake of the IOEXT bus until a call times out or the device is   *)
(* restarted: host and device go through the phases in step, whatever the   *)
(* ports, the bytes and the number of calls.                                *)

\* Where the device can be at each place of the host, with /IOE and /READY.
IoeInStep ==
  /\ host = "idle" => ~ioe /\ dev = "idle" /\ ~ready
  /\ host = "address" =>
       /\ ioe /\ ~data
       /\ \/ dev \in {"idle", "port"} /\ ~ready
          \/ dev = "port end" /\ ready
  /\ host = "address end" =>
       /\ ~ioe
       /\ \/ dev = "port end" /\ ready
          \/ dev = "between" /\ ~ready
  /\ host = "data" =>
       /\ ioe
       /\ \/ dev \in {"between", "data"} /\ ~ready
          \/ dev = "data end" /\ ready
  /\ host = "data end" =>
       /\ ~ioe
       /\ \/ dev \in {"data end", "released"} /\ ready
          \/ dev = "idle" /\ ~ready

\* Who drives the bus, and with what.
IoeBusOwned ==
  /\ cmd.op \in {"out", "in", "none"}
  /\ host # "idle" => cmd.op \in {"out", "in"} /\ cmd.port \in Ports
  /\ host \in {"address", "address end"} => hostBus = cmd.port
  /\ host \in {"data", "data end"} /\ cmd.op = "out" =>
       hostBus = cmd.val /\ cmd.val \in Values
  /\ host \in {"address", "address end"} /\ cmd.op = "out" =>
       cmd.val \in Values
  /\ host # "idle" => write = (cmd.op = "out")
  /\ hostBus = Ioe!Released => cmd.op = "in" /\ host \in {"data", "data end"}
  /\ cmd.op = "in" /\ host \in {"data", "data end"} => hostBus = Ioe!Released
  /\ deviceBus \in {DeviceData, Ioe!Released}
  /\ deviceBus # Ioe!Released => dev \in {"data", "data end"} /\ cmd.op = "in"

\* What the device has read.
IoeRead ==
  /\ host # "idle" /\ (host = "address" => dev # "idle") =>
       seen.port = cmd.port /\ seen.write = (cmd.op = "out")
  /\ dev \in {"data", "data end"} /\ cmd.op = "in" => deviceBus = DeviceData
  /\ (dev \in {"data", "data end"} \/ host = "data end") /\ cmd.op = "out" =>
       seen.val = cmd.val
  /\ host = "data end" /\ cmd.op = "in" => result = DeviceData

IoePlaces == /\ host \in {"idle", "address", "address end", "data", "data end"}
             /\ {ioe, data, write, ready, phaseError} \subseteq BOOLEAN
             /\ seen = [write |-> seen.write, port |-> seen.port,
                        val |-> seen.val]

IoeTogether == ~phaseError /\ IoePlaces /\ IoeInStep /\ IoeBusOwned /\ IoeRead
IoeCounted == timeouts \in 0 .. MaxTimeouts /\ restarts \in 0 .. MaxRestarts
IoeInv == IoeCounted /\ (Ioe!Undisturbed => IoeTogether)

LEMMA IoeInit ==
  ASSUME Ioe!IoextAssumption PROVE Ioe!Init => IoeInv
<1> SUFFICES ASSUME Ioe!Init PROVE IoeInv
  OBVIOUS
<1>1. IoeCounted /\ ~phaseError
  BY DEF Ioe!IoextAssumption, IoeCounted, Ioe!Init
<1>2. IoePlaces
  BY DEF Ioe!Init, IoePlaces
<1>3. IoeInStep
  BY DEF Ioe!Init, IoeInStep
<1>4. IoeBusOwned
  BY DEF Ioe!Init, IoeBusOwned, Ioe!NoCall, Ioe!PullUp, Ioe!Released
<1>5. IoeRead
  BY DEF Ioe!Init, IoeRead
<1>6. QED BY <1>1, <1>2, <1>3, <1>4, <1>5 DEF IoeInv, IoeTogether

LEMMA IoeHost ==
  ASSUME Ioe!IoextAssumption, IoeTogether,
         \/ Ioe!HostStep
         \/ \E p \in Ports : Ioe!IoIn(p) \/ \E v \in Values : Ioe!IoOut(p, v)
  PROVE  IoeTogether'
<1> USE DEF Ioe!IoextAssumption, IoeTogether, Ioe!Host, Ioe!devVars, Ioe!Released
<1>1. ASSUME NEW op \in {"in", "out"}, NEW p \in Ports, NEW v,
             op = "out" => v \in Values, Ioe!Call(op, p, v)
      PROVE  IoeTogether'
  BY <1>1 DEF Ioe!Call, IoePlaces, IoeInStep, IoeBusOwned, IoeRead
<1>2. CASE Ioe!AddressHeard
  BY <1>2, Zenon DEF Ioe!AddressHeard, Ioe!Inactive, IoePlaces, IoeInStep,
              IoeBusOwned, IoeRead
<1>3. CASE Ioe!DataPhase
  BY <1>3, Zenon DEF Ioe!DataPhase, Ioe!LetGo, Ioe!DataDriven, IoePlaces,
                     IoeInStep, IoeBusOwned, IoeRead
<1>4. CASE Ioe!DataHeard
  BY <1>4, Zenon DEF Ioe!DataHeard, Ioe!Bus, IoePlaces, IoeInStep,
                     IoeBusOwned, IoeRead
<1>5. CASE Ioe!Done
  BY <1>5, Zenon DEF Ioe!Done, Ioe!LetGo, Ioe!TakenBack, Ioe!PullUp, IoePlaces,
              IoeInStep, IoeBusOwned, IoeRead
<1>6. QED BY <1>1, <1>2, <1>3, <1>4, <1>5 DEF Ioe!HostStep, Ioe!IoIn, Ioe!IoOut

LEMMA IoeDevice ==
  ASSUME Ioe!IoextAssumption, IoeTogether, Ioe!DeviceStep PROVE IoeTogether'
<1> USE DEF Ioe!IoextAssumption, IoeTogether, Ioe!Device, Ioe!hostVars,
            Ioe!Released
<1>1. CASE Ioe!Port
  <2>1. /\ host = "address" /\ ~data /\ hostBus = cmd.port
        /\ deviceBus = Ioe!Released
    BY <1>1, Zenon DEF Ioe!Port, IoePlaces, IoeInStep, IoeBusOwned
  <2>2. seen'.port = cmd.port /\ seen'.write = write /\ ~phaseError'
    <3>1. Ioe!Bus = {cmd.port}
      BY <2>1, <1>1 DEF Ioe!Bus, IoeBusOwned
    <3>2. seen' = [write |-> write, port |-> cmd.port, val |-> Ioe!PullUp]
      BY <1>1, <3>1 DEF Ioe!Port
    <3>3. ~phaseError'
      BY <1>1, <2>1 DEF Ioe!Port
    <3>4. QED BY <3>2, <3>3
  <2>3. IoePlaces'
    <3>1. phaseError' = FALSE
      BY <2>1, <1>1 DEF Ioe!Port
    <3>2. seen' = [write |-> seen'.write, port |-> seen'.port,
                   val |-> seen'.val]
      BY <1>1 DEF Ioe!Port
    <3>3. QED BY <1>1, <3>1, <3>2, Zenon DEF Ioe!Port, IoePlaces
  <2>4. IoeInStep'
    BY <1>1, <2>1 DEF Ioe!Port, IoeInStep
  <2>5. IoeBusOwned'
    BY <1>1, <2>1 DEF Ioe!Port, IoeBusOwned
  <2>6. IoeRead'
    BY <1>1, <2>1, <2>2 DEF Ioe!Port, IoeBusOwned, IoeRead
  <2>7. QED BY <1>1, <2>2, <2>3, <2>4, <2>5, <2>6 DEF Ioe!Port
<1>2. CASE Ioe!PortReady
  BY <1>2, Zenon DEF Ioe!PortReady, IoePlaces, IoeInStep, IoeBusOwned, IoeRead
<1>3. CASE Ioe!PortEnd
  BY <1>3, Zenon DEF Ioe!PortEnd, IoePlaces, IoeInStep, IoeBusOwned, IoeRead
<1>4. CASE Ioe!Data
  BY <1>4, ZenonT(60) DEF Ioe!Data, Ioe!Activated, Ioe!Bus, IoePlaces, IoeInStep,
              IoeBusOwned, IoeRead
<1>5. CASE Ioe!DataReady
  BY <1>5, Zenon DEF Ioe!DataReady, IoePlaces, IoeInStep, IoeBusOwned, IoeRead
<1>6. CASE Ioe!Release
  BY <1>6, Zenon DEF Ioe!Release, IoePlaces, IoeInStep, IoeBusOwned, IoeRead
<1>7. CASE Ioe!LoopEnd
  BY <1>7, Zenon DEF Ioe!LoopEnd, IoePlaces, IoeInStep, IoeBusOwned, IoeRead
<1>8. QED BY <1>1, <1>2, <1>3, <1>4, <1>5, <1>6, <1>7 DEF Ioe!DeviceStep

\* A timeout or a restart is remembered by its count.
LEMMA IoeCounts ==
  ASSUME Ioe!IoextAssumption, IoeCounted, Ioe!Next
  PROVE  /\ IoeCounted'
         /\ Ioe!Undisturbed' => Ioe!Undisturbed /\ ~Ioe!Timeout /\ ~Ioe!Restart
<1> DEFINE IoeSame == timeouts' = timeouts /\ restarts' = restarts
<1> USE DEF Ioe!IoextAssumption, IoeCounted, Ioe!Undisturbed
<1>1. CASE Ioe!Timeout
  BY <1>1 DEF Ioe!Timeout, Ioe!Host, Ioe!devVars
<1>2. CASE Ioe!Restart
  BY <1>2 DEF Ioe!Restart, Ioe!hostVars
<1>3. Ioe!HostStep => IoeSame
  BY Zenon DEF Ioe!HostStep, Ioe!AddressHeard, Ioe!DataPhase, Ioe!DataHeard,
         Ioe!Done, Ioe!Host, Ioe!devVars
<1>4. ASSUME NEW op, NEW p, NEW v, Ioe!Call(op, p, v) PROVE IoeSame
  BY <1>4 DEF Ioe!Call, Ioe!Host, Ioe!devVars
<1>5. Ioe!DeviceStep => IoeSame
  BY Zenon DEF Ioe!DeviceStep, Ioe!Port, Ioe!PortReady, Ioe!PortEnd, Ioe!Data,
         Ioe!DataReady, Ioe!Release, Ioe!LoopEnd,
         Ioe!Device, Ioe!hostVars
<1>6. CASE IoeSame
  <2>1. ~Ioe!Timeout
    BY <1>6 DEF Ioe!Timeout
  <2>2. ~Ioe!Restart
    BY <1>6 DEF Ioe!Restart
  <2>3. QED BY <1>6, <2>1, <2>2
<1>7. QED
  BY <1>1, <1>2, <1>3, <1>4, <1>5, <1>6 DEF Ioe!Next, Ioe!IoIn, Ioe!IoOut

LEMMA IoeInvariance == Ioe!Spec => []IoeInv
<1> USE HandshakesAssumption
<1>1. Ioe!Init => IoeInv
  BY IoeInit
<1>2. IoeInv /\ [Ioe!Next]_Ioe!vars => IoeInv'
  <2>1. ASSUME IoeInv, UNCHANGED Ioe!vars PROVE IoeInv'
    BY <2>1, Zenon DEF Ioe!vars, Ioe!hostVars, Ioe!devVars, IoeInv, IoeCounted,
                Ioe!Undisturbed, IoeTogether,
                IoePlaces, IoeInStep, IoeBusOwned, IoeRead, Ioe!Released
  <2>2. ASSUME IoeInv, Ioe!Next PROVE IoeInv'
    <3>1. /\ IoeCounted'
          /\ Ioe!Undisturbed' => Ioe!Undisturbed /\ ~Ioe!Timeout /\ ~Ioe!Restart
      BY <2>2, IoeCounts DEF IoeInv
    <3>2. ASSUME Ioe!Undisturbed' PROVE IoeTogether'
      <4>1. IoeTogether /\ ~Ioe!Timeout /\ ~Ioe!Restart
        BY <2>2, <3>1, <3>2 DEF IoeInv
      <4>2. QED BY <2>2, <4>1, IoeHost, IoeDevice DEF Ioe!Next
    <3>3. QED BY <3>1, <3>2 DEF IoeInv
  <2>3. QED BY <2>1, <2>2
<1>3. QED BY <1>1, <1>2, PTL DEF Ioe!Spec
-----------------------------------------------------------------------------
\* Until a timeout or a restart the device takes no other phase for its port
\* phase.
THEOREM InPhase == Ioe!Spec => []Ioe!PhasesAgree
<1>1. IoeInv => Ioe!PhasesAgree
  BY DEF IoeInv, IoeTogether, Ioe!PhasesAgree
<1>2. QED BY IoeInvariance, <1>1, PTL

\* And the two do not drive the bus at once.
THEOREM BusIsShared == Ioe!Spec => []NoContention
<1>1. IoeInv => NoContention
  BY Zenon DEF IoeInv, IoeTogether, IoeInStep, IoeBusOwned, NoContention,
               Ioe!NoContention, IoePlaces
<1>2. QED BY IoeInvariance, <1>1, PTL

\* Each call that returns has moved its byte between host and device.
THEOREM CallsAreDone == Ioe!Spec => CallIsDone
<1>1. IoeInv /\ [Ioe!Next]_Ioe!vars =>
        [Ioe!Undisturbed /\ host = "data end" /\ host' = "idle" =>
           /\ seen.port = cmd.port /\ seen.write = (cmd.op = "out")
           /\ IF cmd.op = "out" THEN seen.val = cmd.val
              ELSE result = DeviceData]_Ioe!vars
  BY Zenon DEF IoeInv, IoeTogether, IoeRead, IoeBusOwned
<1>2. QED BY IoeInvariance, <1>1, PTL DEF Ioe!Spec, CallIsDone, Ioe!CallIsDone
-----------------------------------------------------------------------------
(* The Native Client host: the machine's thread sets the flag and waits for *)
(* the mutex; only then the timer clears the one and frees the other, and   *)
(* the machine goes on before the flag is set again.                        *)

NaclInv ==
  /\ mutex = "free" => machine = "lock" /\ ~thread_block
  /\ thread_block => machine = "lock"
  /\ browser = "clear" => thread_block /\ machine = "lock" /\ mutex = "locked"
  /\ browser = "unlock" => ~thread_block /\ machine = "lock" /\ mutex = "locked"
  /\ mutex \in {"locked", "free"}

\* A character is with the browser, read by con_peek(), or taken; while the
\* thread waits none is held that it would overwrite.
NaclKeys ==
  /\ keysTyped \in Nat /\ keysTaken \in Nat /\ stdin \in Nat
  /\ keysTyped = keysTaken + stdin + (IF fifo_flag THEN 1 ELSE 0)
  /\ machine \in {"set", "lock", "read"} => ~fifo_flag

LEMMA NaclTimer ==
  ASSUME NaclInv, Nacl!Timer PROVE NaclInv'
<1>1. CASE Nacl!TimerLook
  BY <1>1, Zenon DEF Nacl!TimerLook, Nacl!shared, NaclInv
<1>2. CASE Nacl!TimerClear
  BY <1>2, Zenon DEF Nacl!TimerClear, NaclInv
<1>3. CASE Nacl!TimerUnlock
  BY <1>3, Zenon DEF Nacl!TimerUnlock, NaclInv
<1>4. CASE Nacl!TimerAgain
  BY <1>4, Zenon DEF Nacl!TimerAgain, Nacl!shared, NaclInv
<1>5. QED BY <1>1, <1>2, <1>3, <1>4 DEF Nacl!Timer

LEMMA NaclMachine ==
  ASSUME NaclInv, Nacl!Machine PROVE NaclInv'
<1> USE DEF Nacl!At
<1>1. CASE Nacl!Take
  BY <1>1, Zenon DEF Nacl!Take, Nacl!shared, NaclInv
<1>2. CASE Nacl!Block
  BY <1>2, Zenon DEF Nacl!Block, Nacl!shared, NaclInv
<1>3. CASE Nacl!BlockSet
  BY <1>3, Zenon DEF Nacl!BlockSet, NaclInv
<1>4. CASE Nacl!BlockLock
  BY <1>4, Zenon DEF Nacl!BlockLock, NaclInv
<1>5. CASE Nacl!Read
  BY <1>5, Zenon DEF Nacl!Read, Nacl!shared, NaclInv
<1>6. QED BY <1>1, <1>2, <1>3, <1>4, <1>5 DEF Nacl!Machine

LEMMA NaclStep == ASSUME NaclInv, [Nacl!Next]_Nacl!vars PROVE NaclInv'
<1>1. CASE Nacl!Boot
  BY <1>1, Zenon DEF Nacl!Boot, Nacl!shared, NaclInv
<1>2. CASE Nacl!Key
  BY <1>2, Zenon DEF Nacl!Key, Nacl!shared, NaclInv
<1>3. CASE UNCHANGED Nacl!vars
  BY <1>3, Zenon DEF Nacl!vars, Nacl!shared, NaclInv
<1>4. QED BY <1>1, <1>2, <1>3, NaclTimer, NaclMachine DEF Nacl!Next

LEMMA NaclKeysStep == ASSUME NaclKeys, [Nacl!Next]_Nacl!vars PROVE NaclKeys'
<1> USE DEF NaclKeys, Nacl!At, Nacl!shared, Nacl!input
<1>1. CASE Nacl!Take
  BY <1>1 DEF Nacl!Take
<1>2. CASE Nacl!Read
  <2>1. /\ machine = "read" /\ machine' = "ask" /\ ~fifo_flag
        /\ keysTyped' = keysTyped /\ keysTaken' = keysTaken
    BY <1>2 DEF Nacl!Read
  <2>2. CASE stdin > 0
    <3>1. fifo_flag' /\ stdin' = stdin - 1
      BY <1>2, <2>2 DEF Nacl!Read
    <3>2. QED BY <2>1, <2>2, <3>1
  <2>3. CASE ~(stdin > 0)
    <3>1. ~fifo_flag' /\ stdin' = 0
      BY <1>2, <2>3 DEF Nacl!Read
    <3>2. QED BY <2>1, <2>3, <3>1
  <2>4. QED BY <2>2, <2>3
<1>3. CASE Nacl!Key
  BY <1>3 DEF Nacl!Key
<1>4. CASE Nacl!Block
  BY <1>4 DEF Nacl!Block
<1>5. CASE Nacl!BlockSet \/ Nacl!BlockLock \/ Nacl!Boot
  BY <1>5 DEF Nacl!BlockSet, Nacl!BlockLock, Nacl!Boot
<1>6. CASE Nacl!Timer \/ UNCHANGED Nacl!vars
  <2>1. UNCHANGED <<machine, stdin, fifo_flag, keysTyped, keysTaken>>
    BY <1>6, Zenon DEF Nacl!Timer, Nacl!TimerLook, Nacl!TimerClear,
                       Nacl!TimerUnlock, Nacl!TimerAgain, Nacl!vars
  <2>2. QED BY <2>1
<1>7. QED
  BY <1>1, <1>2, <1>3, <1>4, <1>5, <1>6 DEF Nacl!Next, Nacl!Machine

\* Each wait of the machine's thread takes a tick of its own: the mutex, which
\* the one thread locks and the other frees, is free only while the other
\* waits for it, and the timer never frees it twice.
THEOREM TickForEachWait == Nacl!Spec => []Nacl!OneTickEach
<1>1. Nacl!Init => NaclInv
  BY Zenon DEF Nacl!Init, NaclInv
<1>2. NaclInv /\ [Nacl!Next]_Nacl!vars => NaclInv'
  BY NaclStep
<1>3. NaclInv => Nacl!OneTickEach
  BY DEF NaclInv, Nacl!OneTickEach
<1>4. QED BY <1>1, <1>2, <1>3, PTL DEF Nacl!Spec

\* No character typed into the browser is lost or doubled by the two calls that
\* look for one and take it.
THEOREM TypedIsKept == Nacl!Spec => []NaclKeys
<1>1. Nacl!Init => NaclKeys
  BY DEF Nacl!Init, NaclKeys
<1>2. NaclKeys /\ [Nacl!Next]_Nacl!vars => NaclKeys'
  BY NaclKeysStep
<1>3. QED BY <1>1, <1>2, PTL DEF Nacl!Spec
=============================================================================
