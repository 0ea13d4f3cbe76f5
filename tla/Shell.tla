------------------------------- MODULE Shell --------------------------------
(***************************************************************************)
(* The serial shell (subsys/shell/shell.c): vibe_shell_process edits one   *)
(* line from the characters that have arrived and _shell_dispatch splits   *)
(* it and looks the command up.                                            *)
(***************************************************************************)
EXTENDS Naturals, Sequences, FiniteSets

CONSTANTS Word,             \* the printable characters other than space
          CONFIG_SHELL_BUF_SIZE, CONFIG_SHELL_MAX_ARGS,
          Commands,         \* the registered names, each one character long
          MaxTyped          \* bound: characters typed into one line

ASSUME ShellAssumption ==
  /\ CONFIG_SHELL_BUF_SIZE \in Nat \ {0} /\ CONFIG_SHELL_MAX_ARGS \in Nat \ {0}
  /\ Commands \subseteq Word /\ Word \cap {" ", "tab", "newline", "erase", "NUL"} = {}

Blank == {" ", "tab"}
Newline == "newline"      \* CR or LF
Erase == "erase"          \* 0x08 or 0x7F
Other == "tab"            \* below 0x20, neither of them: ignored

VARIABLES g_line_buf,     \* index -> character
          g_line_len,
          last,           \* the last dispatch: [argv, ran]
          typed           \* ghost: the keys since the line began, ignored ones left out

shellvars == <<g_line_buf, g_line_len, last, typed>>

NUL == "NUL"

vibe_shell_init ==
  /\ g_line_buf = [i \in 0..(CONFIG_SHELL_BUF_SIZE - 1) |-> NUL]
  /\ g_line_len = 0
  /\ last = [argv |-> <<>>, ran |-> FALSE] /\ typed = <<>>

(* The string at p: up to the NUL.                                         *)
StringAt(buf, p) ==
  LET stop == CHOOSE n \in DOMAIN buf : /\ n >= p /\ buf[n] = NUL
                                        /\ \A k \in p..(n - 1) : buf[k] # NUL
  IN  [i \in 1..(stop - p) |-> buf[p + i - 1]]

SkipBlanks(buf, p) ==
  CHOOSE n \in DOMAIN buf : /\ n >= p /\ buf[n] \notin Blank
                            /\ \A k \in p..(n - 1) : buf[k] \in Blank

TokenEnd(buf, p) ==
  CHOOSE n \in DOMAIN buf : /\ n >= p /\ buf[n] \in Blank \cup {NUL}
                            /\ \A k \in p..(n - 1) : buf[k] \notin Blank \cup {NUL}

NextToken_StaysOnNul(s) ==
  LET a == SkipBlanks(s.buf, s.p) IN
  IF s.buf[a] = NUL THEN [s EXCEPT !.p = a]
  ELSE LET e == TokenEnd(s.buf, a) IN
       [buf |-> [s.buf EXCEPT ![e] = NUL], argv |-> Append(s.argv, a), p |-> e]

(* One round of the loop of _shell_dispatch: skip blanks, note the token,  *)
(* put a NUL behind it.  argv points into the buffer.                      *)
NextToken(s) ==
  LET a == SkipBlanks(s.buf, s.p) IN
  IF s.buf[a] = NUL THEN [s EXCEPT !.p = a]
  ELSE LET e == TokenEnd(s.buf, a) IN
       [buf |-> [s.buf EXCEPT ![e] = NUL], argv |-> Append(s.argv, a),
        p |-> IF s.buf[e] = NUL THEN e ELSE e + 1]

(* At most MAX_ARGS - 1 rounds, and none behind the end of the line, where *)
(* NextToken finds nothing.                                                *)
Tokens(line) ==
  LET split[n \in 0..(CONFIG_SHELL_MAX_ARGS - 1)] ==
        IF n = 0 THEN [buf |-> line, p |-> 0, argv |-> <<>>] ELSE NextToken(split[n - 1])
      done == split[CONFIG_SHELL_MAX_ARGS - 1]
  IN  [buf |-> done.buf,
       argv |-> [i \in DOMAIN done.argv |-> StringAt(done.buf, done.argv[i])]]

(* No token: nothing happens.  Otherwise the first name that matches runs. *)
shell_dispatch(line) ==
  LET argv == Tokens(line).argv
  IN  IF argv = <<>> THEN last
      ELSE [argv |-> argv, ran |-> \E c \in Commands : argv[1] = <<c>>]

Enter ==
  /\ IF g_line_len > 0
     THEN LET line == [g_line_buf EXCEPT ![g_line_len] = NUL]
          IN  last' = shell_dispatch(line) /\ g_line_buf' = Tokens(line).buf
     ELSE UNCHANGED <<last, g_line_buf>>
  /\ g_line_len' = 0 /\ typed' = <<>>

Backspace ==
  /\ g_line_len' = IF g_line_len > 0 THEN g_line_len - 1 ELSE 0
  /\ UNCHANGED <<g_line_buf, last>>

(* A printable character is appended while there is room for the NUL.      *)
AppendChar(c) ==
  /\ IF g_line_len < CONFIG_SHELL_BUF_SIZE - 1
     THEN /\ g_line_buf' = [g_line_buf EXCEPT ![g_line_len] = c]
          /\ g_line_len' = g_line_len + 1
     ELSE UNCHANGED <<g_line_buf, g_line_len>>
  /\ UNCHANGED last

(* One turn of vibe_shell_process for the character uart_getc returns.     *)
vibe_shell_process(c) ==
  \/ c = Newline /\ Enter
  \/ /\ Len(typed) < MaxTyped /\ typed' = Append(typed, c)
     /\ \/ c = Erase /\ Backspace
        \/ c \in Word \cup {" "} /\ AppendChar(c)
  \/ c = Other /\ UNCHANGED shellvars

ShellNext == \E c \in Word \cup {" ", Newline, Erase, Other} : vibe_shell_process(c)

ShellSpec == vibe_shell_init /\ [][ShellNext]_shellvars
-----------------------------------------------------------------------------
(* Reference: what the line is after the keys of ks, read from the left.   *)
AfterKey(line, c) ==
  IF c = Erase THEN SubSeq(line, 1, Len(line) - 1)
  ELSE IF Len(line) < CONFIG_SHELL_BUF_SIZE - 1 THEN Append(line, c) ELSE line

Edited(ks) ==
  LET line[n \in 0..Len(ks)] == IF n = 0 THEN <<>> ELSE AfterKey(line[n - 1], ks[n])
  IN  line[Len(ks)]

(* Reference: the words of a line are its maximal runs without blanks.     *)
IsWord(line, i, j) ==
  /\ \A k \in i..j : line[k] # " "
  /\ (i = 1 \/ line[i - 1] = " ") /\ (j = Len(line) \/ line[j + 1] = " ")

WordsOf(line) ==
  {w \in (1..Len(line)) \X (1..Len(line)) : w[1] <= w[2] /\ IsWord(line, w[1], w[2])}

(* The place of the word w in the line: the first, the second...           *)
Rank(words, w) == Cardinality({v \in words : v[1] <= w[1]})

(* When a line is dispatched, argv holds its words in order, as many as    *)
(* fit in front of the terminating NULL pointer, and each is terminated.   *)
Dispatched ==
  g_line_len > 0 /\ g_line_len' = 0 /\ typed' = <<>> =>
    LET line == Edited(typed)
        words == WordsOf(line)
    IN  words # {} =>
          /\ Len(last'.argv) = LET n == Cardinality(words) IN
               IF n < CONFIG_SHELL_MAX_ARGS THEN n ELSE CONFIG_SHELL_MAX_ARGS - 1
          /\ \A w \in words :
               LET k == Rank(words, w) IN
               k <= Len(last'.argv) => last'.argv[k] = SubSeq(line, w[1], w[2])

(* The line that Enter hands to _shell_dispatch is the one the user sees,  *)
(* whatever was typed, erased and typed over: what earlier and longer      *)
(* lines left in g_line_buf, and the NULs _shell_dispatch put there, never *)
(* show through; and its words reach the command.                          *)
ShellSound ==
  /\ []([i \in 1..g_line_len |-> g_line_buf[i - 1]] = Edited(typed))
  /\ [][Dispatched]_shellvars

=============================================================================
