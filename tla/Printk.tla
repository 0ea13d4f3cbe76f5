------------------------------- MODULE Printk -------------------------------
(***************************************************************************)
(* The formatter behind vibe_printk and vibe_snprintk (kernel/init.c): one *)
(* core that hands characters to an emit function; the buffer's stores     *)
(* them, the console's sends them.  A format is a sequence of directives   *)
(* with their arguments; a number is a word of arithmetic modulo WordMod.  *)
(***************************************************************************)
EXTENDS Integers, Sequences

CONSTANTS WordMod,         \* 2^width of unsigned int
          NumBuf,          \* sizeof(buf) in _fmt_putuint
          Formats,         \* the formats of the instance
          BufSizes         \* the sizes vibe_vsnprintk is called with

ASSUME PrintkAssumption == {WordMod, NumBuf} \subseteq Nat \ {0} /\ BufSizes \subseteq Nat

Unsigned(v) == v % WordMod

VARIABLES todo,            \* directives that are left
          text,            \* what the current directive still emits
          size,            \* of the caller's buffer
          sbuf,            \* the buffer: index -> character
          pos,             \* characters emitted
          console          \* ghost: what the console gets for the same format

fmtvars == <<todo, text, size, sbuf, pos, console>>

(* Characters are numbers: a digit its value, and these.                   *)
Minus == 16
Terminator == -1
Untouched == -2

FmtInit ==
  /\ todo \in Formats /\ text = <<>>
  /\ size \in BufSizes
  /\ sbuf = [i \in 0..(size - 1) |-> Untouched]
  /\ pos = 0 /\ console = <<>>

Digits_OneShort(v, base) ==
  LET dig[n \in 0..(NumBuf - 2)] ==
        IF n = 0 THEN [v |-> v, s |-> <<>>]
        ELSE LET d == dig[n - 1] IN
             IF d.v = 0 THEN d
             ELSE [v |-> d.v \div base, s |-> <<d.v % base>> \o d.s]
  IN  IF v = 0 THEN <<0>> ELSE dig[NumBuf - 2].s

(* The digits are put into buf from its end, while any are left and buf    *)
(* has room in front.  A digit is its value.                               *)
fmt_putuint(v, base) ==
  LET dig[n \in 0..(NumBuf - 1)] ==
        IF n = 0 THEN [v |-> v, s |-> <<>>]
        ELSE LET d == dig[n - 1] IN
             IF d.v = 0 THEN d
             ELSE [v |-> d.v \div base, s |-> <<d.v % base>> \o d.s]
  IN  IF v = 0 THEN <<0>> ELSE dig[NumBuf - 1].s

(* What a directive emits.  %c, %%, the 0x of %p and a directive that is   *)
(* not known are literals; l changes nothing, long has the width of int.   *)
(* %d negates a negative number; the most negative one is its own          *)
(* magnitude as an unsigned word.                                          *)
fmt_core(d) ==
  CASE d.dir = "lit" -> d.arg
    [] d.dir = "s"   -> d.arg
    [] d.dir = "d"   -> IF d.arg < 0 THEN <<Minus>> \o fmt_putuint(Unsigned(-d.arg), 10)
                        ELSE fmt_putuint(Unsigned(d.arg), 10)
    [] d.dir = "u"   -> fmt_putuint(Unsigned(d.arg), 10)
    [] d.dir = "x"   -> fmt_putuint(Unsigned(d.arg), 16)

NextDirective ==
  /\ text = <<>> /\ todo # <<>>
  /\ text' = fmt_core(Head(todo)) /\ todo' = Tail(todo)
  /\ UNCHANGED <<size, sbuf, pos, console>>

(* _buffer_emit leaves room for the NUL and counts what it drops.          *)
buffer_emit ==
  /\ text # <<>>
  /\ sbuf' = IF pos + 1 < size THEN [sbuf EXCEPT ![pos] = Head(text)] ELSE sbuf
  /\ pos' = pos + 1
  /\ console' = Append(console, Head(text)) /\ text' = Tail(text)
  /\ UNCHANGED <<todo, size>>

Finished == todo = <<>> /\ text = <<>>
Terminated == \E i \in DOMAIN sbuf : sbuf[i] = Terminator

(* The last store of vibe_vsnprintk; pos is its result.                    *)
vibe_vsnprintk ==
  /\ Finished /\ ~Terminated /\ size > 0
  /\ sbuf' = [sbuf EXCEPT ![IF pos < size - 1 THEN pos ELSE size - 1] = Terminator]
  /\ UNCHANGED <<todo, text, size, pos, console>>

(* The call returns; the buffer is the caller's again.                     *)
FormatReturns ==
  /\ Finished /\ (Terminated \/ size = 0)
  /\ todo' = <<>> /\ text' = <<>> /\ size' = 0 /\ sbuf' = <<>>
  /\ pos' = 0 /\ console' = <<>>

FmtNext == NextDirective \/ buffer_emit \/ vibe_vsnprintk \/ FormatReturns

FmtSpec == FmtInit /\ [][FmtNext]_fmtvars
-----------------------------------------------------------------------------
(* vibe_snprintk, with any buffer, gives the text vibe_printk would print, *)
(* cut to what fits in front of one NUL, and returns its whole length; it  *)
(* stores nothing behind the NUL, and nothing at all in an empty buffer.   *)
SnprintkCuts ==
  Finished /\ (Terminated \/ size = 0) =>
    LET n == IF Len(console) < size THEN Len(console) ELSE size - 1 IN
    /\ pos = Len(console)
    /\ \A i \in DOMAIN sbuf :
         sbuf[i] = IF i < n THEN console[i + 1] ELSE IF i = n THEN Terminator ELSE Untouched

(* The number that a sequence of digits denotes.                           *)
Value(s, base) ==
  LET val[n \in 0..Len(s)] == IF n = 0 THEN 0 ELSE val[n - 1] * base + s[n]
  IN  val[Len(s)]

(* Every word prints as its own numeral, the largest one and the most      *)
(* negative one too: NumBuf is large enough for base 10 and no leading     *)
(* zero appears.                                                           *)
NumbersExact ==
  text = <<>> /\ todo # <<>> =>
    LET d == Head(todo) IN
    d.dir \in {"d", "u", "x"} =>
      LET s == fmt_core(d)
          neg == d.dir = "d" /\ d.arg < 0
          digits == IF neg THEN Tail(s) ELSE s
          base == IF d.dir = "x" THEN 16 ELSE 10
      IN  /\ neg => s[1] = Minus
          /\ Value(digits, base) = (IF neg THEN -d.arg ELSE Unsigned(d.arg))
          /\ Len(digits) > 1 => digits[1] # 0

(* vibe_snprintk prints numbers as what they are and cuts where the buffer *)
(* ends (SnprintkCuts, NumbersExact).                                      *)
FormatsExact == SnprintkCuts /\ NumbersExact

=============================================================================
