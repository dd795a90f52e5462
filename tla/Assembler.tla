----------------------------- MODULE Assembler -----------------------------
(***************************************************************************)
(* One line of assembly in CO2070Assembler.c, from its tokens to the       *)
(* digits of its word.  A line is the row of its tokens, cut at blanks;    *)
(* machine code is written as rows of hexadecimal digits (four binary      *)
(* digits of the file each).                                               *)
(***************************************************************************)
EXTENDS Integers, Sequences, FiniteSets

Digits == 0 .. 15
bad    == 16        \* a character that is no digit

\* The code of an operation.
opcode == [ loadi |-> 0, mov |-> 1, add |-> 2, sub |-> 3, and |-> 4, or |-> 5, j |-> 6,
            beq |-> 7, mult |-> 8, sll |-> 9, srl |-> 10, sra |-> 11, ror |-> 12,
            bne |-> 13, lwd |-> 14, lwi |-> 15, swd |-> 16, swi |-> 17 ]

\* What a token is to the assembler: an operation, the number of a register, an operand to
\* ignore, an immediate with its first two characters, the end of the line, "//", or
\* anything else.
Op(op)     == [kind |-> "op", op |-> op]
Reg(n)     == [kind |-> "reg", reg |-> n]
Imm(c, d)  == [kind |-> "imm", chars |-> <<c, d>>]
Ignored    == [kind |-> "X"]
LineEnd    == [kind |-> "newline"]
Comment    == [kind |-> "comment"]
Other      == [kind |-> "other"]

Token == [kind : {"op"}, op : DOMAIN opcode] \union [kind : {"reg"}, reg : 0 .. 7]
           \union [kind : {"imm"}, chars : (0 .. bad) \X (0 .. bad)]
           \union {Ignored, LineEnd, Comment, Other}

-----------------------------------------------------------------------------
is(line, ops) == line # <<>> /\ line[1].kind = "op" /\ line[1].op \in ops

loads  == {"mov", "loadi", "lwd", "lwi"}
stores == {"swd", "swi"}

\* strtok returns NULL for a token that is not there, and strcat or strcasecmp reads it.
needed(line) == IF is(line, loads \union stores) THEN 3 ELSE IF is(line, {"j"}) THEN 2 ELSE 1

crashes(line) == Len(line) < needed(line)

\* "X" goes where the format has an operand that the instruction ignores.
alignedJumpShort(line) ==
  CASE is(line, loads \union {"j"}) -> <<line[1], line[2], Ignored>>
    [] is(line, stores)             -> <<line[1], Ignored, line[2]>>

aligned(line) ==
  CASE is(line, loads)  -> <<line[1], line[2], Ignored>>
    [] is(line, stores) -> <<line[1], Ignored, line[2]>>
    [] is(line, {"j"})  -> <<line[1], line[2], Ignored, Ignored>>

preprocess(line) ==
  IF is(line, loads \union stores \union {"j"})
  THEN aligned(line) \o SubSeq(line, 3, Len(line))
  ELSE line

\* No token holds the blank that the test for a comment looks for.
holdsBlank(token) == FALSE

ends(token)     == token.kind = "newline" \/ (token.kind = "comment" /\ holdsBlank(token))
rejected(token) == ~ends(token) /\ token.kind \in {"comment", "other"}

\* strcpy of a digit ends out_token behind it; a bad character leaves what was there.
immediate(chars, old) ==
  LET high == IF chars[1] = bad THEN old ELSE <<chars[1]>>
  IN  IF chars[2] = bad THEN high ELSE <<high[1], chars[2]>>

\* out_token after a token that is written.
encode(token, old) ==
  CASE token.kind = "op"  -> <<opcode[token.op] \div 16, opcode[token.op] % 16>>
    [] token.kind = "reg" -> <<0, token.reg>>
    [] token.kind = "X"   -> <<0, 0>>
    [] token.kind = "imm" -> immediate(token.chars, old)

-----------------------------------------------------------------------------
(* The words, as the script cuts them and $readmemb reads them. *)

\* The four groups of two digits, last first; there may be too few digits for all.
group(digits, n) ==
  SubSeq(digits, 2 * n - 1, IF 2 * n <= Len(digits) THEN 2 * n ELSE Len(digits))

cut(digits) == [n \in 1 .. 4 |-> group(digits, 5 - n)]

number(digits) == IF Len(digits) = 1 THEN digits[1] ELSE 16 * digits[1] + digits[2]

\* A group that is empty is no number in the file, and the next one takes its place; the
\* last groups of a word, which come first, are the ones that may be empty.
bytesOf(groups) ==
  LET lost == Cardinality({n \in DOMAIN groups : groups[n] = <<>>})
  IN  [n \in 1 .. Len(groups) - lost |-> number(groups[n + lost])]
=============================================================================
