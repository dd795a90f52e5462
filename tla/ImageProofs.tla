---------------------------- MODULE ImageProofs ----------------------------
(***************************************************************************)
(* Proofs about ImageBuild, for source files of any length.                *)
(***************************************************************************)
EXTENDS ImageBuild, FiniteSetTheorems, SequenceTheorems, TLAPS

\* Rows of one or two digits, what the assembler writes for a token.
Codes == {d \in Seq(Digits) : Len(d) \in 1 .. 2}

\* An immediate of one digit.
Short(token) == token.kind = "imm" /\ token.chars[2] = bad

-----------------------------------------------------------------------------
(* One token, and one line. *)

\* The code of a token that is written has two digits, if the token is not short.
LEMMA Encoded ==
  ASSUME NEW token \in Token, NEW old \in Codes, ~ends(token), ~rejected(token)
  PROVE  /\ encode(token, old) \in Codes
         /\ ~Short(token) => Len(encode(token, old)) = 2
<1>1. \/ token.kind = "op" /\ token.op \in DOMAIN opcode
      \/ token.kind = "reg" /\ token.reg \in 0 .. 7
      \/ token.kind = "imm" /\ token.chars \in (0 .. bad) \X (0 .. bad)
      \/ token.kind = "X"
  BY DEF Token, ends, rejected, Ignored, LineEnd, Comment, Other
<1>2. \A a, b \in Digits : <<a, b>> \in Codes /\ Len(<<a, b>>) = 2
  BY DEF Codes, Digits
<1>3. \A a \in Digits : <<a>> \in Codes
  BY DEF Codes, Digits
<1>4. CASE token.kind = "op" /\ token.op \in DOMAIN opcode
  <2>1. opcode[token.op] \in 0 .. 17
    BY <1>4 DEF opcode
  <2>2. opcode[token.op] \div 16 \in Digits /\ opcode[token.op] % 16 \in Digits
    BY <2>1 DEF Digits
  <2>3. encode(token, old) = <<opcode[token.op] \div 16, opcode[token.op] % 16>>
    BY <1>4 DEF encode
  <2> QED BY <1>2, <2>2, <2>3
<1>5. CASE token.kind = "reg" /\ token.reg \in 0 .. 7
  <2>1. encode(token, old) = <<0, token.reg>> /\ 0 \in Digits /\ token.reg \in Digits
    BY <1>5 DEF encode, Digits
  <2> QED BY <1>2, <2>1
<1>6. CASE token.kind = "imm" /\ token.chars \in (0 .. bad) \X (0 .. bad)
  <2>1. encode(token, old) = immediate(token.chars, old)
    BY <1>6 DEF encode
  <2>2. old[1] \in Digits /\ old \in Codes
    BY DEF Codes
  <2>3. /\ token.chars[1] # bad => token.chars[1] \in Digits
        /\ token.chars[2] # bad => token.chars[2] \in Digits
    BY <1>6 DEF Digits, bad
  <2>4. CASE token.chars[2] = bad
    BY <1>3, <1>6, <2>1, <2>2, <2>3, <2>4 DEF immediate, Short
  <2>5. CASE token.chars[2] # bad
    <3>1. \E a \in Digits : immediate(token.chars, old) = <<a, token.chars[2]>>
      BY <2>2, <2>3, <2>5 DEF immediate
    <3> QED BY <1>2, <2>1, <2>3, <2>5, <3>1
  <2> QED BY <2>4, <2>5
<1>7. CASE token.kind = "X"
  <2>1. encode(token, old) = <<0, 0>> /\ 0 \in Digits
    BY <1>7 DEF encode, Digits
  <2> QED BY <1>2, <2>1
<1> QED BY <1>1, <1>4, <1>5, <1>6, <1>7

\* preprocess, token by token.
Shape(line, p) ==
  \/ ~is(line, loads \union stores \union {"j"}) /\ p = line
  \/ /\ is(line, loads) /\ Len(line) >= 3 /\ Len(p) = Len(line) + 1
     /\ p[1] = line[1] /\ p[2] = line[2] /\ p[3] = Ignored
     /\ \A i \in 4 .. Len(p) : p[i] = line[i - 1]
  \/ /\ is(line, stores) /\ Len(line) >= 3 /\ Len(p) = Len(line) + 1
     /\ p[1] = line[1] /\ p[2] = Ignored /\ p[3] = line[2]
     /\ \A i \in 4 .. Len(p) : p[i] = line[i - 1]
  \/ /\ is(line, {"j"}) /\ Len(line) >= 2 /\ Len(p) = Len(line) + 2
     /\ p[1] = line[1] /\ p[2] = line[2] /\ p[3] = Ignored /\ p[4] = Ignored
     /\ \A i \in 5 .. Len(p) : p[i] = line[i - 2]

LEMMA Preprocessed ==
  ASSUME NEW line \in Seq(Token), ~crashes(line)
  PROVE  /\ line # <<>> /\ Len(line) >= 1
         /\ preprocess(line) \in Seq(Token)
         /\ Shape(line, preprocess(line))
<1> DEFINE p == preprocess(line)
           rest == SubSeq(line, 3, Len(line))
<1>1. line # <<>> /\ Len(line) >= 1 /\ Len(line) \in Nat
  BY DEF crashes, needed
<1>2. CASE ~is(line, loads \union stores \union {"j"})
  BY <1>1, <1>2 DEF preprocess, Shape
<1>3. ASSUME NEW a \in Seq(Token), p = a \o rest, Len(line) >= 2
      PROVE  /\ p \in Seq(Token) /\ Len(p) = Len(a) + Len(line) - 2
             /\ \A i \in 1 .. Len(a) : p[i] = a[i]
             /\ \A i \in Len(a) + 1 .. Len(p) : p[i] = line[i - Len(a) + 2]
  <2>1. /\ rest \in Seq(Token) /\ Len(rest) = Len(line) - 2
        /\ \A i \in 1 .. Len(rest) : rest[i] = line[i + 2]
    <3>1. 3 \in Int /\ Len(line) \in Int /\ \A i \in 3 .. Len(line) : line[i] \in Token
      BY <1>1
    <3>2. /\ rest \in Seq(Token) /\ Len(rest) = IF 3 <= Len(line) THEN Len(line) - 3 + 1 ELSE 0
          /\ \A i \in 1 .. Len(line) - 3 + 1 : rest[i] = line[3 + i - 1]
      BY <3>1, SubSeqProperties
    <3> HIDE DEF rest
    <3>3. Len(rest) = Len(line) - 2
      <4>1. Len(line) >= 2
        BY <1>3
      <4>2. Len(rest) = IF 3 <= Len(line) THEN Len(line) - 3 + 1 ELSE 0
        BY <3>2
      <4>3. Len(line) \in Nat /\ Len(rest) \in Nat
        BY <3>2
      <4>4. \A l, r \in Nat : l >= 2 /\ r = (IF 3 <= l THEN l - 3 + 1 ELSE 0) => r = l - 2
        OBVIOUS
      <4> QED BY <4>1, <4>2, <4>3, <4>4, Zenon
    <3>4. ASSUME NEW i \in 1 .. Len(rest) PROVE rest[i] = line[i + 2]
      <4>1. i \in 1 .. Len(line) - 3 + 1 /\ 3 + i - 1 = i + 2
        BY <1>1, <3>3
      <4> QED BY <3>2, <4>1
    <3> QED BY <3>2, <3>3, <3>4
  <2> HIDE DEF rest
  <2>2. /\ a \o rest \in Seq(Token) /\ Len(a \o rest) = Len(a) + Len(rest)
        /\ \A i \in 1 .. Len(a) + Len(rest) :
             (a \o rest)[i] = IF i <= Len(a) THEN a[i] ELSE rest[i - Len(a)]
    BY <2>1, ConcatProperties, Zenon
  <2> HIDE DEF p
  <2>3. Len(a) \in Nat
    OBVIOUS
  <2>4. Len(p) = Len(a) + Len(line) - 2
    BY <1>1, <1>3, <2>1, <2>2, <2>3
  <2>5. ASSUME NEW i \in Len(a) + 1 .. Len(p) PROVE p[i] = line[i - Len(a) + 2]
    <3>1. i - Len(a) \in 1 .. Len(rest) /\ i \in 1 .. Len(a) + Len(rest) /\ ~(i <= Len(a))
      BY <1>1, <1>3, <2>1, <2>3, <2>4
    <3> QED BY <1>3, <2>1, <2>2, <3>1, Zenon
  <2> QED BY <1>1, <1>3, <2>1, <2>2, <2>3, <2>4, <2>5
<1>4. Ignored \in Token
  BY Zenon DEF Token
<1>5. CASE is(line, loads)
  <2>1. Len(line) >= 3
    BY <1>5 DEF crashes, needed, is
  <2>2. aligned(line) = <<line[1], line[2], Ignored>>
    BY <1>5 DEF aligned, is, loads, stores
  <2>3. aligned(line) \in Seq(Token) /\ Len(aligned(line)) = 3
    BY <1>4, <2>1, <2>2
  <2>4. p = aligned(line) \o rest
    BY <1>5 DEF preprocess, is
  <2> HIDE DEF p, rest
  <2>5. /\ p \in Seq(Token) /\ Len(p) = Len(line) + 1
        /\ \A i \in 1 .. 3 : p[i] = aligned(line)[i]
        /\ \A i \in 4 .. Len(p) : p[i] = line[i - 1]
    <3>1. /\ p \in Seq(Token) /\ Len(p) = 3 + Len(line) - 2
          /\ \A i \in 1 .. 3 : p[i] = aligned(line)[i]
          /\ \A i \in 3 + 1 .. Len(p) : p[i] = line[i - 3 + 2]
      <4>1. Len(line) >= 2
        BY <1>1, <2>1
      <4>2. /\ p \in Seq(Token) /\ Len(p) = Len(aligned(line)) + Len(line) - 2
            /\ \A i \in 1 .. Len(aligned(line)) : p[i] = aligned(line)[i]
            /\ \A i \in Len(aligned(line)) + 1 .. Len(p) : p[i] = line[i - Len(aligned(line)) + 2]
        BY <1>3, <2>3, <2>4, <4>1, Zenon
      <4> QED BY <2>3, <4>2, Zenon
    <3>2. ASSUME NEW i \in 4 .. Len(p) PROVE p[i] = line[i - 1]
      <4>1. i \in 3 + 1 .. Len(p) /\ i - 3 + 2 = i - 1
        BY <3>1
      <4> QED BY <3>1, <4>1
    <3> QED BY <1>1, <3>1, <3>2
  <2>6. p[1] = line[1] /\ p[2] = line[2] /\ p[3] = Ignored
    BY <2>2, <2>5
  <2>7. Shape(line, p)
    BY <1>5, <2>1, <2>5, <2>6 DEF Shape
  <2> QED BY <1>1, <2>5, <2>7 DEF p
<1>6. CASE is(line, stores)
  <2>1. Len(line) >= 3 /\ ~is(line, loads)
    BY <1>6 DEF crashes, needed, is, loads, stores
  <2>2. aligned(line) = <<line[1], Ignored, line[2]>>
    BY <1>6, <2>1 DEF aligned, is, loads, stores
  <2>3. aligned(line) \in Seq(Token) /\ Len(aligned(line)) = 3
    BY <1>4, <2>1, <2>2
  <2>4. p = aligned(line) \o rest
    BY <1>6 DEF preprocess, is
  <2> HIDE DEF p, rest
  <2>5. /\ p \in Seq(Token) /\ Len(p) = Len(line) + 1
        /\ \A i \in 1 .. 3 : p[i] = aligned(line)[i]
        /\ \A i \in 4 .. Len(p) : p[i] = line[i - 1]
    <3>1. /\ p \in Seq(Token) /\ Len(p) = 3 + Len(line) - 2
          /\ \A i \in 1 .. 3 : p[i] = aligned(line)[i]
          /\ \A i \in 3 + 1 .. Len(p) : p[i] = line[i - 3 + 2]
      <4>1. Len(line) >= 2
        BY <1>1, <2>1
      <4>2. /\ p \in Seq(Token) /\ Len(p) = Len(aligned(line)) + Len(line) - 2
            /\ \A i \in 1 .. Len(aligned(line)) : p[i] = aligned(line)[i]
            /\ \A i \in Len(aligned(line)) + 1 .. Len(p) : p[i] = line[i - Len(aligned(line)) + 2]
        BY <1>3, <2>3, <2>4, <4>1, Zenon
      <4> QED BY <2>3, <4>2, Zenon
    <3>2. ASSUME NEW i \in 4 .. Len(p) PROVE p[i] = line[i - 1]
      <4>1. i \in 3 + 1 .. Len(p) /\ i - 3 + 2 = i - 1
        BY <3>1
      <4> QED BY <3>1, <4>1
    <3> QED BY <1>1, <3>1, <3>2
  <2>6. p[1] = line[1] /\ p[2] = Ignored /\ p[3] = line[2]
    BY <2>2, <2>5
  <2>7. Shape(line, p)
    BY <1>6, <2>1, <2>5, <2>6 DEF Shape
  <2> QED BY <1>1, <2>5, <2>7 DEF p
<1>7. CASE is(line, {"j"})
  <2>1. Len(line) >= 2
    BY <1>7 DEF crashes, needed, is, loads, stores
  <2>2. aligned(line) = <<line[1], line[2], Ignored, Ignored>>
    BY <1>7 DEF aligned, is, loads, stores
  <2>3. aligned(line) \in Seq(Token) /\ Len(aligned(line)) = 4
    BY <1>4, <2>1, <2>2
  <2>4. p = aligned(line) \o rest
    BY <1>7 DEF preprocess, is
  <2> HIDE DEF p, rest
  <2>5. /\ p \in Seq(Token) /\ Len(p) = Len(line) + 2
        /\ \A i \in 1 .. 4 : p[i] = aligned(line)[i]
        /\ \A i \in 5 .. Len(p) : p[i] = line[i - 2]
    <3>1. /\ p \in Seq(Token) /\ Len(p) = 4 + Len(line) - 2
          /\ \A i \in 1 .. 4 : p[i] = aligned(line)[i]
          /\ \A i \in 4 + 1 .. Len(p) : p[i] = line[i - 4 + 2]
      <4>1. Len(line) >= 2
        BY <1>1, <2>1
      <4>2. /\ p \in Seq(Token) /\ Len(p) = Len(aligned(line)) + Len(line) - 2
            /\ \A i \in 1 .. Len(aligned(line)) : p[i] = aligned(line)[i]
            /\ \A i \in Len(aligned(line)) + 1 .. Len(p) : p[i] = line[i - Len(aligned(line)) + 2]
        BY <1>3, <2>3, <2>4, <4>1, Zenon
      <4> QED BY <2>3, <4>2, Zenon
    <3>2. ASSUME NEW i \in 5 .. Len(p) PROVE p[i] = line[i - 2]
      <4>1. i \in 4 + 1 .. Len(p) /\ i - 4 + 2 = i - 2
        BY <3>1
      <4> QED BY <3>1, <4>1
    <3> QED BY <1>1, <3>1, <3>2
  <2>6. p[1] = line[1] /\ p[2] = line[2] /\ p[3] = Ignored /\ p[4] = Ignored
    BY <2>2, <2>5
  <2>7. Shape(line, p)
    BY <1>7, <2>1, <2>5, <2>6 DEF Shape
  <2> QED BY <1>1, <2>5, <2>7 DEF p
<1>8. is(line, loads \union stores \union {"j"})
        => is(line, loads) \/ is(line, stores) \/ is(line, {"j"})
  BY DEF is
<1> QED BY <1>2, <1>5, <1>6, <1>7, <1>8

-----------------------------------------------------------------------------
(* The whole file of words. *)

\* Induction on the natural numbers, over a set instead of a predicate.
LEMMA Induction ==
  ASSUME NEW S, 0 \in S, \A n \in Nat : n \in S => n + 1 \in S
  PROVE  \A n \in Nat : n \in S
<1> SUFFICES ASSUME NEW k \in Nat, k \notin S PROVE FALSE
  OBVIOUS
<1> DEFINE T == Nat \ S
           R == OpToRel(<, Nat)
<1>1. PICK m \in T : \A n \in T : ~ (<<n, m>> \in R)
  <2>1. T \subseteq Nat /\ T # {} /\ IsWellFoundedOn(R, Nat)
    BY NatLessThanWellFounded
  <2> HIDE DEF T, R
  <2> QED BY <2>1, WFMin
<1>2. m \in Nat /\ m # 0 /\ m - 1 \in Nat /\ (m - 1) + 1 = m
  OBVIOUS
<1>3. <<m - 1, m>> \in R
  BY <1>2 DEF OpToRel
<1> QED BY <1>1, <1>2, <1>3

\* Words of four bytes, one after the other.
LEMMA Flattened ==
  ASSUME NEW S, NEW ws \in Seq(Seq(S)), \A n \in 1 .. Len(ws) : Len(ws[n]) = 4
  PROVE  /\ Len(FlattenSeq(ws)) = 4 * Len(ws)
         /\ \A n \in 1 .. Len(ws), k \in 1 .. 4 :
              FlattenSeq(ws)[4 * (n - 1) + k] = ws[n][k]
<1>1. CASE Len(ws) = 0
  <2>1. FlattenSeq(ws) = ws
    BY <1>1 DEF FlattenSeq
  <2> QED BY <1>1, <2>1
<1>2. CASE Len(ws) # 0
  <2> DEFINE L == Len(ws)
             Is(f, m) == f = [i \in 1 .. m |-> IF i = 1 THEN ws[i] ELSE f[i - 1] \o ws[i]]
             Good(f, n) == /\ f[n] \in Seq(S) /\ Len(f[n]) = 4 * n
                           /\ \A i \in 1 .. n, k \in 1 .. 4 : f[n][4 * (i - 1) + k] = ws[i][k]
  <2>1. L \in Nat /\ L >= 1 /\ \A n \in 1 .. L : ws[n] \in Seq(S) /\ Len(ws[n]) = 4
    BY <1>2
  <2>2. \E f : Is(f, L)
    <3> DEFINE T == {m \in Nat : \E f : Is(f, m)}
    <3>1. 0 \in T
      <4>1. Is([i \in 1 .. 0 |-> 0], 0)
        OBVIOUS
      <4> QED BY <4>1
    <3>2. ASSUME NEW m \in Nat, m \in T PROVE m + 1 \in T
      <4>1. PICK f : Is(f, m)
        BY <3>2
      <4> DEFINE g == [i \in 1 .. m + 1 |-> IF i <= m THEN f[i]
                                            ELSE IF i = 1 THEN ws[i] ELSE f[i - 1] \o ws[i]]
      <4>2. ASSUME NEW i \in 1 .. m + 1
            PROVE  g[i] = IF i = 1 THEN ws[i] ELSE g[i - 1] \o ws[i]
        <5>1. \A j \in 1 .. m : f[j] = IF j = 1 THEN ws[j] ELSE f[j - 1] \o ws[j]
          BY <4>1, Zenon
        <5>2. CASE i = m + 1
          <6>1. ~(i <= m) /\ (i # 1 => i - 1 \in 1 .. m + 1 /\ i - 1 <= m)
            BY <5>2
          <6> QED BY <6>1, Zenon
        <5>3. CASE i # m + 1
          <6>1. i \in 1 .. m /\ i <= m /\ (i # 1 => i - 1 \in 1 .. m + 1 /\ i - 1 <= m)
            BY <5>3
          <6> QED BY <5>1, <6>1, Zenon
        <5> QED BY <5>2, <5>3
      <4>3. g = [i \in 1 .. m + 1 |-> g[i]]
        OBVIOUS
      <4> HIDE DEF g
      <4>4. Is(g, m + 1)
        BY <4>2, <4>3
      <4> HIDE DEF Is
      <4> QED BY <4>4
    <3> HIDE DEF T
    <3>3. L \in T
      BY <2>1, <3>1, <3>2, Induction
    <3> QED BY <3>3 DEF T
  <2> DEFINE flatten == CHOOSE f : Is(f, L)
  <2>3. FlattenSeq(ws) = flatten[L]
    BY <1>2 DEF FlattenSeq
  <2>4. Is(flatten, L)
    BY <2>2, Zenon
  <2> HIDE DEF flatten
  <2>5. flatten[1] = ws[1] /\ \A n \in 1 .. L : n + 1 <= L => flatten[n + 1] = flatten[n] \o ws[n + 1]
    <3>1. \A i \in 1 .. L : flatten[i] = IF i = 1 THEN ws[i] ELSE flatten[i - 1] \o ws[i]
      BY <2>4, Zenon
    <3>2. ASSUME NEW n \in 1 .. L, n + 1 <= L
          PROVE  n + 1 \in 1 .. L /\ n + 1 # 1 /\ (n + 1) - 1 = n
      BY <2>1, <3>2
    <3>3. 1 \in 1 .. L
      BY <2>1
    <3> HIDE DEF Is
    <3> QED BY <3>1, <3>2, <3>3, Zenon
  <2> HIDE DEF Is
  <2>6. ASSUME NEW n \in 1 .. L, n + 1 <= L, Good(flatten, n) PROVE Good(flatten, n + 1)
    <3> DEFINE s == flatten[n]
               w == ws[n + 1]
    <3>1. s \in Seq(S) /\ w \in Seq(S) /\ Len(s) = 4 * n /\ Len(w) = 4
      BY <2>1, <2>6
    <3>2. \A i \in 1 .. n, k \in 1 .. 4 : s[4 * (i - 1) + k] = ws[i][k]
      BY <2>6
    <3>3. w = ws[n + 1] /\ flatten[n + 1] = s \o w /\ n \in Nat
      <4>1. n + 1 <= L
        BY <2>6
      <4>2. n \in Nat
        OBVIOUS
      <4> QED BY <2>5, <4>1, <4>2, Zenon
    <3> HIDE DEF s, w
    <3>4. /\ flatten[n + 1] = s \o w /\ s \o w \in Seq(S) /\ Len(s \o w) = Len(s) + Len(w)
          /\ \A i \in 1 .. Len(s) + Len(w) :
               (s \o w)[i] = IF i <= Len(s) THEN s[i] ELSE w[i - Len(s)]
      <4>1. s \in Seq(S) /\ w \in Seq(S)
        BY <3>1
      <4>2. /\ s \o w \in Seq(S) /\ Len(s \o w) = Len(s) + Len(w)
            /\ \A i \in 1 .. Len(s) + Len(w) :
                 (s \o w)[i] = IF i <= Len(s) THEN s[i] ELSE w[i - Len(s)]
        BY <4>1, ConcatProperties
      <4> QED BY <3>3, <4>2, Zenon
    <3>5. ASSUME NEW i \in 1 .. n + 1, NEW k \in 1 .. 4
          PROVE  (s \o w)[4 * (i - 1) + k] = ws[i][k]
      <4>1. CASE i <= n
        <5>1. 4 * (i - 1) + k \in 1 .. Len(s) + Len(w) /\ 4 * (i - 1) + k <= Len(s)
          BY <3>1, <4>1
        <5>2. s[4 * (i - 1) + k] = ws[i][k]
          <6>1. i \in 1 .. n
            BY <4>1
          <6> QED BY <3>2, <6>1, Zenon
        <5> QED BY <3>4, <5>1, <5>2, Zenon
      <4>2. CASE i = n + 1
        <5>1. 4 * (i - 1) + k = Len(s) + k /\ Len(s) \in Nat /\ Len(w) = 4
          BY <3>1, <4>2
        <5>2. \A a \in Nat : a + k \in 1 .. a + 4 /\ ~(a + k <= a) /\ (a + k) - a = k
          OBVIOUS
        <5>3. Len(s) + k \in 1 .. Len(s) + Len(w)
          BY <5>1, <5>2
        <5>4. (s \o w)[Len(s) + k] = w[k]
          BY <3>4, <5>1, <5>2, <5>3
        <5> QED BY <3>3, <4>2, <5>1, <5>4
      <4>3. i <= n \/ i = n + 1
        OBVIOUS
      <4> QED BY <4>1, <4>2, <4>3
    <3>6. Len(s \o w) = 4 * (n + 1)
      BY <3>1, <3>4
    <3> QED BY <3>4, <3>5, <3>6
  <2>7. Good(flatten, 1)
    <3>1. flatten[1] = ws[1] /\ ws[1] \in Seq(S) /\ Len(ws[1]) = 4
      BY <2>1, <2>5
    <3>2. ASSUME NEW i \in 1 .. 1, NEW k \in 1 .. 4 PROVE i = 1 /\ 4 * (i - 1) + k = k
      OBVIOUS
    <3> QED BY <3>1, <3>2
  <2>8. Good(flatten, L)
    <3> DEFINE T == {m \in Nat : m + 1 <= L => Good(flatten, m + 1)}
    <3> HIDE DEF Good
    <3>1. 0 \in T
      BY <2>7
    <3>2. ASSUME NEW m \in Nat, m \in T PROVE m + 1 \in T
      BY <2>1, <2>6, <3>2
    <3>3. L - 1 \in T
      <4> HIDE DEF T
      <4>1. L - 1 \in Nat
        BY <2>1
      <4> QED BY <3>1, <3>2, <4>1, Induction
    <3> QED BY <2>1, <3>3
  <2> QED BY <2>3, <2>8
<1> QED BY <1>1, <1>2

\* A group holds the digits of its place, as far as they are there.
LEMMA Groups ==
  ASSUME NEW d \in Seq(Digits), NEW n \in 1 .. 4
  PROVE  /\ group(d, n) \in Seq(Digits)
         /\ Len(d) >= 2 * n - 1 => group(d, n) # <<>> /\ group(d, n)[1] = d[2 * n - 1]
         /\ Len(d) >= 2 * n => Len(group(d, n)) = 2 /\ group(d, n)[2] = d[2 * n]
         /\ Len(d) = 2 * n - 1 => Len(group(d, n)) = 1
<1> DEFINE last == IF 2 * n <= Len(d) THEN 2 * n ELSE Len(d)
           first == 2 * n - 1
           g == SubSeq(d, first, last)
<1>1. /\ first \in Nat /\ first >= 1 /\ last \in Nat /\ last <= Len(d)
      /\ Len(d) >= first => last >= first
      /\ Len(d) >= 2 * n => last = first + 1
      /\ Len(d) = 2 * n - 1 => last = first
  OBVIOUS
<1>2. group(d, n) = g
  BY DEF group
<1> HIDE DEF first, last
<1>3. \A i \in first .. last : d[i] \in Digits
  BY <1>1
<1>4. /\ g \in Seq(Digits)
      /\ Len(g) = IF first <= last THEN last - first + 1 ELSE 0
      /\ \A i \in 1 .. last - first + 1 : g[i] = d[first + i - 1]
  BY <1>1, <1>3, SubSeqProperties
<1> HIDE DEF g
<1>5. ASSUME Len(d) >= first PROVE g # <<>> /\ g[1] = d[first]
  <2>1. first <= last /\ 1 \in 1 .. last - first + 1 /\ first + 1 - 1 = first
    BY <1>1, <1>5
  <2>2. g[1] = d[first]
    BY <1>4, <2>1, Zenon
  <2>3. Len(g) = last - first + 1
    BY <1>4, <2>1, Zenon
  <2>4. Len(g) # 0
    BY <1>1, <2>1, <2>3
  <2> QED BY <2>2, <2>4
<1>6. ASSUME Len(d) >= 2 * n PROVE Len(g) = 2 /\ g[2] = d[2 * n]
  <2>1. /\ first <= last /\ 2 \in 1 .. last - first + 1 /\ first + 2 - 1 = 2 * n
        /\ last - first + 1 = 2
    BY <1>1, <1>6 DEF first
  <2> QED BY <1>4, <2>1, Zenon
<1>7. ASSUME Len(d) = 2 * n - 1 PROVE Len(g) = 1
  <2>1. first <= last /\ last - first + 1 = 1
    BY <1>1, <1>7
  <2> QED BY <1>4, <2>1, Zenon
<1> QED BY <1>2, <1>4, <1>5, <1>6, <1>7 DEF first

\* No byte is lost of a word whose four groups are there.
LEMMA Whole ==
  ASSUME NEW groups \in [1 .. 4 -> Seq(Digits)], \A k \in 1 .. 4 : groups[k] # <<>>
  PROVE  /\ bytesOf(groups) = [k \in 1 .. 4 |-> number(groups[k])]
         /\ Len(bytesOf(groups)) = 4
<1>1. {n \in DOMAIN groups : groups[n] = <<>>} = {}
  OBVIOUS
<1>2. Cardinality({n \in DOMAIN groups : groups[n] = <<>>}) = 0
  BY <1>1, FS_EmptySet
<1>3. Len(groups) = 4
  OBVIOUS
<1>4. bytesOf(groups) = [n \in 1 .. 4 - 0 |-> number(groups[n + 0])]
  BY <1>2, <1>3, Zenon DEF bytesOf
<1> QED BY <1>4

\* All four groups of a line of seven or eight digits are there.
LEMMA Cut ==
  ASSUME NEW d \in Seq(Digits)
  PROVE  /\ cut(d) \in [1 .. 4 -> Seq(Digits)]
         /\ Len(d) >= 7 => \A k \in 1 .. 4 : cut(d)[k] # <<>>
<1>1. ASSUME NEW k \in 1 .. 4
      PROVE  /\ cut(d)[k] = group(d, 5 - k) /\ group(d, 5 - k) \in Seq(Digits)
             /\ Len(d) >= 7 => group(d, 5 - k) # <<>>
  <2>1. 5 - k \in 1 .. 4
    OBVIOUS
  <2>2. Len(d) >= 7 => Len(d) >= 2 * (5 - k) - 1
    OBVIOUS
  <2> QED BY <2>1, <2>2, Groups DEF cut
<1> QED BY <1>1 DEF cut

-----------------------------------------------------------------------------
(* Types. *)

TypeOK ==
  /\ stage \in {"idle", "read", "encode", "rejected", "append"} /\ accepted \in BOOLEAN
  /\ source \in Sources \union {Absent}
  /\ stage \in {"read", "encode"} => source \in Sources
  /\ line_count \in Nat /\ (source \in Sources => line_count <= Len(source))
  /\ stage = "encode" => line_count > 0
  /\ tokens \in Seq(Token) /\ count \in Nat /\ out_token \in Codes
  /\ machine \in Seq(Seq(Digits)) /\ written \in Seq(Digits)
  /\ lines_read \in Nat /\ (stage = "append" => lines_read <= Len(machine))
  /\ image \in Seq([1 .. 4 -> Seq(Digits)])

\* The line that is read next.
LEMMA Reading ==
  ASSUME TypeOK, stage = "read", line_count < Len(source)
  PROVE  /\ source \in Sources /\ source \in Seq(Seq(Token)) /\ line_count + 1 \in DOMAIN source
         /\ source[line_count + 1] \in Seq(Token)
<1>1. source \in Sources /\ source \in Seq(Seq(Token)) /\ line_count \in Nat
  BY BuildAssumption DEF TypeOK
<1>2. line_count + 1 \in 1 .. Len(source)
  BY <1>1
<1> QED BY <1>1, <1>2, ElementOfSeq

\* The types, at the start and over a step.
LEMMA TypeInit == Init => TypeOK
<1> SUFFICES ASSUME Init PROVE TypeOK
  OBVIOUS
<1>1. out_token \in Codes
  BY DEF Init, Codes, Digits
<1>2. /\ tokens \in Seq(Token) /\ machine \in Seq(Seq(Digits)) /\ written \in Seq(Digits)
      /\ image \in Seq([1 .. 4 -> Seq(Digits)])
  BY DEF Init
<1>3. source \in Sources \union {Absent} /\ source \notin Sources
  BY BuildAssumption DEF Init
<1> QED BY <1>1, <1>2, <1>3 DEF Init, TypeOK

LEMMA TypeStep == TypeOK /\ [Next]_vars => TypeOK'
<1> SUFFICES ASSUME TypeOK, [Next]_vars PROVE TypeOK'
  OBVIOUS
<1> USE DEF TypeOK
<1>1. ASSUME NEW s \in Sources \union {Absent}, Start(s) PROVE TypeOK'
  <2>1. <<0, 0>> \in Codes
    BY DEF Codes, Digits
  <2>2. s # Absent => s \in Seq(Seq(Token))
    BY BuildAssumption
  <2>3. /\ UNCHANGED <<tokens, count, lines_read, image>>
        /\ source' = s /\ accepted' = FALSE /\ line_count' = 0 /\ out_token' = <<0, 0>>
    BY <1>1 DEF Start
  <2>4. CASE s = Absent
    <3>1. stage' = "rejected" /\ UNCHANGED <<machine, written>>
      BY <1>1, <2>4 DEF Start
    <3> QED BY <2>1, <2>3, <2>4, <3>1, BuildAssumption
  <2>5. CASE s # Absent
    <3>1. stage' = "read" /\ machine' = <<>> /\ written' = <<>>
      BY <1>1, <2>5 DEF Start
    <3>2. Len(s) \in Nat /\ s \in Sources
      BY <2>2, <2>5
    <3>3. machine' \in Seq(Seq(Digits)) /\ written' \in Seq(Digits)
      BY <3>1
    <3>4. line_count' \in Nat /\ line_count' <= Len(source')
      BY <2>3, <3>2
    <3> QED BY <2>1, <2>3, <3>1, <3>2, <3>3, <3>4
  <2> QED BY <2>4, <2>5
<1>2. CASE ReadLine
  <2>1. source[line_count + 1] \in Seq(Token) /\ ~crashes(source[line_count + 1])
    BY <1>2, Reading DEF ReadLine
  <2>2. tokens' \in Seq(Token)
    BY <1>2, <2>1, Preprocessed DEF ReadLine
  <2>3. source \in Sources /\ source \in Seq(Seq(Token))
    BY <1>2, Reading DEF ReadLine
  <2>4. /\ stage' = "encode" /\ count' = 0 /\ line_count' = line_count + 1
        /\ line_count < Len(source) /\ Len(source) \in Nat
        /\ UNCHANGED <<accepted, source, out_token, machine, written, lines_read, image>>
    BY <1>2, <2>3 DEF ReadLine
  <2>5. line_count + 1 \in Nat /\ line_count + 1 <= Len(source) /\ line_count + 1 > 0
    BY <2>4
  <2> QED BY <2>2, <2>3, <2>4, <2>5
<1>3. CASE Crash
  <2>1. PICK n \in 0 .. Len(machine) : machine' = SubSeq(machine, 1, n)
    BY <1>3 DEF Crash
  <2>2. machine' \in Seq(Seq(Digits))
    BY <2>1, SubSeqProperties
  <2> QED BY <1>3, <2>2 DEF Crash
<1>4. CASE EncodeToken
  <2>1. Head(tokens) \in Token /\ Tail(tokens) \in Seq(Token) /\ <<>> \in Seq(Token)
    BY <1>4 DEF EncodeToken
  <2>2. UNCHANGED <<stage, accepted, source, line_count, machine, lines_read, image>>
    BY <1>4 DEF EncodeToken
  <2>3. CASE ~ends(Head(tokens)) /\ ~rejected(Head(tokens))
    <3>1. /\ out_token' = encode(Head(tokens), out_token) /\ written' = written \o out_token'
          /\ tokens' = Tail(tokens) /\ count' = count + 1
      BY <1>4, <2>3 DEF EncodeToken, rejected
    <3>2. out_token' \in Codes
      BY <2>1, <2>3, <3>1, Encoded
    <3>3. out_token' \in Seq(Digits)
      BY <3>2 DEF Codes
    <3>4. written' \in Seq(Digits)
      BY <3>1, <3>3
    <3> QED BY <2>1, <2>2, <3>1, <3>2, <3>4
  <2>4. CASE ends(Head(tokens)) \/ rejected(Head(tokens))
    <3>1. tokens' = <<>> /\ UNCHANGED <<out_token, written>> /\ count' \in {count, 99}
      BY <1>4, <2>4 DEF EncodeToken, rejected
    <3> QED BY <2>1, <2>2, <3>1
  <2> QED BY <2>3, <2>4
<1>5. CASE EndLine
  <2>1. Append(machine, written) \in Seq(Seq(Digits)) /\ <<>> \in Seq(Digits)
    OBVIOUS
  <2>2. /\ machine' \in {machine, Append(machine, written)} /\ written' \in {written, <<>>}
        /\ stage = "encode" /\ stage' \in {"read", "rejected"}
        /\ UNCHANGED <<accepted, source, line_count, tokens, count, out_token, lines_read, image>>
    BY <1>5 DEF EndLine
  <2> QED BY <2>1, <2>2
<1>6. CASE RemoveImage
  BY <1>6 DEF RemoveImage, assemblerVars
<1>7. CASE KeepImage
  BY <1>7 DEF KeepImage, assemblerVars
<1>8. CASE AppendLine
  <2>1. lines_read + 1 \in 1 .. Len(machine)
    BY <1>8 DEF AppendLine
  <2>2. machine[lines_read + 1] \in Seq(Digits)
    BY <2>1
  <2>3. cut(machine[lines_read + 1]) \in [1 .. 4 -> Seq(Digits)]
    BY <2>2, Cut
  <2> QED BY <1>8, <2>1, <2>3 DEF AppendLine, assemblerVars
<1>9. CASE Finish
  BY <1>9 DEF Finish, assemblerVars
<1>10. CASE UNCHANGED vars
  BY <1>10 DEF vars, assemblerVars
<1> QED BY <1>1, <1>2, <1>3, <1>4, <1>5, <1>6, <1>7, <1>8, <1>9, <1>10 DEF Next

-----------------------------------------------------------------------------
(* Words stay whole if no line has two short immediates: the first leaves a word of      *)
(* seven digits, and its last group is still there.                                      *)

OneShort(line) ==
  \A i, j \in DOMAIN line : Short(line[i]) /\ Short(line[j]) => i = j

HasShort(line) == \E i \in DOMAIN line : Short(line[i])

\* The digits written for the tokens of a line so far.
LineInv ==
  stage = "encode" /\ (tokens # <<>> \/ count # 99) =>
    /\ Len(written) \in 2 * count - 1 .. 2 * count
    /\ HasShort(tokens) => Len(written) = 2 * count
    /\ OneShort(tokens)

WordInv ==
  /\ \A n \in DOMAIN machine : Len(machine[n]) \in 7 .. 8
  /\ \A n \in DOMAIN image, k \in 1 .. 4 : image[n][k] # <<>>
  /\ stage = "read" => written = <<>>
  /\ LineInv

\* preprocess adds no short immediate.
LEMMA OneShortLine ==
  ASSUME NEW line \in Seq(Token), ~crashes(line), OneShort(line)
  PROVE  OneShort(preprocess(line))
<1> DEFINE p == preprocess(line)
<1>1. p \in Seq(Token) /\ Shape(line, p)
  BY Preprocessed
<1> HIDE DEF p
<1>2. ~Short(Ignored)
  BY DEF Short, Ignored
<1> SUFFICES ASSUME NEW i \in DOMAIN p, NEW j \in DOMAIN p, Short(p[i]), Short(p[j])
             PROVE  i = j
  BY DEF OneShort, p
<1>3. \A m, n \in DOMAIN line : Short(line[m]) /\ Short(line[n]) => m = n
  BY DEF OneShort
<1>4. i \in 1 .. Len(p) /\ j \in 1 .. Len(p) /\ DOMAIN line = 1 .. Len(line) /\ Len(line) \in Nat
  BY <1>1
<1>5. CASE p = line
  BY <1>3, <1>5
\* f[n] is where the token n of pline stood in the line.
<1>6. ASSUME NEW f,
             \A n \in 1 .. Len(p) : Short(p[n]) => f[n] \in DOMAIN line /\ line[f[n]] = p[n],
             \A m, n \in 1 .. Len(p) : Short(p[m]) /\ Short(p[n]) /\ f[m] = f[n] => m = n
      PROVE  i = j
  BY <1>3, <1>4, <1>6
<1>7. CASE /\ Len(line) >= 3 /\ Len(p) = Len(line) + 1 /\ p[1] = line[1] /\ p[2] = line[2]
           /\ p[3] = Ignored /\ \A n \in 4 .. Len(p) : p[n] = line[n - 1]
  <2> DEFINE f == [n \in 1 .. Len(p) |-> IF n < 3 THEN n ELSE n - 1]
  <2>1. ASSUME NEW n \in 1 .. Len(p), Short(p[n])
        PROVE  f[n] \in DOMAIN line /\ line[f[n]] = p[n]
    <3>1. n # 3
      BY <1>2, <1>7, <2>1
    <3>2. n \in {1, 2, 3} \/ n \in 4 .. Len(p)
      BY <1>4
    <3> QED BY <1>4, <1>7, <3>1, <3>2
  <2>2. ASSUME NEW m \in 1 .. Len(p), NEW n \in 1 .. Len(p),
               Short(p[m]), Short(p[n]), f[m] = f[n]
        PROVE  m = n
    <3>1. n # 3 /\ m # 3
      BY <1>2, <1>7, <2>2
    <3> QED BY <2>2, <3>1
  <2> HIDE DEF f
  <2> QED BY <1>6, <2>1, <2>2
<1>8. CASE /\ Len(line) >= 3 /\ Len(p) = Len(line) + 1 /\ p[1] = line[1] /\ p[2] = Ignored
           /\ p[3] = line[2] /\ \A n \in 4 .. Len(p) : p[n] = line[n - 1]
  <2> DEFINE f == [n \in 1 .. Len(p) |-> IF n < 2 THEN n ELSE n - 1]
  <2>1. ASSUME NEW n \in 1 .. Len(p), Short(p[n])
        PROVE  f[n] \in DOMAIN line /\ line[f[n]] = p[n]
    <3>1. n # 2
      BY <1>2, <1>8, <2>1
    <3>2. n \in {1, 2, 3} \/ n \in 4 .. Len(p)
      BY <1>4
    <3> QED BY <1>4, <1>8, <3>1, <3>2
  <2>2. ASSUME NEW m \in 1 .. Len(p), NEW n \in 1 .. Len(p),
               Short(p[m]), Short(p[n]), f[m] = f[n]
        PROVE  m = n
    <3>1. n # 2 /\ m # 2
      BY <1>2, <1>8, <2>2
    <3> QED BY <2>2, <3>1
  <2> HIDE DEF f
  <2> QED BY <1>6, <2>1, <2>2
<1>9. CASE /\ Len(line) >= 2 /\ Len(p) = Len(line) + 2 /\ p[1] = line[1] /\ p[2] = line[2]
           /\ p[3] = Ignored /\ p[4] = Ignored /\ \A n \in 5 .. Len(p) : p[n] = line[n - 2]
  <2> DEFINE f == [n \in 1 .. Len(p) |-> IF n < 3 THEN n ELSE n - 2]
  <2>1. ASSUME NEW n \in 1 .. Len(p), Short(p[n])
        PROVE  f[n] \in DOMAIN line /\ line[f[n]] = p[n]
    <3>1. n # 3 /\ n # 4
      BY <1>2, <1>9, <2>1
    <3>2. n \in {1, 2, 3} \/ n \in 4 .. Len(p)
      BY <1>4
    <3> QED BY <1>4, <1>9, <3>1, <3>2
  <2>2. ASSUME NEW m \in 1 .. Len(p), NEW n \in 1 .. Len(p),
               Short(p[m]), Short(p[n]), f[m] = f[n]
        PROVE  m = n
    <3>1. n # 3 /\ m # 3 /\ n # 4 /\ m # 4
      BY <1>2, <1>9, <2>2
    <3> QED BY <2>2, <3>1
  <2> HIDE DEF f
  <2> QED BY <1>6, <2>1, <2>2
<1> QED BY <1>1, <1>5, <1>7, <1>8, <1>9 DEF Shape

\* It adds no token but X.
LEMMA Origin ==
  ASSUME NEW line \in Seq(Token), NEW p \in Seq(Token), Shape(line, p), NEW i \in 1 .. Len(p)
  PROVE  p[i] = Ignored \/ \E m \in DOMAIN line : p[i] = line[m]
<1>1. Len(line) \in Nat /\ Len(p) \in Nat /\ DOMAIN line = 1 .. Len(line)
  OBVIOUS
<1>2. i \in {1, 2, 3} \/ i = 4 \/ i \in 5 .. Len(p)
  BY <1>1
<1>3. CASE p = line
  BY <1>1, <1>3
<1>4. CASE /\ Len(line) >= 3 /\ Len(p) = Len(line) + 1 /\ p[1] = line[1]
           /\ (p[2] = line[2] /\ p[3] = Ignored) \/ (p[2] = Ignored /\ p[3] = line[2])
           /\ \A n \in 4 .. Len(p) : p[n] = line[n - 1]
  <2>1. CASE i \in {1, 2, 3}
    <3>1. 1 \in DOMAIN line /\ 2 \in DOMAIN line
      BY <1>1, <1>4
    <3> QED BY <1>4, <2>1, <3>1
  <2>2. CASE i \in 4 .. Len(p)
    <3>1. i - 1 \in DOMAIN line /\ p[i] = line[i - 1]
      BY <1>1, <1>4, <2>2
    <3> QED BY <3>1
  <2> QED BY <1>1, <1>2, <2>1, <2>2
<1>5. CASE /\ Len(line) >= 2 /\ Len(p) = Len(line) + 2 /\ p[1] = line[1] /\ p[2] = line[2]
           /\ p[3] = Ignored /\ p[4] = Ignored /\ \A n \in 5 .. Len(p) : p[n] = line[n - 2]
  <2>1. CASE i \in 5 .. Len(p)
    <3>1. i - 2 \in DOMAIN line /\ p[i] = line[i - 2]
      BY <1>1, <1>5, <2>1
    <3> QED BY <3>1
  <2>2. CASE i \in {1, 2, 3} \/ i = 4
    <3>1. 1 \in DOMAIN line /\ 2 \in DOMAIN line
      BY <1>1, <1>5
    <3> QED BY <1>5, <2>2, <3>1
  <2> QED BY <1>2, <2>1, <2>2
<1> QED BY <1>3, <1>4, <1>5 DEF Shape

\* Writing the code of a token keeps the number of digits within one of the whole.
LEMMA LineStep ==
  ASSUME TypeOK, WordInv, EncodeToken
  PROVE  LineInv'
<1> DEFINE t == Head(tokens)
<1>1. /\ stage = "encode" /\ tokens # <<>> /\ UNCHANGED stage /\ tokens \in Seq(Token)
      /\ count \in Nat /\ written \in Seq(Digits) /\ out_token \in Codes
  BY DEF EncodeToken, TypeOK
<1>2. /\ Len(written) \in 2 * count - 1 .. 2 * count
      /\ HasShort(tokens) => Len(written) = 2 * count
      /\ OneShort(tokens)
  BY <1>1 DEF WordInv, LineInv
<1>3. CASE ~ends(t) /\ ~rejected(t)
  <2>1. /\ out_token' = encode(t, out_token) /\ written' = written \o out_token'
        /\ tokens' = Tail(tokens) /\ count' = count + 1
    BY <1>3 DEF EncodeToken, rejected
  <2>2. /\ t = tokens[1] /\ t \in Token /\ tokens' \in Seq(Token)
        /\ Len(tokens') = Len(tokens) - 1 /\ Len(tokens) \in Nat /\ 1 \in DOMAIN tokens
        /\ \A i \in 1 .. Len(tokens') : tokens'[i] = tokens[i + 1] /\ i + 1 \in DOMAIN tokens
    BY <1>1, <2>1
  <2>3. out_token' \in Codes /\ (~Short(t) => Len(out_token') = 2)
    BY <1>1, <1>3, <2>1, <2>2, Encoded
  <2>4. Len(written') = Len(written) + Len(out_token') /\ Len(out_token') \in 1 .. 2
    BY <1>1, <2>1, <2>3 DEF Codes
  <2>5. OneShort(tokens')
    <3> SUFFICES ASSUME NEW i \in DOMAIN tokens', NEW j \in DOMAIN tokens',
                        Short(tokens'[i]), Short(tokens'[j])
                 PROVE  i = j
      BY DEF OneShort
    <3>1. i \in 1 .. Len(tokens') /\ j \in 1 .. Len(tokens')
      BY <2>2
    <3>2. /\ i + 1 \in DOMAIN tokens /\ Short(tokens[i + 1])
          /\ j + 1 \in DOMAIN tokens /\ Short(tokens[j + 1])
      BY <2>2, <3>1
    <3>3. i + 1 = j + 1
      BY <1>2, <3>2 DEF OneShort
    <3> QED BY <3>1, <3>3
  <2>6. HasShort(tokens') => HasShort(tokens) /\ ~Short(t)
    <3> SUFFICES ASSUME NEW i \in DOMAIN tokens', Short(tokens'[i])
                 PROVE  HasShort(tokens) /\ ~Short(t)
      BY DEF HasShort
    <3>1. i \in 1 .. Len(tokens') /\ i + 1 # 1
      BY <2>2
    <3>2. Short(tokens[i + 1]) /\ i + 1 \in DOMAIN tokens
      BY <2>2, <3>1
    <3> QED BY <1>2, <2>2, <3>1, <3>2 DEF HasShort, OneShort
  <2>7. Short(t) => HasShort(tokens)
    BY <2>2 DEF HasShort
  <2>8. Len(written) \in Nat
    BY <1>1
  <2>9. CASE Short(t)
    <3>1. Len(written) = 2 * count /\ ~HasShort(tokens')
      BY <1>2, <2>6, <2>7, <2>9
    <3>2. Len(written') \in 2 * (count + 1) - 1 .. 2 * (count + 1)
      <4>1. \A c \in Nat, o \in 1 .. 2 : 2 * c + o \in 2 * (c + 1) - 1 .. 2 * (c + 1)
        OBVIOUS
      <4> QED BY <1>1, <2>4, <3>1, <4>1
    <3> QED BY <2>1, <2>5, <3>1, <3>2 DEF LineInv
  <2>10. CASE ~Short(t)
    <3>1. Len(written') = Len(written) + 2
      BY <2>3, <2>4, <2>10
    <3>2. Len(written') \in 2 * (count + 1) - 1 .. 2 * (count + 1)
      BY <1>1, <1>2, <2>8, <3>1
    <3>3. HasShort(tokens') => Len(written') = 2 * (count + 1)
      BY <1>1, <1>2, <2>6, <2>8, <3>1
    <3> QED BY <2>1, <2>5, <3>2, <3>3 DEF LineInv
  <2> QED BY <2>9, <2>10
<1>4. CASE ends(t)
  <2>1. tokens' = <<>> /\ UNCHANGED <<count, written>>
    BY <1>4 DEF EncodeToken, rejected
  <2>2. ~HasShort(tokens') /\ OneShort(tokens')
    BY <2>1 DEF HasShort, OneShort
  <2> QED BY <1>2, <2>1, <2>2 DEF LineInv
<1>5. CASE rejected(t)
  <2>1. tokens' = <<>> /\ count' = 99
    BY <1>5 DEF EncodeToken, rejected
  <2> QED BY <2>1 DEF LineInv
<1> QED BY <1>3, <1>4, <1>5

\* A line of the machine file that EndLine writes has the digits of a whole word.
LEMMA WordStep ==
  ASSUME \A s \in Sources : \A n \in DOMAIN s : OneShort(s[n])
  PROVE  TypeOK /\ WordInv /\ [Next]_vars => WordInv'
<1> SUFFICES ASSUME TypeOK, WordInv, [Next]_vars PROVE WordInv'
  OBVIOUS
<1> USE DEF WordInv
<1>1. ASSUME NEW s \in Sources \union {Absent}, Start(s) PROVE WordInv'
  <2>1. /\ UNCHANGED image /\ stage' \in {"read", "rejected"}
        /\ \/ machine' = <<>> /\ written' = <<>>
           \/ stage' = "rejected" /\ UNCHANGED <<machine, written>>
    BY <1>1 DEF Start
  <2> QED BY <2>1 DEF LineInv
<1>2. CASE ReadLine
  <2>1. /\ tokens' = preprocess(source[line_count + 1]) /\ count' = 0 /\ stage = "read"
        /\ ~crashes(source[line_count + 1]) /\ UNCHANGED <<machine, written, image>>
        /\ stage' = "encode" /\ line_count < Len(source)
    BY <1>2 DEF ReadLine
  <2>2. /\ source[line_count + 1] \in Seq(Token) /\ source \in Sources
        /\ line_count + 1 \in DOMAIN source
    BY <2>1, Reading
  <2>3. OneShort(tokens')
    BY <2>1, <2>2, OneShortLine
  <2>4. Len(written') = 0
    BY <2>1
  <2>5. LineInv'
    BY <2>1, <2>3, <2>4 DEF LineInv
  <2> QED BY <2>1, <2>5
<1>3. CASE Crash
  <2>1. PICK n \in 0 .. Len(machine) : machine' = SubSeq(machine, 1, n)
    BY <1>3 DEF Crash
  <2>2. \A i \in 1 .. n : machine[i] \in Seq(Digits) /\ i \in DOMAIN machine
    BY DEF TypeOK
  <2>3. \A i \in DOMAIN machine' : machine'[i] = machine[i] /\ i \in DOMAIN machine
    BY <2>1, <2>2, SubSeqProperties
  <2>4. UNCHANGED image /\ stage' = "rejected"
    BY <1>3 DEF Crash
  <2> QED BY <2>3, <2>4 DEF LineInv
<1>4. CASE EncodeToken
  <2>1. UNCHANGED <<stage, machine, image>> /\ stage = "encode"
    BY <1>4 DEF EncodeToken
  <2> QED BY <1>4, <2>1, LineStep
<1>5. CASE EndLine
  <2>1. UNCHANGED image /\ stage = "encode" /\ tokens = <<>> /\ stage' \in {"read", "rejected"}
    BY <1>5 DEF EndLine
  <2>2. CASE count = 4
    <3>1. machine' = Append(machine, written) /\ written' = <<>>
      BY <1>5, <2>2 DEF EndLine
    <3>2. Len(written) \in 7 .. 8
      BY <2>1, <2>2 DEF LineInv
    <3>3. machine \in Seq(Seq(Digits)) /\ written \in Seq(Digits)
      BY DEF TypeOK
    <3>4. \A n \in DOMAIN machine' : machine'[n] = written \/ (n \in DOMAIN machine /\ machine'[n] = machine[n])
      BY <3>1, <3>3
    <3> QED BY <2>1, <3>1, <3>2, <3>4 DEF LineInv
  <2>3. CASE count = 0
    <3>1. UNCHANGED <<machine, written>>
      BY <1>5, <2>3 DEF EndLine
    <3>2. Len(written) <= 0 /\ written \in Seq(Digits)
      BY <2>1, <2>3 DEF LineInv, TypeOK
    <3>3. written = <<>>
      BY <3>2
    <3> QED BY <2>1, <3>1, <3>3 DEF LineInv
  <2>4. CASE count # 4 /\ count # 0
    <3>1. stage' = "rejected" /\ UNCHANGED <<machine, written>>
      BY <1>5, <2>4 DEF EndLine
    <3> QED BY <2>1, <3>1 DEF LineInv
  <2> QED BY <2>2, <2>3, <2>4
<1>6. CASE RemoveImage
  BY <1>6 DEF RemoveImage, assemblerVars, LineInv
<1>7. CASE KeepImage
  BY <1>7 DEF KeepImage, assemblerVars, LineInv
<1>8. CASE AppendLine
  <2>1. /\ lines_read + 1 \in 1 .. Len(machine) /\ machine \in Seq(Seq(Digits))
        /\ image \in Seq([1 .. 4 -> Seq(Digits)]) /\ stage = "append" /\ UNCHANGED <<stage, assemblerVars>>
        /\ image' = Append(image, cut(machine[lines_read + 1]))
    BY <1>8 DEF AppendLine, TypeOK
  <2>2. machine[lines_read + 1] \in Seq(Digits) /\ Len(machine[lines_read + 1]) >= 7
    <3>1. lines_read + 1 \in DOMAIN machine /\ machine[lines_read + 1] \in Seq(Digits)
      BY <2>1
    <3>2. \A n \in DOMAIN machine : Len(machine[n]) \in 7 .. 8
      OBVIOUS
    <3>3. Len(machine[lines_read + 1]) \in 7 .. 8
      BY <3>1, <3>2, Zenon
    <3>4. \A l \in 7 .. 8 : l >= 7
      OBVIOUS
    <3> QED BY <3>1, <3>3, <3>4, Zenon
  <2> DEFINE w == cut(machine[lines_read + 1])
  <2>3. w \in [1 .. 4 -> Seq(Digits)] /\ \A k \in 1 .. 4 : w[k] # <<>>
    BY <2>2, Cut
  <2>4. image' = Append(image, w)
    BY <2>1
  <2> HIDE DEF w
  <2>5. \A n \in DOMAIN image' : image'[n] = w \/ (n \in DOMAIN image /\ image'[n] = image[n])
    <3> DEFINE W == [1 .. 4 -> Seq(Digits)]
    <3>1. image \in Seq(W) /\ w \in W
      BY <2>1, <2>3
    <3> HIDE DEF W
    <3> QED BY <2>4, <3>1
  <2>6. \A n \in DOMAIN image', k \in 1 .. 4 : image'[n][k] # <<>>
    BY <2>3, <2>5
  <2> QED BY <2>1, <2>6 DEF LineInv, assemblerVars
<1>9. CASE Finish
  BY <1>9 DEF Finish, assemblerVars, LineInv
<1>10. CASE UNCHANGED vars
  BY <1>10 DEF vars, assemblerVars, LineInv
<1> QED BY <1>1, <1>2, <1>3, <1>4, <1>5, <1>6, <1>7, <1>8, <1>9, <1>10 DEF Next

\* What instruction memory holds, byte for byte, if all groups are there.
LEMMA Loaded ==
  ASSUME TypeOK, \A n \in DOMAIN image, k \in 1 .. 4 : image[n][k] # <<>>
  PROVE  /\ Len(loaded) = 4 * Len(image)
         /\ \A n \in 1 .. Len(image), k \in 1 .. 4 :
              loaded[4 * (n - 1) + k] = number(image[n][k])
<1> DEFINE ws == [n \in DOMAIN image |-> bytesOf(image[n])]
           S == {number(image[n][k]) : n \in DOMAIN image, k \in 1 .. 4}
<1>1. image \in Seq([1 .. 4 -> Seq(Digits)]) /\ DOMAIN image = 1 .. Len(image) /\ Len(image) \in Nat
  BY DEF TypeOK
<1>2. ASSUME NEW n \in 1 .. Len(image)
      PROVE  /\ ws[n] = [k \in 1 .. 4 |-> number(image[n][k])]
             /\ Len(ws[n]) = 4 /\ ws[n] \in Seq(S)
  <2>1. image[n] \in [1 .. 4 -> Seq(Digits)] /\ \A k \in 1 .. 4 : image[n][k] # <<>>
    <3>1. image[n] \in [1 .. 4 -> Seq(Digits)]
      BY <1>1, ElementOfSeq, Zenon
    <3> QED BY <1>1, <3>1
  <2>2. ws[n] = bytesOf(image[n])
    BY <1>1
  <2>3. ws[n] = [k \in 1 .. 4 |-> number(image[n][k])] /\ Len(ws[n]) = 4
    BY <2>1, <2>2, Whole
  <2>4. \A k \in 1 .. 4 : number(image[n][k]) \in S
    <3>1. n \in DOMAIN image
      BY <1>1, Zenon
    <3> QED BY <3>1 DEF S
  <2> HIDE DEF ws, S
  <2>5. ws[n] \in [1 .. 4 -> S]
    BY <2>3, <2>4
  <2>6. \A f \in [1 .. 4 -> S] : f \in Seq(S)
    <3>1. 4 \in Nat
      OBVIOUS
    <3> QED BY <3>1, SeqDef, Zenon
  <2> QED BY <2>3, <2>5, <2>6, Zenon
<1>3. loaded = FlattenSeq(ws)
  BY DEF loaded
<1>4. DOMAIN ws = 1 .. Len(image)
  BY <1>1
<1> HIDE DEF ws, S
<1>5. ws \in Seq(Seq(S)) /\ Len(ws) = Len(image)
  <2>1. ws = [n \in 1 .. Len(image) |-> ws[n]]
    BY <1>4 DEF ws
  <2> QED BY <1>1, <1>2, <1>4, <2>1
<1>6. /\ Len(FlattenSeq(ws)) = 4 * Len(ws)
      /\ \A n \in 1 .. Len(ws), k \in 1 .. 4 : FlattenSeq(ws)[4 * (n - 1) + k] = ws[n][k]
  <2>1. \A n \in 1 .. Len(ws) : Len(ws[n]) = 4
    BY <1>2, <1>5
  <2>2. ws \in Seq(Seq(S))
    BY <1>5, Zenon
  <2> QED BY <2>1, <2>2, Flattened, Zenon
<1>7. ASSUME NEW n \in 1 .. Len(image), NEW k \in 1 .. 4
      PROVE  loaded[4 * (n - 1) + k] = number(image[n][k])
  <2>1. ws[n][k] = number(image[n][k])
    <3>1. ws[n] = [j \in 1 .. 4 |-> number(image[n][j])]
      BY <1>2, Zenon
    <3> QED BY <3>1
  <2>2. n \in 1 .. Len(ws)
    BY <1>5
  <2>3. FlattenSeq(ws)[4 * (n - 1) + k] = ws[n][k]
    BY <1>6, <2>2, Zenon
  <2> QED BY <1>3, <2>1, <2>3, Zenon
<1> QED BY <1>3, <1>5, <1>6, <1>7

\* If no line of the source holds two immediates of one digit, the image has four groups of
\* digits for every word, whatever is rejected or killed in the middle and however often the
\* script is run, and so the words of instruction memory stay aligned
\* (CO2070Assembler.c:200-211, generate_memory_image.sh:13-30).
THEOREM WordsStayWhole ==
  ASSUME \A s \in Sources : \A n \in DOMAIN s : OneShort(s[n])
  PROVE  Spec => []NoHalfWord
<1>1. Init => TypeOK /\ WordInv
  BY TypeInit DEF Init, WordInv, LineInv
<1>2. TypeOK /\ WordInv /\ [Next]_vars => TypeOK' /\ WordInv'
  BY TypeStep, WordStep
<1>3. TypeOK /\ WordInv => NoHalfWord
  BY Loaded DEF WordInv, NoHalfWord
<1> QED BY <1>1, <1>2, <1>3, PTL DEF Spec

-----------------------------------------------------------------------------
(* A well-formed line in pline: four tokens that are written, if it is an instruction,   *)
(* then the end of the line or a comment.                                                *)

Ok(token) == ~ends(token) /\ ~rejected(token)

\* The place in pline, and so in the word, that the control unit takes a field from.
place(field) == CASE field = "rd" -> 2 [] field = "rt" -> 3 [] field = "rs" -> 4

\* Nothing that the findings are about: no mov; an immediate of one digit comes last.
Plain(line) ==
  /\ ~is(line, {"mov"})
  /\ \A i \in DOMAIN line :
       Short(line[i]) => i = 4 \/ (i = 3 /\ is(line, loads \union stores))

\* What ends the loop over the tokens, and what is written.
LEMMA Ends ==
  /\ ~Ok(LineEnd) /\ ~Ok(Comment) /\ ends(LineEnd) /\ rejected(Comment)
  /\ \A t : t.kind \in {"op", "reg", "imm", "X"} => Ok(t)
  /\ ~Short(Ignored) /\ Ok(Ignored) /\ Ignored.kind = "X"
BY DEF Ok, ends, rejected, holdsBlank, LineEnd, Comment, Short, Ignored

\* The words of an instruction, before pline.
LEMMA Words ==
  ASSUME NEW line \in Seq(Token), NEW n \in 1 .. Len(line), IsBody(line, n)
  PROVE  /\ line[1].kind = "op" /\ line[1].op \in DOMAIN opcode
         /\ n = 1 + Len(operandFields(line[1].op))
         /\ \A m \in 2 .. n : \/ line[m].kind = "reg"
                              \/ line[m].kind = "imm" /\ line[m].chars[1] # bad
         /\ \/ is(line, loads) /\ n = 3
            \/ is(line, stores) /\ n = 3
            \/ is(line, {"j"}) /\ n = 2
            \/ ~is(line, loads \union stores \union {"j"}) /\ n = 4
         /\ is(line, loads \ {"mov"}) => operandFields(line[1].op) = <<"rd", "rs">>
         /\ is(line, stores) => operandFields(line[1].op) = <<"rt", "rs">>
         /\ is(line, {"j"}) => operandFields(line[1].op) = <<"rd">>
         /\ ~is(line, loads \union stores \union {"j"}) => operandFields(line[1].op) = <<"rd", "rt", "rs">>
<1> DEFINE b == SubSeq(line, 1, n)
           op == line[1].op
<1>1. /\ Len(b) = n /\ \A i \in 1 .. n : b[i] = line[i] /\ line[i] \in Token
      /\ n \in Nat /\ n # 0 /\ line # <<>>
  <2>1. \A i \in 1 .. n : line[i] \in Token
    OBVIOUS
  <2>2. Len(b) = (IF 1 <= n THEN n - 1 + 1 ELSE 0) /\ \A i \in 1 .. n - 1 + 1 : b[i] = line[1 + i - 1]
    BY <2>1, SubSeqProperties
  <2> HIDE DEF b
  <2> QED BY <2>1, <2>2
<1>2. Instruction(b)
  BY <1>1 DEF IsBody
<1> HIDE DEF b
<1>3. 1 \in 1 .. n /\ b[1] = line[1] /\ line[1] \in Token
  BY <1>1
<1>4. /\ line[1].kind = "op" /\ n = 1 + Len(operandFields(op))
      /\ \A m \in 2 .. n : \/ line[m].kind = "reg"
                           \/ line[m].kind = "imm" /\ line[m].chars[1] # bad
  BY <1>1, <1>2, <1>3 DEF Instruction
<1>5. op \in DOMAIN opcode
  BY <1>3, <1>4 DEF Token, Ignored, LineEnd, Comment, Other
<1>6. /\ op \in loads \ {"mov"} => operandFields(op) = <<"rd", "rs">>
      /\ op = "mov" => operandFields(op) = <<"rd", "rt">>
      /\ op \in stores => operandFields(op) = <<"rt", "rs">>
      /\ op = "j" => operandFields(op) = <<"rd">>
      /\ op \notin loads \union stores \union {"j"} => operandFields(op) = <<"rd", "rt", "rs">>
  BY Zenon DEF operandFields, loads, stores
<1>7. \A ops : is(line, ops) <=> op \in ops
  BY <1>1, <1>4 DEF is
<1> HIDE DEF op
<1>8. /\ Len(<<"rd", "rs">>) = 2 /\ Len(<<"rd", "rt">>) = 2 /\ Len(<<"rt", "rs">>) = 2
      /\ Len(<<"rd">>) = 1 /\ Len(<<"rd", "rt", "rs">>) = 3
  OBVIOUS
<1>9. \/ op \in loads /\ n = 3
      \/ op \in stores /\ n = 3
      \/ op = "j" /\ n = 2
      \/ op \notin loads \union stores \union {"j"} /\ n = 4
  <2>1. \/ op \in loads /\ Len(operandFields(op)) = 2
        \/ op \in stores /\ Len(operandFields(op)) = 2
        \/ op = "j" /\ Len(operandFields(op)) = 1
        \/ op \notin loads \union stores \union {"j"} /\ Len(operandFields(op)) = 3
    BY <1>6, <1>8, Zenon
  <2>2. n = 1 + Len(operandFields(op)) /\ 1 + 2 = 3 /\ 1 + 1 = 2 /\ 1 + 3 = 4
    BY <1>4
  <2> QED BY <2>1, <2>2, Zenon
<1>10. /\ is(line, loads) <=> op \in loads
       /\ is(line, loads \ {"mov"}) <=> op \in loads \ {"mov"}
       /\ is(line, stores) <=> op \in stores
       /\ is(line, {"j"}) <=> op = "j"
       /\ is(line, loads \union stores \union {"j"}) <=> op \in loads \union stores \union {"j"}
  BY <1>7
<1> QED BY <1>4, <1>5, <1>6, <1>9, <1>10 DEF op

\* A well-formed line does not kill the assembler.
LEMMA NoCrash ==
  ASSUME NEW line \in Seq(Token), line # <<>>, WellFormed(line)
  PROVE  ~crashes(line)
<1>1. PICK n \in 0 .. Len(line) : IsBody(line, n)
  BY DEF WellFormed
<1>2. Len(line) \in Nat /\ Len(line) >= 1
  OBVIOUS
<1>3. CASE n = 0
  <2>1. line[1] = Comment \/ line[1] = LineEnd
    BY <1>1, <1>2, <1>3 DEF IsBody
  <2>2. \A ops : ~is(line, ops)
    BY <2>1 DEF is, Comment, LineEnd
  <2> QED BY <1>2, <2>2 DEF crashes, needed
<1>4. CASE n \in 1 .. Len(line)
  <2>1. n <= Len(line)
    BY <1>2, <1>4
  <2>2. \/ is(line, loads) /\ n = 3
        \/ is(line, stores) /\ n = 3
        \/ is(line, {"j"}) /\ n = 2
        \/ ~is(line, loads \union stores \union {"j"}) /\ n = 4
    BY <1>1, <1>4, Words
  <2>3. /\ is(line, loads \union stores) <=> is(line, loads) \/ is(line, stores)
        /\ is(line, loads \union stores \union {"j"})
             <=> is(line, loads \union stores) \/ is(line, {"j"})
        /\ is(line, {"j"}) => ~is(line, loads \union stores)
    BY DEF is, loads, stores
  <2> QED BY <1>2, <2>1, <2>2, <2>3 DEF crashes, needed
<1> QED BY <1>2, <1>3, <1>4

\* What the loop over the tokens meets in a well-formed line.
Places(line, n, p) ==
  LET k == IF n = 0 THEN 0 ELSE 4
  IN  /\ p \in Seq(Token) /\ Len(p) >= k
      /\ \A i \in 1 .. k : Ok(p[i])
      /\ Len(p) > k => \/ p[k + 1] = Comment
                       \/ p[k + 1] = LineEnd /\ Len(p) = k + 1
      /\ \A i \in 1 .. k : p[i].kind = "imm" => p[i].chars[1] # bad
      /\ Plain(line) => \A i \in 1 .. k : Short(p[i]) => i = 4

\* Its operands are where Places says.
LEMMA WellFormedLine ==
  ASSUME NEW line \in Seq(Token), ~crashes(line), NEW n \in 0 .. Len(line), IsBody(line, n)
  PROVE  Places(line, n, preprocess(line))
<1> DEFINE p == preprocess(line)
<1>1. p \in Seq(Token) /\ Shape(line, p) /\ line # <<>> /\ Len(line) >= 1
  BY Preprocessed
<1>2. Len(line) \in Nat /\ Len(p) \in Nat
  BY <1>1
<1> HIDE DEF p
\* What follows the instruction.
<1>3. n < Len(line) => line[n + 1] = Comment \/ (line[n + 1] = LineEnd /\ n + 1 = Len(line))
  BY DEF IsBody
<1>4. CASE n = 0
  <2>1. line[1] = Comment \/ (line[1] = LineEnd /\ Len(line) = 1)
    BY <1>1, <1>2, <1>3, <1>4
  <2>2. p = line
    BY <1>1, <2>1 DEF Shape, is, Comment, LineEnd
  <2> QED BY <1>1, <1>2, <1>4, <2>1, <2>2 DEF Places, p
<1>5. CASE n # 0
  <2>1. n \in 1 .. Len(line) /\ n <= Len(line) /\ n \in Nat
    BY <1>2, <1>5
  <2>2. /\ line[1].kind = "op"
        /\ \A m \in 2 .. n : \/ line[m].kind = "reg"
                             \/ line[m].kind = "imm" /\ line[m].chars[1] # bad
        /\ \/ is(line, loads) /\ n = 3
           \/ is(line, stores) /\ n = 3
           \/ is(line, {"j"}) /\ n = 2
           \/ ~is(line, loads \union stores \union {"j"}) /\ n = 4
    BY <2>1, Words
  <2>3. /\ ~(is(line, loads) /\ is(line, stores)) /\ ~(is(line, loads) /\ is(line, {"j"}))
        /\ ~(is(line, stores) /\ is(line, {"j"}))
        /\ is(line, loads \union stores \union {"j"})
             <=> is(line, loads) \/ is(line, stores) \/ is(line, {"j"})
        /\ is(line, loads \union stores) <=> is(line, loads) \/ is(line, stores)
    BY DEF is, loads, stores
  \* A word of the instruction is written, and short only at the end.
  <2>4. ASSUME NEW m \in 1 .. n
        PROVE  /\ Ok(line[m]) /\ (line[m].kind = "imm" => line[m].chars[1] # bad)
               /\ Plain(line) /\ Short(line[m]) => m = 4 \/ (m = 3 /\ is(line, loads \union stores))
    <3>1. m = 1 \/ m \in 2 .. n
      BY <2>1
    <3>2. line[m].kind \in {"op", "reg", "imm", "X"} /\ (line[m].kind = "imm" => line[m].chars[1] # bad)
      BY <2>2, <3>1
    <3>3. m \in DOMAIN line
      BY <2>1
    <3> QED BY <3>2, <3>3, Ends DEF Plain
  <2>5. CASE n = 4
    <3>1. p = line
      BY <1>1, <2>2, <2>3, <2>5 DEF Shape
    <3>2. \A i \in 1 .. 4 : Plain(line) /\ Short(p[i]) => i = 4
      <4>1. ~is(line, loads \union stores)
        BY <2>2, <2>3, <2>5
      <4> QED BY <2>4, <2>5, <3>1, <4>1
    <3>3. \A i \in 1 .. 4 : Ok(p[i]) /\ (p[i].kind = "imm" => p[i].chars[1] # bad)
      BY <2>4, <2>5, <3>1
    <3>4. Len(p) > 4 => p[5] = Comment \/ (p[5] = LineEnd /\ Len(p) = 5)
      BY <1>2, <1>3, <2>1, <2>5, <3>1
    <3>5. Len(p) >= 4
      BY <1>2, <2>1, <2>5, <3>1
    <3> QED BY <1>1, <1>5, <3>2, <3>3, <3>4, <3>5 DEF Places, p
  <2>6. CASE n = 3
    <3>1. /\ Len(p) = Len(line) + 1 /\ Len(line) >= 3
          /\ \A i \in 4 .. Len(p) : p[i] = line[i - 1]
          /\ p[1] = line[1]
          /\ \/ p[2] = line[2] /\ p[3] = Ignored
             \/ p[2] = Ignored /\ p[3] = line[2]
      BY <1>1, <2>2, <2>3, <2>6 DEF Shape
    <3>2. p[4] = line[3]
      <4>1. 4 \in 4 .. Len(p)
        BY <1>2, <3>1
      <4> QED BY <3>1, <4>1
    <3>3. /\ p[1] = line[1] /\ p[4] = line[3]
          /\ \A i \in {2, 3} : p[i] = Ignored \/ p[i] = line[2]
      BY <3>1, <3>2
    <3>4. ASSUME NEW i \in 1 .. 4
          PROVE  /\ Ok(p[i]) /\ (p[i].kind = "imm" => p[i].chars[1] # bad)
                 /\ Plain(line) /\ Short(p[i]) => i = 4
      <4>1. i = 4 \/ \E m \in {1, 2} : p[i] = line[m] \/ p[i] = Ignored
        BY <3>3
      <4>2. \A m \in {1, 2, 3} : /\ Ok(line[m]) /\ (line[m].kind = "imm" => line[m].chars[1] # bad)
                                 /\ Plain(line) /\ Short(line[m]) => m = 3
        BY <2>4, <2>6
      <4>3. Ok(Ignored) /\ ~Short(Ignored) /\ Ignored.kind = "X"
        BY Ends
      <4>4. CASE i = 4
        <5>1. Ok(line[3]) /\ (line[3].kind = "imm" => line[3].chars[1] # bad)
          BY <4>2, Zenon
        <5> QED BY <3>3, <4>4, <5>1
      <4>5. CASE i # 4
        <5>1. PICK m \in {1, 2} : p[i] = line[m] \/ p[i] = Ignored
          BY <4>1, <4>5
        <5>2. m \in {1, 2, 3} /\ m # 3
          BY <5>1
        <5>3. /\ Ok(line[m]) /\ (line[m].kind = "imm" => line[m].chars[1] # bad)
              /\ ~(Plain(line) /\ Short(line[m]))
          BY <4>2, <5>2, Zenon
        <5>4. Ignored.kind # "imm"
          BY <4>3
        <5> QED BY <4>3, <5>1, <5>3, <5>4
      <4> QED BY <4>4, <4>5
    <3>5. Len(p) > 4 => p[5] = Comment \/ (p[5] = LineEnd /\ Len(p) = 5)
      <4> SUFFICES ASSUME Len(p) > 4 PROVE p[5] = Comment \/ (p[5] = LineEnd /\ Len(p) = 5)
        OBVIOUS
      <4>1. 5 \in 4 .. Len(p) /\ 5 - 1 = 4 /\ 3 + 1 = 4 /\ 3 < Len(line)
        BY <1>2, <3>1
      <4>2. p[5] = line[4]
        BY <3>1, <4>1, Zenon
      <4>3. line[4] = Comment \/ (line[4] = LineEnd /\ Len(line) = 4)
        BY <1>3, <2>6, <4>1
      <4> QED BY <3>1, <4>2, <4>3
    <3>6. Len(p) >= 4
      BY <1>2, <3>1
    <3> QED BY <1>1, <1>5, <3>4, <3>5, <3>6 DEF Places, p
  <2>7. CASE n = 2
    <3>1. /\ Len(p) = Len(line) + 2 /\ Len(line) >= 2
          /\ \A i \in 5 .. Len(p) : p[i] = line[i - 2]
          /\ p[1] = line[1] /\ p[2] = line[2] /\ p[3] = Ignored /\ p[4] = Ignored
      BY <1>1, <2>2, <2>3, <2>7 DEF Shape
    <3>2. ASSUME NEW i \in 1 .. 4
          PROVE  /\ Ok(p[i]) /\ (p[i].kind = "imm" => p[i].chars[1] # bad)
                 /\ Plain(line) /\ Short(p[i]) => i = 4
      <4>1. \E m \in {1, 2} : p[i] = line[m] \/ p[i] = Ignored
        BY <3>1
      <4>2. \A m \in {1, 2} : /\ Ok(line[m]) /\ (line[m].kind = "imm" => line[m].chars[1] # bad)
                              /\ ~(Plain(line) /\ Short(line[m]))
        BY <2>4, <2>7
      <4>3. Ok(Ignored) /\ ~Short(Ignored) /\ Ignored.kind = "X"
        BY Ends
      <4> QED BY <4>1, <4>2, <4>3
    <3>3. Len(p) > 4 => p[5] = Comment \/ (p[5] = LineEnd /\ Len(p) = 5)
      <4> SUFFICES ASSUME Len(p) > 4 PROVE p[5] = Comment \/ (p[5] = LineEnd /\ Len(p) = 5)
        OBVIOUS
      <4>1. 5 \in 5 .. Len(p) /\ 5 - 2 = 3 /\ 2 + 1 = 3 /\ 2 < Len(line)
        BY <1>2, <3>1
      <4>2. p[5] = line[3]
        BY <3>1, <4>1, Zenon
      <4>3. line[3] = Comment \/ (line[3] = LineEnd /\ Len(line) = 3)
        BY <1>3, <2>7, <4>1
      <4> QED BY <3>1, <4>2, <4>3
    <3>4. Len(p) >= 4
      BY <1>2, <3>1
    <3> QED BY <1>1, <1>5, <3>2, <3>3, <3>4 DEF Places, p
  <2> QED BY <2>2, <2>5, <2>6, <2>7
<1> QED BY <1>4, <1>5

-----------------------------------------------------------------------------
(* The loop over the tokens. *)

line_now == source[line_count]
pline    == preprocess(line_now)

\* The loop has written the codes of the first count tokens, and goes on or has met the end
\* of the line; or it has met a token that it rejects.
Goes ==
  /\ count <= Len(pline) /\ \A i \in 1 .. count : Ok(pline[i])
  /\ \/ Len(tokens) = Len(pline) - count /\ \A i \in 1 .. Len(tokens) : tokens[i] = pline[count + i]
     \/ tokens = <<>> /\ count < Len(pline) /\ ends(pline[count + 1])

Refuses ==
  /\ tokens = <<>> /\ count = 99
  /\ \E i \in 1 .. Len(pline) : rejected(pline[i]) /\ \A j \in 1 .. i - 1 : Ok(pline[j])

LoopInv ==
  stage = "encode" =>
    /\ line_now \in Seq(Token) /\ ~crashes(line_now)
    /\ line_count \in DOMAIN source
    /\ Goes \/ Refuses

\* The loop over the tokens, one token further.
LEMMA LoopStep ==
  ASSUME TypeOK, LoopInv, EncodeToken
  PROVE  LoopInv'
<1> DEFINE t == Head(tokens)
           p == pline
<1>1. /\ stage = "encode" /\ tokens # <<>> /\ UNCHANGED <<stage, source, line_count>>
      /\ tokens \in Seq(Token) /\ count \in Nat
  BY DEF EncodeToken, TypeOK
<1>2. line_now' = line_now /\ pline' = p /\ p \in Seq(Token) /\ Len(p) \in Nat
  BY <1>1, Preprocessed DEF line_now, pline, LoopInv
<1> HIDE DEF p
<1>3. /\ count <= Len(p) /\ \A i \in 1 .. count : Ok(p[i])
      /\ Len(tokens) = Len(p) - count /\ \A i \in 1 .. Len(tokens) : tokens[i] = p[count + i]
  BY <1>1 DEF LoopInv, Goes, Refuses, p
<1>4. /\ count < Len(p) /\ t = p[count + 1] /\ count + 1 \in 1 .. Len(p) /\ Len(tokens) \in Nat
  <2>1. Len(tokens) \in Nat /\ Len(tokens) >= 1 /\ t = tokens[1]
    BY <1>1
  <2> QED BY <1>1, <1>2, <1>3, <2>1
<1>5. CASE Ok(t)
  <2>1. tokens' = Tail(tokens) /\ count' = count + 1
    BY <1>5 DEF EncodeToken, Ok, rejected
  <2>2. /\ Len(tokens') = Len(tokens) - 1
        /\ \A i \in 1 .. Len(tokens') : tokens'[i] = tokens[i + 1] /\ i + 1 \in 1 .. Len(tokens)
    BY <1>1, <2>1
  <2>3. \A i \in 1 .. Len(tokens') : tokens'[i] = p[count' + i]
    <3> SUFFICES ASSUME NEW i \in 1 .. Len(tokens') PROVE tokens'[i] = p[count' + i]
      OBVIOUS
    <3>1. tokens'[i] = p[count + (i + 1)]
      BY <1>3, <2>2
    <3>2. count + (i + 1) = count' + i
      BY <1>1, <1>4, <2>1, <2>2
    <3> QED BY <3>1, <3>2
  <2>4. count' <= Len(p) /\ Len(tokens') = Len(p) - count'
    BY <1>1, <1>2, <1>3, <1>4, <2>1, <2>2
  <2>5. \A i \in 1 .. count' : Ok(p[i])
    <3> SUFFICES ASSUME NEW i \in 1 .. count' PROVE Ok(p[i])
      OBVIOUS
    <3>1. i \in 1 .. count \/ i = count + 1
      BY <1>1, <2>1
    <3> QED BY <1>3, <1>4, <1>5, <3>1
  <2>6. Goes'
    BY <1>2, <2>3, <2>4, <2>5 DEF Goes
  <2> QED BY <1>1, <1>2, <2>6 DEF LoopInv
<1>6. CASE ends(t)
  <2>1. tokens' = <<>> /\ UNCHANGED count
    BY <1>6 DEF EncodeToken, rejected
  <2>2. Goes'
    BY <1>2, <1>3, <1>4, <1>6, <2>1 DEF Goes
  <2> QED BY <1>1, <1>2, <2>2 DEF LoopInv
<1>7. CASE rejected(t)
  <2>1. tokens' = <<>> /\ count' = 99
    BY <1>7 DEF EncodeToken, rejected
  <2>2. \A j \in 1 .. (count + 1) - 1 : Ok(p[j])
    BY <1>1, <1>3
  <2>3. Refuses'
    BY <1>2, <1>4, <1>7, <2>1, <2>2 DEF Refuses
  <2> QED BY <1>1, <1>2, <2>3 DEF LoopInv
<1> QED BY <1>5, <1>6, <1>7 DEF Ok

\* Every step keeps the loop invariant.
LEMMA LoopNext == TypeOK /\ LoopInv /\ [Next]_vars => LoopInv'
<1> SUFFICES ASSUME TypeOK, LoopInv, [Next]_vars PROVE LoopInv'
  OBVIOUS
<1>1. CASE ReadLine
  <2>1. /\ tokens' = preprocess(source[line_count + 1]) /\ count' = 0 /\ stage = "read"
        /\ ~crashes(source[line_count + 1]) /\ source' = source /\ line_count' = line_count + 1
        /\ line_count < Len(source)
    BY <1>1 DEF ReadLine
  <2>2. source[line_count + 1] \in Seq(Token) /\ line_count + 1 \in DOMAIN source
    BY <2>1, Reading
  <2>3. line_now' = source[line_count + 1] /\ pline' = tokens'
    BY <2>1 DEF line_now, pline
  <2>4. tokens' \in Seq(Token)
    BY <2>1, <2>2, Preprocessed
  <2>5. Goes'
    BY <2>1, <2>3, <2>4 DEF Goes
  <2> QED BY <2>1, <2>2, <2>3, <2>5 DEF LoopInv
<1>2. CASE EncodeToken
  BY <1>2, LoopStep
<1>3. CASE UNCHANGED vars
  BY <1>3 DEF vars, assemblerVars, LoopInv, Goes, Refuses, line_now, pline
<1>4. CASE Next /\ ~ReadLine /\ ~EncodeToken
  <2>1. stage' # "encode"
    BY <1>4 DEF Next, Start, Crash, EndLine, RemoveImage, KeepImage, AppendLine, Finish
  <2> QED BY <2>1 DEF LoopInv
<1> QED BY <1>1, <1>2, <1>3, <1>4

\* In a well-formed line, nothing behind the instruction is written.
LEMMA Within ==
  ASSUME NEW line, NEW n, NEW p, Places(line, n, p),
         NEW c \in Nat, c <= Len(p), \A i \in 1 .. c : Ok(p[i])
  PROVE  c <= IF n = 0 THEN 0 ELSE 4
<1> DEFINE k == IF n = 0 THEN 0 ELSE 4
<1>1. /\ Len(p) \in Nat /\ k \in Nat
      /\ Len(p) > k => p[k + 1] = Comment \/ (p[k + 1] = LineEnd /\ Len(p) = k + 1)
  BY DEF Places
<1> HIDE DEF k
<1> SUFFICES ASSUME c > k PROVE FALSE
  BY <1>1 DEF k
<1>2. Len(p) > k /\ k + 1 \in 1 .. c
  BY <1>1
<1> QED BY <1>1, <1>2, Ends

\* A well-formed line without a comment is encoded to its end: no token or four are written.
LEMMA Encodes ==
  ASSUME TypeOK, LoopInv, stage = "encode", tokens = <<>>,
         NEW n \in 0 .. Len(line_now), IsBody(line_now, n)
  PROVE  \/ Goes /\ count = IF n = 0 THEN 0 ELSE 4
         \/ count = 99 /\ \E i \in DOMAIN line_now : line_now[i] = Comment
<1> DEFINE p == pline
           k == IF n = 0 THEN 0 ELSE 4
<1>1. Places(line_now, n, p) /\ line_now \in Seq(Token) /\ count \in Nat
  BY WellFormedLine DEF LoopInv, pline, TypeOK
<1>2. /\ p \in Seq(Token) /\ Len(p) \in Nat /\ k \in Nat /\ Len(p) >= k
      /\ \A i \in 1 .. k : Ok(p[i])
      /\ Len(p) > k => p[k + 1] = Comment \/ (p[k + 1] = LineEnd /\ Len(p) = k + 1)
  BY <1>1 DEF Places
<1> HIDE DEF p, k
<1>3. CASE Goes
  <2>1. count <= Len(p) /\ \A i \in 1 .. count : Ok(p[i])
    BY <1>3 DEF Goes, p
  <2>2. count <= k
    BY <1>1, <2>1, Within DEF k
  <2>3. count = Len(p) \/ (count < Len(p) /\ ends(p[count + 1]))
    BY <1>1, <1>2, <1>3 DEF Goes, p
  <2>4. ~(count < k)
    <3> SUFFICES ASSUME count < k PROVE FALSE
      OBVIOUS
    <3>1. count + 1 \in 1 .. k /\ count # Len(p)
      BY <1>1, <1>2
    <3> QED BY <1>2, <2>3, <3>1 DEF Ok
  <2>5. count = k
    BY <1>1, <1>2, <2>2, <2>4
  <2> QED BY <1>3, <2>5 DEF k
<1>4. CASE Refuses
  <2>1. PICK i \in 1 .. Len(p) : rejected(p[i]) /\ \A j \in 1 .. i - 1 : Ok(p[j])
    BY <1>4 DEF Refuses, p
  <2>2. ~(i \in 1 .. k)
    BY <1>2, <2>1 DEF Ok
  <2>3. i >= k + 1 /\ Len(p) > k
    BY <1>2, <2>1, <2>2
  <2>4. p[k + 1] = Comment
    <3> SUFFICES ASSUME p[k + 1] = LineEnd, Len(p) = k + 1 PROVE FALSE
      BY <1>2, <2>3
    <3>1. i = k + 1
      BY <1>2, <2>1, <2>3
    <3> QED BY <2>1, <3>1, Ends DEF rejected
  <2>5. \E m \in DOMAIN line_now : line_now[m] = Comment
    <3>1. k + 1 \in 1 .. Len(p)
      BY <1>2, <2>3
    <3>2. Shape(line_now, p)
      BY Preprocessed DEF LoopInv, pline, p
    <3>3. Comment # Ignored
      BY DEF Comment, Ignored
    <3>4. p[k + 1] = Ignored \/ \E m \in DOMAIN line_now : p[k + 1] = line_now[m]
      BY <1>1, <1>2, <3>1, <3>2, Origin, Zenon
    <3> QED BY <2>4, <3>3, <3>4, Zenon
  <2> QED BY <1>4, <2>5 DEF Refuses
<1> QED BY <1>3, <1>4 DEF LoopInv

\* A step that gives up has met a line that is not well formed, or that has a comment.
LEMMA RejectNext ==
  ASSUME \A s \in Sources : \A n \in DOMAIN s : s[n] # <<>>
  PROVE  TypeOK /\ LoopInv /\ RejectsOnlyMalformed /\ [Next]_vars => RejectsOnlyMalformed'
<1> SUFFICES ASSUME TypeOK, LoopInv, RejectsOnlyMalformed, [Next]_vars
             PROVE  RejectsOnlyMalformed'
  OBVIOUS
<1>1. CASE Crash
  <2>1. /\ stage = "read" /\ line_count < Len(source) /\ UNCHANGED source
        /\ crashes(source[line_count + 1])
    BY <1>1 DEF Crash
  <2>2. /\ source \in Sources /\ source[line_count + 1] \in Seq(Token)
        /\ line_count + 1 \in DOMAIN source
    BY <2>1, Reading
  <2>3. ~WellFormed(source[line_count + 1])
    BY <2>1, <2>2, NoCrash
  <2> QED BY <2>1, <2>2, <2>3 DEF RejectsOnlyMalformed
<1>2. CASE EndLine
  <2>1. /\ stage = "encode" /\ tokens = <<>> /\ UNCHANGED <<source, count>>
        /\ stage' = IF count \in {0, 4} THEN "read" ELSE "rejected"
    BY <1>2 DEF EndLine
  <2>2. line_count \in DOMAIN source /\ source \in Sources
    BY <2>1 DEF LoopInv, TypeOK
  <2>3. ASSUME WellFormed(source[line_count]), ~Commented(source[line_count])
        PROVE  count \in {0, 4}
    <3>1. PICK n \in 0 .. Len(line_now) : IsBody(line_now, n)
      BY <2>3 DEF WellFormed, line_now
    <3>2. ~ \E i \in DOMAIN line_now : line_now[i] = Comment
      BY <2>3 DEF Commented, line_now
    <3>3. count = IF n = 0 THEN 0 ELSE 4
      BY <2>1, <3>1, <3>2, Encodes
    <3> QED BY <3>3
  <2> QED BY <2>1, <2>2, <2>3 DEF RejectsOnlyMalformed
<1>3. ASSUME NEW s \in Sources \union {Absent}, Start(s) PROVE RejectsOnlyMalformed'
  BY <1>3 DEF Start, RejectsOnlyMalformed
<1>4. CASE ReadLine \/ EncodeToken \/ RemoveImage \/ KeepImage \/ AppendLine \/ Finish
  <2>1. stage' # "rejected"
    BY <1>4 DEF ReadLine, EncodeToken, RemoveImage, KeepImage, AppendLine, Finish
  <2> QED BY <2>1 DEF RejectsOnlyMalformed
<1>5. CASE UNCHANGED vars
  BY <1>5 DEF vars, RejectsOnlyMalformed
<1> QED BY <1>1, <1>2, <1>3, <1>4, <1>5 DEF Next

\* If no source has an empty row of tokens (a last line of blanks without a newline), the
\* assembler gives up, or dies, only if a line of its source is not well formed or has a
\* comment: the count of four, the operands put in by preprocess and those that strtok must
\* find agree for every operation (CO2070Assembler.c:72-102, 187-212).
THEOREM OnlyMalformedRejected ==
  ASSUME \A s \in Sources : \A n \in DOMAIN s : s[n] # <<>>
  PROVE  Spec => []RejectsOnlyMalformed
<1>1. Init => TypeOK /\ LoopInv /\ RejectsOnlyMalformed
  BY TypeInit DEF Init, LoopInv, RejectsOnlyMalformed
<1>2. TypeOK /\ LoopInv /\ RejectsOnlyMalformed /\ [Next]_vars
        => TypeOK' /\ LoopInv' /\ RejectsOnlyMalformed'
  BY TypeStep, LoopNext, RejectNext
<1> QED BY <1>1, <1>2, PTL DEF Spec

-----------------------------------------------------------------------------
(* The image is the program. *)

\* What the code of a token says.
code(token) ==
  CASE token.kind = "op"  -> opcode[token.op]
    [] token.kind = "reg" -> token.reg
    [] token.kind = "X"   -> 0
    [] token.kind = "imm" -> value(token)

\* The digits d are the codes of the first c tokens of p.
Writes(p, c, d) ==
  /\ c <= 4
  /\ c <= 3 => Len(d) = 2 * c
  /\ c = 4 => Len(d) \in 7 .. 8
  /\ \A i \in 1 .. c : \/ 2 * i <= Len(d) /\ 16 * d[2 * i - 1] + d[2 * i] = code(p[i])
                       \/ i = 4 /\ Len(d) = 7 /\ d[7] = code(p[i])

\* A line of the machine file has the code of each of the four tokens in its group.
Coded(d, line) ==
  /\ d \in Seq(Digits) /\ Len(d) \in 7 .. 8
  /\ \A i \in 1 .. 4 : number(group(d, i)) = code(preprocess(line)[i])

WrittenInv ==
  /\ stage = "read" \/ (stage = "encode" /\ count = 0) => written = <<>>
  /\ stage = "encode" /\ count # 99 /\ WellFormed(line_now) => Writes(pline, count, written)

\* The lines that are encoded, and the instructions among the first l lines.
done    == IF stage = "encode" THEN line_count - 1 ELSE line_count
upTo(l) == {m \in instructions : m <= l}

MachineInv ==
  /\ source \in Sources /\ \A n \in DOMAIN source : WellFormed(source[n])
  /\ stage \in {"read", "encode"} \/ accepted
  => /\ Len(machine) = Cardinality(upTo(done))
     /\ \A i \in DOMAIN machine : Len(machine[i]) \in 7 .. 8
     /\ \A n \in upTo(done) : /\ before(n) + 1 \in DOMAIN machine
                             /\ Coded(machine[before(n) + 1], source[n])

\* After a run of the assembler that has ended with 0 the image is what is appended.
AcceptedInv ==
  accepted =>
    /\ stage \in {"append", "idle"} /\ source \in Sources /\ line_count = Len(source)
    /\ Len(image) = lines_read /\ lines_read <= Len(machine)
    /\ stage = "idle" => lines_read = Len(machine)
    /\ \A i \in DOMAIN image : image[i] = cut(machine[i])

ProgramInv == WrittenInv /\ MachineInv /\ AcceptedInv

\* The code of an operation in two digits; one digit of a short immediate.
LEMMA Value ==
  ASSUME NEW t \in Token, NEW old \in Codes, Ok(t), t.kind = "imm" => t.chars[1] # bad
  PROVE  LET e == encode(t, old)
         IN  /\ e \in Seq(Digits)
             /\ Short(t)  => Len(e) = 1 /\ e[1] = code(t)
             /\ ~Short(t) => Len(e) = 2 /\ 16 * e[1] + e[2] = code(t)
<1> DEFINE e == encode(t, old)
<1>1. \/ t.kind = "op" /\ t.op \in DOMAIN opcode
      \/ t.kind = "reg" /\ t.reg \in 0 .. 7
      \/ t.kind = "imm" /\ t.chars \in (0 .. bad) \X (0 .. bad)
      \/ t.kind = "X"
  BY DEF Token, Ok, ends, rejected, Ignored, LineEnd, Comment, Other
<1>2. e \in Seq(Digits)
  BY Encoded DEF Codes, Ok
<1>3. CASE t.kind = "op" /\ t.op \in DOMAIN opcode
  <2>1. opcode[t.op] \in 0 .. 17
    BY <1>3 DEF opcode
  <2>2. e = <<opcode[t.op] \div 16, opcode[t.op] % 16>> /\ code(t) = opcode[t.op] /\ ~Short(t)
    BY <1>3 DEF encode, code, Short
  <2>3. \A o \in 0 .. 17 : 16 * (o \div 16) + (o % 16) = o
    OBVIOUS
  <2> HIDE DEF e
  <2>4. /\ Len(e) = 2 /\ e[1] = opcode[t.op] \div 16 /\ e[2] = opcode[t.op] % 16
    BY <2>2
  <2> QED BY <1>2, <2>1, <2>2, <2>3, <2>4 DEF e
<1>4. CASE t.kind = "reg" /\ t.reg \in 0 .. 7
  <2>1. e = <<0, t.reg>> /\ code(t) = t.reg /\ ~Short(t)
    BY <1>4 DEF encode, code, Short
  <2> HIDE DEF e
  <2>2. Len(e) = 2 /\ e[1] = 0 /\ e[2] = t.reg
    BY <2>1
  <2> QED BY <1>2, <1>4, <2>1, <2>2 DEF e
<1>5. CASE t.kind = "imm" /\ t.chars \in (0 .. bad) \X (0 .. bad)
  <2>1. /\ e = IF t.chars[2] = bad THEN <<t.chars[1]>> ELSE <<t.chars[1], t.chars[2]>>
        /\ code(t) = IF t.chars[2] = bad THEN t.chars[1] ELSE 16 * t.chars[1] + t.chars[2]
        /\ Short(t) <=> t.chars[2] = bad
    BY <1>5 DEF encode, immediate, code, value, Short
  <2> HIDE DEF e
  <2>2. /\ Short(t) => Len(e) = 1 /\ e[1] = t.chars[1]
        /\ ~Short(t) => Len(e) = 2 /\ e[1] = t.chars[1] /\ e[2] = t.chars[2]
    BY <2>1
  <2> QED BY <1>2, <2>1, <2>2 DEF e
<1>6. CASE t.kind = "X"
  <2>1. e = <<0, 0>> /\ code(t) = 0 /\ ~Short(t)
    BY <1>6 DEF encode, code, Short
  <2> HIDE DEF e
  <2>2. Len(e) = 2 /\ e[1] = 0 /\ e[2] = 0
    BY <2>1
  <2> QED BY <1>2, <2>1, <2>2 DEF e
<1> QED BY <1>1, <1>3, <1>4, <1>5, <1>6

\* One more code behind the digits of the others.
LEMMA WritesOne ==
  ASSUME NEW p \in Seq(Token), NEW c \in 0 .. 3, NEW d \in Seq(Digits), Writes(p, c, d),
         c + 1 <= Len(p), NEW e \in Seq(Digits),
         Short(p[c + 1])  => c = 3 /\ Len(e) = 1 /\ e[1] = code(p[c + 1]),
         ~Short(p[c + 1]) => Len(e) = 2 /\ 16 * e[1] + e[2] = code(p[c + 1])
  PROVE  Writes(p, c + 1, d \o e)
<1> DEFINE w == d \o e
<1>1. Len(d) = 2 * c /\ \A i \in 1 .. c : 16 * d[2 * i - 1] + d[2 * i] = code(p[i])
  <2>1. /\ Len(d) = 2 * c
        /\ \A i \in 1 .. c : \/ 2 * i <= Len(d) /\ 16 * d[2 * i - 1] + d[2 * i] = code(p[i])
                             \/ i = 4 /\ Len(d) = 7 /\ d[7] = code(p[i])
    BY DEF Writes
  <2>2. \A i \in 1 .. c : i # 4
    OBVIOUS
  <2> QED BY <2>1, <2>2, Zenon
<1>2. /\ w \in Seq(Digits) /\ Len(w) = Len(d) + Len(e)
      /\ \A i \in 1 .. Len(d) + Len(e) : w[i] = IF i <= Len(d) THEN d[i] ELSE e[i - Len(d)]
  BY ConcatProperties
<1> HIDE DEF w
<1>3. Len(d) \in Nat /\ Len(e) \in 1 .. 2
  OBVIOUS
<1>4. ASSUME NEW i \in 1 .. c
      PROVE  2 * i <= Len(w) /\ 16 * w[2 * i - 1] + w[2 * i] = code(p[i])
  <2>1. /\ 2 * i - 1 \in 1 .. Len(d) + Len(e) /\ 2 * i - 1 <= Len(d)
        /\ 2 * i \in 1 .. Len(d) + Len(e) /\ 2 * i <= Len(d) /\ 2 * i <= Len(w)
    BY <1>1, <1>2, <1>3
  <2>2. w[2 * i - 1] = d[2 * i - 1] /\ w[2 * i] = d[2 * i]
    BY <1>2, <2>1, Zenon
  <2> QED BY <1>1, <2>1, <2>2, Zenon
<1>5. /\ 2 * c + 1 \in 1 .. Len(d) + Len(e) /\ ~(2 * c + 1 <= Len(d)) /\ 2 * c + 1 - Len(d) = 1
      /\ ~Short(p[c + 1]) => /\ 2 * c + 2 \in 1 .. Len(d) + Len(e)
                             /\ ~(2 * c + 2 <= Len(d)) /\ 2 * c + 2 - Len(d) = 2
  <2>1. Len(d) = 2 * c /\ (~Short(p[c + 1]) => Len(e) = 2)
    BY <1>1
  <2>2. \A a \in 1 .. 2 : 2 * c + 1 \in 1 .. 2 * c + a /\ ~(2 * c + 1 <= 2 * c) /\ 2 * c + 1 - 2 * c = 1
    OBVIOUS
  <2>3. 2 * c + 2 \in 1 .. 2 * c + 2 /\ ~(2 * c + 2 <= 2 * c) /\ 2 * c + 2 - 2 * c = 2
    OBVIOUS
  <2> QED BY <1>3, <2>1, <2>2, <2>3, Zenon
<1>6. w[2 * c + 1] = e[1] /\ (~Short(p[c + 1]) => w[2 * c + 2] = e[2])
  <2>1. \A i \in 1 .. Len(d) + Len(e) : ~(i <= Len(d)) => w[i] = e[i - Len(d)]
    BY <1>2, Zenon
  <2>2. \A i : i \in 1 .. Len(d) + Len(e) /\ ~(i <= Len(d)) => w[i] = e[i - Len(d)]
    BY <2>1
  <2>3. w[2 * c + 1] = e[1]
    <3> DEFINE j == 2 * c + 1
    <3>1. j \in 1 .. Len(d) + Len(e) /\ ~(j <= Len(d)) /\ j - Len(d) = 1
      BY <1>5
    <3> HIDE DEF j
    <3>2. w[j] = e[j - Len(d)]
      BY <2>2, <3>1, Zenon
    <3>3. w[j] = e[1]
      BY <3>1, <3>2, Zenon
    <3> QED BY <3>3, Zenon DEF j
  <2>4. ~Short(p[c + 1]) => w[2 * c + 2] = e[2]
    <3> SUFFICES ASSUME ~Short(p[c + 1]) PROVE w[2 * c + 2] = e[2]
      OBVIOUS
    <3> DEFINE j == 2 * c + 2
    <3>1. j \in 1 .. Len(d) + Len(e) /\ ~(j <= Len(d)) /\ j - Len(d) = 2
      BY <1>5
    <3> HIDE DEF j
    <3>2. w[j] = e[j - Len(d)]
      BY <2>2, <3>1, Zenon
    <3>3. w[j] = e[2]
      BY <3>1, <3>2, Zenon
    <3> QED BY <3>3, Zenon DEF j
  <2> QED BY <2>3, <2>4
<1>7. CASE Short(p[c + 1])
  <2>1. c = 3 /\ Len(e) = 1 /\ e[1] = code(p[4])
    <3>1. c = 3 /\ Len(e) = 1 /\ e[1] = code(p[c + 1]) /\ 3 + 1 = 4
      BY <1>7
    <3> QED BY <3>1, Zenon
  <2>2. Len(w) = 7 /\ w[7] = code(p[4])
    <3>1. 2 * 3 + 1 = 7
      OBVIOUS
    <3> QED BY <1>1, <1>2, <1>6, <2>1, <3>1, Zenon
  <2>3. \A i \in 1 .. 3 + 1 : i \in 1 .. 3 \/ i = 4
    OBVIOUS
  <2>4. \A i \in 1 .. 3 + 1 : \/ 2 * i <= Len(w) /\ 16 * w[2 * i - 1] + w[2 * i] = code(p[i])
                              \/ i = 4 /\ Len(w) = 7 /\ w[7] = code(p[i])
    BY <1>4, <2>1, <2>2, <2>3, Zenon
  <2>5. 3 + 1 <= 4 /\ ~(3 + 1 <= 3) /\ 7 \in 7 .. 8
    OBVIOUS
  <2> QED BY <2>1, <2>2, <2>4, <2>5, Zenon DEF Writes, w
<1>8. CASE ~Short(p[c + 1])
  <2>1. Len(w) = 2 * (c + 1)
    <3>1. Len(e) = 2 /\ Len(d) = 2 * c
      BY <1>1, <1>8
    <3>2. 2 * c + 2 = 2 * (c + 1)
      OBVIOUS
    <3> QED BY <1>2, <3>1, <3>2, Zenon
  <2>2. /\ 2 * (c + 1) <= Len(w) /\ 2 * (c + 1) - 1 = 2 * c + 1 /\ 2 * (c + 1) = 2 * c + 2
    BY <2>1
  <2>3. 16 * w[2 * (c + 1) - 1] + w[2 * (c + 1)] = code(p[c + 1])
    BY <1>6, <1>8, <2>2
  <2>4. \A i \in 1 .. c + 1 : i \in 1 .. c \/ i = c + 1
    OBVIOUS
  <2>5. \A i \in 1 .. c + 1 : 2 * i <= Len(w) /\ 16 * w[2 * i - 1] + w[2 * i] = code(p[i])
    BY <1>4, <2>2, <2>3, <2>4
  <2>6. c + 1 <= 4 /\ (c + 1 <= 3 => Len(w) = 2 * (c + 1)) /\ (c + 1 = 4 => Len(w) \in 7 .. 8)
    BY <2>1
  <2> QED BY <2>5, <2>6 DEF Writes, w
<1> QED BY <1>7, <1>8

\* The four codes are in the four groups.
LEMMA CodedLine ==
  ASSUME NEW line, NEW d \in Seq(Digits), Writes(preprocess(line), 4, d)
  PROVE  Coded(d, line)
<1> DEFINE p == preprocess(line)
<1> HIDE DEF p
<1>1. /\ Len(d) \in 7 .. 8
      /\ \A i \in 1 .. 4 : \/ 2 * i <= Len(d) /\ 16 * d[2 * i - 1] + d[2 * i] = code(p[i])
                           \/ i = 4 /\ Len(d) = 7 /\ d[7] = code(p[i])
  BY DEF Writes, p
<1>2. ASSUME NEW i \in 1 .. 4 PROVE number(group(d, i)) = code(p[i])
  <2> DEFINE g == group(d, i)
  <2>1. /\ Len(d) >= 2 * i - 1 => g # <<>> /\ g[1] = d[2 * i - 1]
        /\ Len(d) >= 2 * i => Len(g) = 2 /\ g[2] = d[2 * i]
        /\ Len(d) = 2 * i - 1 => Len(g) = 1
    BY Groups
  <2> HIDE DEF g
  <2>2. CASE 2 * i <= Len(d) /\ 16 * d[2 * i - 1] + d[2 * i] = code(p[i])
    <3>1. Len(g) = 2 /\ g[1] = d[2 * i - 1] /\ g[2] = d[2 * i]
      BY <1>1, <2>1, <2>2
    <3> QED BY <2>2, <3>1 DEF number, g
  <2>3. CASE i = 4 /\ Len(d) = 7 /\ d[7] = code(p[i])
    <3>1. Len(g) = 1 /\ g[1] = d[7]
      BY <2>1, <2>3
    <3> QED BY <2>3, <3>1 DEF number, g
  <2> QED BY <1>1, <2>2, <2>3
<1> QED BY <1>1, <1>2 DEF Coded, p

PlainSources == \A s \in Sources : \A n \in DOMAIN s : WellFormed(s[n]) => Plain(s[n])

\* One token further, the digits are still the codes of the tokens.
LEMMA WrittenStep ==
  ASSUME PlainSources, TypeOK, LoopInv, WrittenInv, EncodeToken
  PROVE  WrittenInv'
<1> DEFINE t == Head(tokens)
           p == pline
<1>1. /\ stage = "encode" /\ tokens # <<>> /\ UNCHANGED <<stage, source, line_count>>
      /\ tokens \in Seq(Token) /\ count \in Nat /\ written \in Seq(Digits) /\ out_token \in Codes
      /\ line_now' = line_now /\ pline' = pline
  BY DEF EncodeToken, TypeOK, line_now, pline
<1>0. stage' = "encode" /\ count' = 0 => written' = <<>>
  <2>1. UNCHANGED <<count, written>> \/ count' = 99 \/ count' = count + 1
    BY DEF EncodeToken
  <2> QED BY <1>1, <2>1 DEF WrittenInv
<1> SUFFICES ASSUME count' # 99, WellFormed(line_now) PROVE Writes(p, count', written')
  BY <1>0, <1>1 DEF WrittenInv
<1>2. PICK n \in 0 .. Len(line_now) : IsBody(line_now, n)
  BY DEF WellFormed
<1>3. Places(line_now, n, p)
  BY <1>1, <1>2, WellFormedLine DEF LoopInv, pline
<1>4. Plain(line_now)
  BY <1>1 DEF LoopInv, PlainSources, TypeOK, line_now
<1>5. p \in Seq(Token)
  BY <1>3 DEF Places
<1>6. /\ count <= Len(p) /\ \A i \in 1 .. count : Ok(p[i])
      /\ Len(tokens) = Len(p) - count /\ \A i \in 1 .. Len(tokens) : tokens[i] = p[count + i]
  BY <1>1 DEF LoopInv, Goes, Refuses
<1> HIDE DEF p
<1>7. t = p[count + 1] /\ count + 1 \in 1 .. Len(p) /\ count + 1 <= Len(p) /\ t \in Token
  <2>1. Len(tokens) \in Nat /\ Len(tokens) >= 1 /\ t = tokens[1] /\ t \in Token
    BY <1>1
  <2> QED BY <1>1, <1>5, <1>6, <2>1
<1>8. count # 99 => Writes(p, count, written)
  BY <1>1 DEF WrittenInv, p
<1>9. CASE Ok(t)
  <2>1. /\ tokens' = Tail(tokens) /\ count' = count + 1
        /\ out_token' = encode(t, out_token) /\ written' = written \o out_token'
    BY <1>9 DEF EncodeToken, Ok, rejected
  <2>2. \A i \in 1 .. count + 1 : Ok(p[i])
    <3>1. \A i \in 1 .. count + 1 : i \in 1 .. count \/ i = count + 1
      BY <1>1
    <3>2. Ok(p[count + 1])
      BY <1>7, <1>9
    <3>3. \A i \in 1 .. count : Ok(p[i])
      BY <1>6
    <3> QED BY <3>1, <3>2, <3>3, Zenon
  <2>3. count + 1 <= IF n = 0 THEN 0 ELSE 4
    BY <1>1, <1>3, <1>7, <2>2, Within
  <2>4. count + 1 \in 1 .. 4 /\ n # 0 /\ count \in 0 .. 3 /\ count # 99
    BY <1>1, <2>3
  <2>5. /\ t.kind = "imm" => t.chars[1] # bad
        /\ Short(t) => count + 1 = 4
    BY <1>3, <1>4, <1>7, <2>4 DEF Places
  <2> DEFINE e == encode(t, out_token)
  <2>6. /\ e \in Seq(Digits)
        /\ Short(t)  => Len(e) = 1 /\ e[1] = code(t)
        /\ ~Short(t) => Len(e) = 2 /\ 16 * e[1] + e[2] = code(t)
    BY <1>1, <1>7, <1>9, <2>5, Value
  <2>7. written' = written \o e
    BY <2>1
  <2> HIDE DEF e
  <2>8. Writes(p, count, written)
    BY <1>8, <2>4
  <2>9. Short(t) => count = 3
    BY <2>4, <2>5
  <2>10. Writes(p, count + 1, written \o e)
    <3>1. /\ Short(p[count + 1])  => count = 3 /\ Len(e) = 1 /\ e[1] = code(p[count + 1])
          /\ ~Short(p[count + 1]) => Len(e) = 2 /\ 16 * e[1] + e[2] = code(p[count + 1])
      BY <1>7, <2>6, <2>9, Zenon
    <3>2. /\ written \in Seq(Digits) /\ e \in Seq(Digits) /\ count \in 0 .. 3
          /\ count + 1 <= Len(p)
      BY <1>1, <1>7, <2>4, <2>6, Zenon
    <3> QED BY <1>5, <2>8, <3>1, <3>2, WritesOne, Zenon
  <2> QED BY <2>1, <2>7, <2>10
<1>10. CASE ends(t)
  <2>1. UNCHANGED <<count, written>>
    BY <1>10 DEF EncodeToken, rejected
  <2> QED BY <1>8, <2>1
<1>11. CASE rejected(t)
  <2>1. count' = 99
    BY <1>11 DEF EncodeToken, rejected
  <2> QED BY <2>1
<1> QED BY <1>9, <1>10, <1>11 DEF Ok

\* Every step keeps what is known of the digits.
LEMMA WrittenNext ==
  ASSUME PlainSources
  PROVE  TypeOK /\ LoopInv /\ WrittenInv /\ [Next]_vars => WrittenInv'
<1> SUFFICES ASSUME TypeOK, LoopInv, WrittenInv, [Next]_vars PROVE WrittenInv'
  OBVIOUS
<1>1. CASE ReadLine
  <2>1. stage = "read" /\ stage' = "encode" /\ count' = 0 /\ UNCHANGED written
    BY <1>1 DEF ReadLine
  <2>2. written' = <<>>
    BY <2>1 DEF WrittenInv
  <2>3. Writes(pline', count', written')
    BY <2>1, <2>2 DEF Writes
  <2> QED BY <2>1, <2>3 DEF WrittenInv
<1>2. CASE EncodeToken
  BY <1>2, WrittenStep
<1>3. CASE EndLine
  <2>1. /\ stage = "encode" /\ tokens = <<>>
        /\ stage' = IF count \in {0, 4} THEN "read" ELSE "rejected"
        /\ IF count = 4 THEN written' = <<>> ELSE UNCHANGED written
    BY <1>3 DEF EndLine
  <2>2. stage' = "read" => written' = <<>>
    BY <2>1 DEF WrittenInv
  <2>3. stage' # "encode"
    BY <2>1
  <2> QED BY <2>2, <2>3 DEF WrittenInv
<1>4. CASE UNCHANGED vars
  BY <1>4 DEF vars, assemblerVars, WrittenInv, line_now, pline
<1>5. ASSUME NEW s \in Sources \union {Absent}, Start(s) PROVE WrittenInv'
  BY <1>5 DEF Start, WrittenInv
<1>6. CASE Crash \/ RemoveImage \/ KeepImage \/ AppendLine \/ Finish
  <2>1. stage' \notin {"read", "encode"}
    BY <1>6 DEF Crash, RemoveImage, KeepImage, AppendLine, Finish
  <2> QED BY <2>1 DEF WrittenInv
<1> QED BY <1>1, <1>2, <1>3, <1>4, <1>5, <1>6 DEF Next

\* The script appends the machine file of an accepted run, line after line.
LEMMA AcceptedNext == TypeOK /\ AcceptedInv /\ [Next]_vars => AcceptedInv'
<1> SUFFICES ASSUME TypeOK, AcceptedInv, [Next]_vars PROVE AcceptedInv'
  OBVIOUS
<1>1. CASE ReadLine \/ Crash \/ EncodeToken \/ EndLine \/ KeepImage
  <2>1. stage \in {"read", "encode", "rejected"} /\ UNCHANGED accepted
    BY <1>1 DEF ReadLine, Crash, EncodeToken, EndLine, KeepImage
  <2> QED BY <2>1 DEF AcceptedInv
<1>2. CASE RemoveImage
  <2>1. /\ stage = "read" /\ line_count = Len(source) /\ stage' = "append" /\ lines_read' = 0
        /\ image' = <<>> /\ UNCHANGED <<source, line_count, machine>>
    BY <1>2 DEF RemoveImage, assemblerVars
  <2>2. source \in Sources /\ Len(machine) >= 0
    BY <2>1 DEF TypeOK
  <2>3. Len(image') = 0 /\ DOMAIN image' = {}
    BY <2>1
  <2> QED BY <2>1, <2>2, <2>3 DEF AcceptedInv
<1>3. CASE AppendLine
  <2> SUFFICES ASSUME accepted' PROVE AcceptedInv'
    BY DEF AcceptedInv
  <2>1. /\ accepted /\ stage = "append" /\ lines_read < Len(machine)
        /\ image' = Append(image, cut(machine[lines_read + 1])) /\ lines_read' = lines_read + 1
        /\ UNCHANGED <<stage, source, line_count, machine>>
    BY <1>3 DEF AppendLine, assemblerVars
  <2>2. image \in Seq([1 .. 4 -> Seq(Digits)]) /\ lines_read \in Nat /\ Len(machine) \in Nat
    BY DEF TypeOK
  <2>3. /\ source \in Sources /\ line_count = Len(source) /\ Len(image) = lines_read
        /\ \A i \in DOMAIN image : image[i] = cut(machine[i])
    BY <2>1 DEF AcceptedInv
  <2>4. /\ Len(image') = lines_read + 1 /\ image'[lines_read + 1] = cut(machine[lines_read + 1])
        /\ DOMAIN image' = 1 .. lines_read + 1
        /\ \A i \in 1 .. lines_read : i \in DOMAIN image /\ image'[i] = image[i]
    <3> DEFINE x == cut(machine[lines_read + 1])
    <3> HIDE DEF x
    <3>1. /\ Len(Append(image, x)) = Len(image) + 1 /\ Append(image, x)[Len(image) + 1] = x
          /\ DOMAIN Append(image, x) = 1 .. Len(image) + 1
          /\ \A i \in 1 .. Len(image) : i \in DOMAIN image /\ Append(image, x)[i] = image[i]
      BY <2>2
    <3>2. image' = Append(image, x) /\ Len(image) = lines_read
      BY <2>1, <2>3, Zenon DEF x
    <3> QED BY <3>1, <3>2, Zenon DEF x
  <2>5. \A i \in 1 .. lines_read + 1 : i \in 1 .. lines_read \/ i = lines_read + 1
    BY <2>2
  <2>6. \A i \in DOMAIN image' : image'[i] = cut(machine'[i])
    BY <2>1, <2>3, <2>4, <2>5
  <2>7. lines_read + 1 <= Len(machine)
    BY <2>1, <2>2
  <2> QED BY <2>1, <2>3, <2>4, <2>6, <2>7 DEF AcceptedInv
<1>4. CASE Finish
  <2>1. /\ stage = "append" /\ lines_read = Len(machine) /\ stage' = "idle"
        /\ UNCHANGED <<accepted, source, line_count, machine, lines_read, image>>
    BY <1>4 DEF Finish, assemblerVars
  <2> QED BY <2>1 DEF AcceptedInv
<1>5. ASSUME NEW s \in Sources \union {Absent}, Start(s) PROVE AcceptedInv'
  BY <1>5 DEF Start, AcceptedInv
<1>6. CASE UNCHANGED vars
  BY <1>6 DEF vars, assemblerVars, AcceptedInv
<1> QED BY <1>1, <1>2, <1>3, <1>4, <1>5, <1>6 DEF Next

\* The instruction of a well-formed line.
LEMMA Body ==
  ASSUME NEW line \in Seq(Token), WellFormed(line)
  PROVE  \E n \in 0 .. Len(line) :
           /\ IsBody(line, n) /\ body(line) = SubSeq(line, 1, n)
           /\ Len(body(line)) = n /\ \A i \in 1 .. n : body(line)[i] = line[i]
           /\ body(line) # <<>> <=> n # 0
<1> DEFINE n == CHOOSE n \in 0 .. Len(line) : IsBody(line, n)
           b == SubSeq(line, 1, n)
<1>1. n \in 0 .. Len(line) /\ IsBody(line, n) /\ body(line) = b
  BY DEF WellFormed, body
<1> HIDE DEF n
<1>2. \A i \in 1 .. n : line[i] \in Token
  BY <1>1
<1>3. /\ b \in Seq(Token) /\ Len(b) = (IF 1 <= n THEN n - 1 + 1 ELSE 0)
      /\ \A i \in 1 .. n - 1 + 1 : b[i] = line[1 + i - 1]
  BY <1>1, <1>2, SubSeqProperties
<1> HIDE DEF b
<1>4. Len(b) = n /\ \A i \in 1 .. n : b[i] = line[i]
  BY <1>1, <1>3
<1>5. b # <<>> <=> n # 0
  BY <1>3, <1>4
<1> QED BY <1>1, <1>4, <1>5, Zenon DEF b

\* Counting the instructions, line after line.
LEMMA Counting ==
  ASSUME source \in Seq(Seq(Token)), NEW l \in Nat
  PROVE  /\ IsFiniteSet(upTo(l)) /\ Cardinality(upTo(l)) \in Nat
         /\ before(l + 1) = Cardinality(upTo(l))
         /\ l + 1 \in instructions =>
              /\ upTo(l + 1) = upTo(l) \union {l + 1}
              /\ Cardinality(upTo(l + 1)) = Cardinality(upTo(l)) + 1
         /\ l + 1 \notin instructions => upTo(l + 1) = upTo(l)
<1>1. instructions \subseteq Nat /\ \A m \in instructions : m >= 1
  BY DEF instructions
<1>2. ASSUME NEW m \in instructions
      PROVE  /\ m <= l => m \in 1 .. l
             /\ m < l + 1 <=> m <= l
             /\ m <= l + 1 <=> m <= l \/ m = l + 1
  <2>1. m \in Nat /\ m >= 1
    BY <1>1, Zenon
  <2> QED BY <2>1
<1>3. upTo(l) \subseteq 1 .. l /\ l + 1 \notin upTo(l)
  <2>1. ~(l + 1 <= l)
    OBVIOUS
  <2> QED BY <1>2, <2>1, Zenon DEF upTo
<1>4. IsFiniteSet(upTo(l)) /\ Cardinality(upTo(l)) \in Nat
  <2>1. IsFiniteSet(1 .. l)
    BY FS_Interval
  <2>2. IsFiniteSet(upTo(l))
    BY <1>3, <2>1, FS_Subset, Zenon
  <2> QED BY <2>2, FS_CardinalityType, Zenon
<1>5. before(l + 1) = Cardinality(upTo(l))
  <2>1. {m \in instructions : m < l + 1} = {m \in instructions : m <= l}
    BY <1>2, Zenon
  <2> QED BY <2>1, Zenon DEF before, upTo
<1>6. /\ l + 1 \in instructions => upTo(l + 1) = upTo(l) \union {l + 1}
      /\ l + 1 \notin instructions => upTo(l + 1) = upTo(l)
  <2>1. l + 1 <= l + 1
    OBVIOUS
  <2> QED BY <1>2, <2>1, Zenon DEF upTo
<1>7. Cardinality(upTo(l) \union {l + 1}) = Cardinality(upTo(l)) + 1
  BY <1>3, <1>4, FS_AddElement, Zenon
<1> QED BY <1>4, <1>5, <1>6, <1>7, Zenon

\* The line that ends has its word in the machine file, if it holds an instruction.
LEMMA MachineStep ==
  ASSUME PlainSources, TypeOK, LoopInv, WrittenInv, MachineInv, AcceptedInv, EndLine
  PROVE  MachineInv'
<1> SUFFICES ASSUME source' \in Sources, \A n \in DOMAIN source' : WellFormed(source'[n]),
                    stage' \in {"read", "encode"} \/ accepted'
             PROVE  /\ Len(machine') = Cardinality(upTo(done)')
                    /\ \A i \in DOMAIN machine' : Len(machine'[i]) \in 7 .. 8
                    /\ \A m \in upTo(done)' : /\ before(m)' + 1 \in DOMAIN machine'
                                              /\ Coded(machine'[before(m)' + 1], source'[m])
  BY DEF MachineInv
<1> DEFINE l == line_count - 1
<1>1. /\ stage = "encode" /\ tokens = <<>> /\ UNCHANGED <<source, line_count, accepted>>
      /\ stage' = IF count \in {0, 4} THEN "read" ELSE "rejected"
      /\ IF count = 4 THEN machine' = Append(machine, written) ELSE UNCHANGED machine
  BY DEF EndLine
<1>2. ~accepted /\ count \in {0, 4} /\ stage' = "read"
  BY <1>1 DEF AcceptedInv
<1>3. /\ source \in Seq(Seq(Token)) /\ line_count \in DOMAIN source /\ machine \in Seq(Seq(Digits))
      /\ written \in Seq(Digits) /\ line_now = source[line_count] /\ line_now \in Seq(Token)
  BY <1>1, BuildAssumption DEF LoopInv, TypeOK, line_now
<1>4. l \in Nat /\ l + 1 = line_count /\ done = l /\ done' = l + 1
  BY <1>1, <1>2, <1>3 DEF done
<1>5. upTo(done)' = upTo(l + 1) /\ \A m : before(m)' = before(m)
  <2>1. instructions' = instructions
    BY <1>1 DEF instructions
  <2> QED BY <1>4, <2>1 DEF upTo, before
<1>6. /\ Len(machine) = Cardinality(upTo(l)) /\ \A i \in DOMAIN machine : Len(machine[i]) \in 7 .. 8
      /\ \A m \in upTo(l) : /\ before(m) + 1 \in DOMAIN machine
                            /\ Coded(machine[before(m) + 1], source[m])
  BY <1>1, <1>4 DEF MachineInv
<1> HIDE DEF l
<1>7. PICK n \in 0 .. Len(line_now) :
        IsBody(line_now, n) /\ (body(line_now) # <<>> <=> n # 0)
  BY <1>1, <1>3, Body
<1>8. count = IF n = 0 THEN 0 ELSE 4
  BY <1>1, <1>2, <1>7, Encodes
<1>9. l + 1 \in instructions <=> n # 0
  BY <1>3, <1>4, <1>7 DEF instructions
<1>10. CASE n = 0
  <2>1. UNCHANGED machine /\ upTo(l + 1) = upTo(l)
    BY <1>1, <1>3, <1>4, <1>8, <1>9, <1>10, Counting
  <2> QED BY <1>1, <1>5, <1>6, <2>1
<1>11. CASE n # 0
  <2>1. /\ upTo(l + 1) = upTo(l) \union {l + 1} /\ before(l + 1) = Cardinality(upTo(l))
        /\ Cardinality(upTo(l + 1)) = Cardinality(upTo(l)) + 1
    BY <1>3, <1>4, <1>9, <1>11, Counting
  <2>2. machine' = Append(machine, written) /\ count = 4
    BY <1>1, <1>8, <1>11
  <2>3. Len(machine) \in Nat /\ DOMAIN machine = 1 .. Len(machine)
    BY <1>3
  <2>4. /\ Len(machine') = Len(machine) + 1 /\ DOMAIN machine' = 1 .. Len(machine) + 1
        /\ machine'[Len(machine) + 1] = written
        /\ \A i \in 1 .. Len(machine) : machine'[i] = machine[i] /\ i \in 1 .. Len(machine) + 1
    BY <1>3, <2>2
  <2>5. Coded(written, line_now)
    <3>1. WellFormed(line_now)
      BY <1>7 DEF WellFormed
    <3>2. Writes(preprocess(line_now), 4, written)
      BY <1>1, <2>2, <3>1 DEF WrittenInv, pline
    <3> QED BY <1>3, <3>2, CodedLine
  <2>6. Len(written) \in 7 .. 8
    BY <2>5 DEF Coded
  <2>7. \A i \in DOMAIN machine' : Len(machine'[i]) \in 7 .. 8
    <3>1. \A i \in 1 .. Len(machine) + 1 : i \in 1 .. Len(machine) \/ i = Len(machine) + 1
      BY <2>3
    <3> QED BY <1>6, <2>3, <2>4, <2>6, <3>1, Zenon
  <2>8. before(l + 1) + 1 = Len(machine) + 1 /\ Len(machine) + 1 \in 1 .. Len(machine) + 1
    BY <1>6, <2>1, <2>3
  <2>9. ASSUME NEW m \in upTo(l + 1)
        PROVE  /\ before(m) + 1 \in DOMAIN machine'
               /\ Coded(machine'[before(m) + 1], source[m])
    <3>1. CASE m \in upTo(l)
      BY <1>6, <2>3, <2>4, <3>1, Zenon
    <3>2. CASE m = l + 1
      BY <1>3, <1>4, <2>4, <2>5, <2>8, <3>2, Zenon
    <3> QED BY <2>1, <3>1, <3>2
  <2>10. Len(machine') = Cardinality(upTo(l + 1))
    BY <1>6, <2>1, <2>4, Zenon
  <2> QED BY <1>1, <1>5, <2>7, <2>9, <2>10, Zenon
<1> QED BY <1>10, <1>11

\* Every step keeps what is known of the machine file.
LEMMA MachineNext ==
  ASSUME PlainSources
  PROVE  TypeOK /\ LoopInv /\ ProgramInv /\ [Next]_vars => MachineInv'
<1> SUFFICES ASSUME TypeOK, LoopInv, WrittenInv, MachineInv, AcceptedInv, [Next]_vars
             PROVE  MachineInv'
  BY DEF ProgramInv
\* Steps that change nothing that the lines done so far are about.
<1>1. ASSUME UNCHANGED <<source, machine>>, done' = done,
             stage' \in {"read", "encode"} \/ accepted' => stage \in {"read", "encode"} \/ accepted
      PROVE  MachineInv'
  <2>1. upTo(done)' = upTo(done) /\ \A m : before(m)' = before(m)
    <3>1. instructions' = instructions
      BY <1>1 DEF instructions
    <3> QED BY <1>1, <3>1 DEF upTo, before
  <2> QED BY <1>1, <2>1, Zenon DEF MachineInv
<1>2. CASE ReadLine
  <2>1. /\ UNCHANGED <<source, machine>> /\ stage = "read" /\ stage' = "encode"
        /\ line_count' = line_count + 1 /\ line_count \in Nat
    BY <1>2 DEF ReadLine, TypeOK
  <2>2. done' = done
    BY <2>1 DEF done
  <2> QED BY <1>1, <2>1, <2>2
<1>3. CASE EncodeToken
  <2>1. UNCHANGED <<source, machine, stage, line_count>> /\ stage = "encode"
    BY <1>3 DEF EncodeToken
  <2>2. done' = done
    BY <2>1 DEF done
  <2> QED BY <1>1, <2>1, <2>2
<1>4. CASE EndLine
  BY <1>4, MachineStep
<1>5. CASE RemoveImage \/ AppendLine \/ Finish \/ UNCHANGED vars
  <2>1. /\ UNCHANGED <<source, machine, line_count>>
        /\ stage' \in {"read", "encode"} \/ accepted' => stage \in {"read", "encode"} \/ accepted
    BY <1>5 DEF RemoveImage, AppendLine, Finish, vars, assemblerVars
  <2>2. stage' = "encode" <=> stage = "encode"
    BY <1>5 DEF RemoveImage, AppendLine, Finish, vars
  <2>3. done' = done
    BY <2>1, <2>2 DEF done
  <2> QED BY <1>1, <2>1, <2>3
<1>6. CASE Crash \/ KeepImage
  <2>1. stage \in {"read", "rejected"} /\ stage' \in {"rejected", "append"} /\ UNCHANGED accepted
    BY <1>6 DEF Crash, KeepImage
  <2>2. ~accepted'
    BY <2>1 DEF AcceptedInv
  <2> QED BY <2>1, <2>2 DEF MachineInv
<1>7. ASSUME NEW s \in Sources \union {Absent}, Start(s) PROVE MachineInv'
  <2>1. CASE s = Absent
    <3>1. source' = Absent
      BY <1>7, <2>1 DEF Start
    <3> QED BY <3>1, BuildAssumption DEF MachineInv
  <2>2. CASE s # Absent
    <3>1. /\ source' = s /\ stage' = "read" /\ machine' = <<>> /\ line_count' = 0 /\ s \in Sources
      BY <1>7, <2>2 DEF Start
    <3>2. done' = 0 /\ Len(machine') = 0 /\ DOMAIN machine' = {}
      BY <3>1 DEF done
    <3>3. source' \in Seq(Seq(Token))
      BY <3>1, BuildAssumption
    <3>4. instructions' \subseteq DOMAIN source' /\ DOMAIN source' = 1 .. Len(source')
      BY <3>3 DEF instructions
    <3>5. upTo(done)' = {m \in instructions' : m <= 0}
      BY <3>2 DEF upTo
    <3>6. upTo(done)' = {}
      BY <3>4, <3>5
    <3>7. Cardinality(upTo(done)') = 0
      BY <3>6, FS_EmptySet
    <3> QED BY <3>2, <3>6, <3>7 DEF MachineInv
  <2> QED BY <2>1, <2>2
<1> QED BY <1>2, <1>3, <1>4, <1>5, <1>6, <1>7 DEF Next

\* preprocess puts each operand where the control unit looks for it.
LEMMA Fields ==
  ASSUME NEW line \in Seq(Token), NEW n \in 1 .. Len(line), IsBody(line, n), Plain(line)
  PROVE  LET p == preprocess(line)
         IN  /\ code(p[1]) = opcode[line[1].op]
             /\ \A m \in 2 .. n, k \in 1 .. 3 :
                  fieldOfByte[k] = operandFields(line[1].op)[m - 1] => code(p[5 - k]) = value(line[m])
<1> DEFINE p == preprocess(line)
           F == operandFields(line[1].op)
<1>1. /\ line[1].kind = "op"
      /\ \A m \in 2 .. n : code(line[m]) = value(line[m])
      /\ \/ is(line, loads \ {"mov"}) /\ n = 3 /\ F = <<"rd", "rs">>
         \/ is(line, stores) /\ n = 3 /\ F = <<"rt", "rs">>
         \/ is(line, {"j"}) /\ n = 2 /\ F = <<"rd">>
         \/ ~is(line, loads \union stores \union {"j"}) /\ n = 4 /\ F = <<"rd", "rt", "rs">>
  <2>1. \A t : t.kind = "reg" \/ t.kind = "imm" => code(t) = value(t)
    BY DEF code, value
  <2>2. is(line, loads) => is(line, loads \ {"mov"})
    BY DEF Plain, is
  <2> DEFINE R(m) == line[m].kind = "reg" \/ (line[m].kind = "imm" /\ line[m].chars[1] # bad)
  <2>3. /\ line[1].kind = "op" /\ \A m \in 2 .. n : R(m)
        /\ \/ is(line, loads) /\ n = 3
           \/ is(line, stores) /\ n = 3
           \/ is(line, {"j"}) /\ n = 2
           \/ ~is(line, loads \union stores \union {"j"}) /\ n = 4
        /\ is(line, loads \ {"mov"}) => F = <<"rd", "rs">>
        /\ is(line, stores) => F = <<"rt", "rs">>
        /\ is(line, {"j"}) => F = <<"rd">>
        /\ ~is(line, loads \union stores \union {"j"}) => F = <<"rd", "rt", "rs">>
    BY Words, Zenon
  <2>4. \A m \in 2 .. n : line[m].kind = "reg" \/ line[m].kind = "imm"
    BY <2>3
  <2> HIDE DEF R, F
  <2>5. \A m \in 2 .. n : code(line[m]) = value(line[m])
    <3>1. ASSUME NEW m \in 2 .. n PROVE code(line[m]) = value(line[m])
      <4>1. line[m].kind = "reg" \/ line[m].kind = "imm"
        BY <2>4
      <4> QED BY <2>1, <4>1, Zenon
    <3> QED BY <3>1, Zenon
  <2>6. CASE is(line, loads) /\ n = 3
    BY <2>2, <2>3, <2>5, <2>6, Zenon
  <2>7. CASE ~(is(line, loads) /\ n = 3)
    BY <2>3, <2>5, <2>7, Zenon
  <2> QED BY <2>6, <2>7, Zenon
<1>2. Shape(line, p)
  <2>1. WellFormed(line) /\ line # <<>>
    <3>1. n \in 0 .. Len(line)
      OBVIOUS
    <3> QED BY <3>1 DEF WellFormed
  <2> QED BY <2>1, NoCrash, Preprocessed
<1>3. /\ is(line, loads \ {"mov"}) => is(line, loads) /\ ~is(line, stores) /\ ~is(line, {"j"})
      /\ is(line, stores) => ~is(line, loads) /\ ~is(line, {"j"})
      /\ is(line, {"j"}) => ~is(line, loads) /\ ~is(line, stores)
      /\ is(line, loads) \/ is(line, stores) \/ is(line, {"j"})
           <=> is(line, loads \union stores \union {"j"})
  BY DEF is, loads, stores
<1>4. Len(line) \in Nat /\ n <= Len(line)
  OBVIOUS
<1> HIDE DEF p, F
<1>5. p[1] = line[1]
  BY <1>2, <1>3 DEF Shape
<1>6. code(p[1]) = opcode[line[1].op]
  BY <1>1, <1>5 DEF code
<1>7. fieldOfByte[1] = "rs" /\ fieldOfByte[2] = "rt" /\ fieldOfByte[3] = "rd"
  BY DEF fieldOfByte
<1>8. ASSUME NEW m \in 2 .. n, NEW k \in 1 .. 3, fieldOfByte[k] = F[m - 1]
      PROVE  p[5 - k] = line[m]
  <2>1. CASE is(line, loads \ {"mov"}) /\ n = 3 /\ F = <<"rd", "rs">>
    <3>1. p[2] = line[2] /\ p[4] = line[3]
      BY <1>2, <1>3, <1>4, <2>1 DEF Shape
    <3> QED BY <1>7, <1>8, <2>1, <3>1
  <2>2. CASE is(line, stores) /\ n = 3 /\ F = <<"rt", "rs">>
    <3>1. p[3] = line[2] /\ p[4] = line[3]
      BY <1>2, <1>3, <1>4, <2>2 DEF Shape
    <3> QED BY <1>7, <1>8, <2>2, <3>1
  <2>3. CASE is(line, {"j"}) /\ n = 2 /\ F = <<"rd">>
    <3>1. p[2] = line[2]
      BY <1>2, <1>3, <2>3 DEF Shape
    <3> QED BY <1>7, <1>8, <2>3, <3>1
  <2>4. CASE ~is(line, loads \union stores \union {"j"}) /\ n = 4 /\ F = <<"rd", "rt", "rs">>
    <3>1. p = line
      BY <1>2, <1>3, <2>4 DEF Shape
    <3> QED BY <1>7, <1>8, <2>4, <3>1
  <2> QED BY <1>1, <2>1, <2>2, <2>3, <2>4
<1> QED BY <1>1, <1>6, <1>8, Zenon DEF p, F

\* The lines of the machine file, cut and loaded, are the instructions.
LEMMA ImageHolds ==
  ASSUME PlainSources, TypeOK, ProgramInv
  PROVE  ImageIsProgram
<1> SUFFICES ASSUME stage = "idle", accepted, \A n \in DOMAIN source : WellFormed(source[n])
             PROVE  /\ Len(loaded) = 4 * Cardinality(instructions)
                    /\ \A n \in instructions : Holds(4 * before(n), body(source[n]))
  BY DEF ImageIsProgram
<1>1. /\ source \in Sources /\ line_count = Len(source) /\ Len(image) = Len(machine)
      /\ \A i \in DOMAIN image : image[i] = cut(machine[i])
  BY DEF ProgramInv, AcceptedInv
<1>2. /\ source \in Seq(Seq(Token)) /\ machine \in Seq(Seq(Digits))
      /\ image \in Seq([1 .. 4 -> Seq(Digits)])
  BY <1>1, BuildAssumption DEF TypeOK
<1>3. DOMAIN image = 1 .. Len(image) /\ DOMAIN machine = 1 .. Len(image) /\ Len(image) \in Nat
  BY <1>1, <1>2
<1>4. upTo(done) = instructions
  <2>1. done = Len(source)
    BY <1>1 DEF done
  <2>2. \A m \in instructions : m <= Len(source)
    BY <1>2 DEF instructions
  <2> QED BY <2>1, <2>2, Zenon DEF upTo
<1>5. /\ Len(machine) = Cardinality(instructions)
      /\ \A i \in DOMAIN machine : Len(machine[i]) \in 7 .. 8
      /\ \A n \in instructions : /\ before(n) + 1 \in DOMAIN machine
                                 /\ Coded(machine[before(n) + 1], source[n])
  BY <1>1, <1>4 DEF ProgramInv, MachineInv
<1>6. /\ Len(loaded) = 4 * Len(image)
      /\ \A i \in 1 .. Len(image), k \in 1 .. 4 : loaded[4 * (i - 1) + k] = number(image[i][k])
  <2>1. ASSUME NEW i \in DOMAIN image, NEW k \in 1 .. 4 PROVE image[i][k] # <<>>
    <3>1. image[i] = cut(machine[i]) /\ i \in DOMAIN machine
      BY <1>1, <1>3, Zenon
    <3>2. machine[i] \in Seq(Digits)
      BY <1>2, <3>1
    <3>3. Len(machine[i]) \in 7 .. 8
      BY <1>5, <3>1, Zenon
    <3>4. Len(machine[i]) >= 7
      <4>1. \A l \in 7 .. 8 : l >= 7
        OBVIOUS
      <4> QED BY <3>3, <4>1, Zenon
    <3>5. cut(machine[i])[k] # <<>>
      BY <3>2, <3>4, Cut, Zenon
    <3> QED BY <3>1, <3>5, Zenon
  <2> QED BY <2>1, Loaded
<1>7. ASSUME NEW n \in instructions PROVE Holds(4 * before(n), body(source[n]))
  <2> DEFINE line == source[n]
             i == before(n) + 1
             p == preprocess(line)
             b == body(line)
  <2>1. n \in DOMAIN source /\ n \in 1 .. Len(source) /\ line \in Seq(Token) /\ WellFormed(line) /\ b # <<>>
    BY <1>2 DEF instructions
  <2>2. before(n) \in Nat
    <3>1. n - 1 \in Nat /\ n - 1 + 1 = n
      BY <1>2, <2>1
    <3> QED BY <1>2, <3>1, Counting
  <2>3. i \in 1 .. Len(image) /\ Coded(machine[i], line)
    BY <1>3, <1>5
  <2> HIDE DEF line, i, p, b
  <2>4. \A k \in 1 .. 4 : loaded[4 * before(n) + k] = code(p[5 - k])
    <3>1. ASSUME NEW k \in 1 .. 4 PROVE loaded[4 * before(n) + k] = code(p[5 - k])
      <4>1. 4 * (i - 1) + k = 4 * before(n) + k
        BY <2>2 DEF i
      <4>2. loaded[4 * (i - 1) + k] = number(image[i][k])
        BY <1>6, <2>3
      <4>3. image[i] = cut(machine[i])
        BY <1>1, <1>3, <2>3
      <4>4. cut(machine[i])[k] = group(machine[i], 5 - k) /\ 5 - k \in 1 .. 4
        BY DEF cut
      <4>5. number(group(machine[i], 5 - k)) = code(p[5 - k])
        BY <2>3, <4>4 DEF Coded, p
      <4> QED BY <4>1, <4>2, <4>3, <4>4, <4>5
    <3> QED BY <3>1
  <2>5. PICK c \in 0 .. Len(line) :
          /\ IsBody(line, c) /\ Len(b) = c /\ \A m \in 1 .. c : b[m] = line[m]
          /\ b # <<>> <=> c # 0
    BY <2>1, Body DEF b
  <2>6. c \in 1 .. Len(line)
    BY <2>1, <2>5
  <2>7. Plain(line)
    BY <1>1, <2>1 DEF PlainSources, line
  <2>8. /\ code(p[1]) = opcode[line[1].op]
        /\ \A m \in 2 .. c, k \in 1 .. 3 :
             fieldOfByte[k] = operandFields(line[1].op)[m - 1] => code(p[5 - k]) = value(line[m])
    BY <2>1, <2>5, <2>6, <2>7, Fields DEF p
  <2>9. b[1] = line[1] /\ \A m \in 2 .. c : b[m] = line[m]
    BY <2>5, <2>6
  <2>10. loaded[4 * before(n) + 4] = opcode[b[1].op]
    <3>1. 4 \in 1 .. 4 /\ 5 - 4 = 1
      OBVIOUS
    <3> QED BY <2>4, <2>8, <2>9, <3>1
  <2>11. ASSUME NEW m \in 2 .. c, NEW k \in 1 .. 3,
                fieldOfByte[k] = operandFields(b[1].op)[m - 1]
         PROVE  loaded[4 * before(n) + k] = value(b[m])
    <3>1. k \in 1 .. 4
      OBVIOUS
    <3>2. code(p[5 - k]) = value(line[m])
      BY <2>8, <2>9, <2>11, Zenon
    <3> QED BY <2>4, <2>9, <3>1, <3>2, Zenon
  <2> QED BY <2>5, <2>10, <2>11, Zenon DEF Holds, b, line
<1> QED BY <1>1, <1>5, <1>6, <1>7, Zenon

\* If no source has a mov, or an immediate of one digit that is not the last operand, a run
\* that the assembler accepts leaves the program in instruction memory: one word for each
\* instruction, in their order, with every operand in the byte that the control unit takes it
\* from (CO2070Assembler.c:72-117, 132-211, generate_memory_image.sh, control_unit.v:32-41).
THEOREM ImageHoldsProgram ==
  ASSUME PlainSources
  PROVE  Spec => []ImageIsProgram
<1>1. Init => TypeOK /\ LoopInv /\ ProgramInv
  BY TypeInit, BuildAssumption DEF Init, LoopInv, ProgramInv, WrittenInv, MachineInv, AcceptedInv
<1>2. TypeOK /\ LoopInv /\ ProgramInv /\ [Next]_vars => TypeOK' /\ LoopInv' /\ ProgramInv'
  BY TypeStep, LoopNext, WrittenNext, MachineNext, AcceptedNext DEF ProgramInv
<1>3. TypeOK /\ ProgramInv => ImageIsProgram
  BY ImageHolds
<1> QED BY <1>1, <1>2, <1>3, PTL DEF Spec
=============================================================================
