-------------------------------- MODULE ALU --------------------------------
(***************************************************************************)
(* The units of the ALU (alu.v) and the negation in front of it            *)
(* (twos_complement.v), bit for bit as the Verilog wires them.  What they  *)
(* promise is at the end of the module, in arithmetic modulo 2^Width.      *)
(***************************************************************************)
EXTENDS Integers

CONSTANT Width   \* bits in a byte; 8 in the program

ASSUME WidthAssumption == Width \in Nat \ {0}

Modulus == 2 ^ Width
Words   == 0 .. Modulus - 1
Bits    == 0 .. Width - 1

bit(x, i) == (x \div 2 ^ i) % 2

\* The sum of one number for each bit.
total(terms) ==
  LET upTo[n \in 0 .. Width] == IF n = 0 THEN 0 ELSE upTo[n - 1] + terms[n - 1]
  IN  upTo[Width]

\* The byte whose bit i is b[i]: a Verilog concatenation.
concat(b) == total([i \in Bits |-> b[i] * 2 ^ i])

-----------------------------------------------------------------------------
forward_unit(d2) == d2
add_unit(d1, d2) == (d1 + d2) % Modulus
and_unit(d1, d2) == concat([i \in Bits |-> bit(d1, i) * bit(d2, i)])
or_unit(d1, d2)  == concat([i \in Bits |-> IF bit(d1, i) + bit(d2, i) = 0 THEN 0 ELSE 1])

invert(x) == concat([i \in Bits |-> 1 - bit(x, i)])

twos_complementOnes(x) == invert(x)
twos_complement(x)     == (invert(x) + 1) % Modulus

\* One case table of shift_unit for each kind of shift.
left_result(d, amt)  == concat([i \in Bits |-> IF i < amt THEN 0 ELSE bit(d, i - amt)])
right_result(d, amt) == concat([i \in Bits |-> IF i + amt < Width THEN bit(d, i + amt) ELSE 0])
arith_result(d, amt) ==
  concat([i \in Bits |-> bit(d, IF i + amt < Width THEN i + amt ELSE Width - 1)])
ror_resultDropped(d, amt) == right_result(d, amt)
ror_result(d, amt)   == concat([i \in Bits |-> bit(d, (i + amt) % Width)])

\* Only the low bits of the amount count.
amountAll(n) == IF n < Width THEN n ELSE Width - 1
amount(n)    == n % Width

shift_results(d, n) == << left_result(d, amount(n)), right_result(d, amount(n)),
                          arith_result(d, amount(n)), ror_result(d, amount(n)) >>

\* SHIFT_TYPE is 0 sll, 1 srl, 2 sra, 3 ror.
shift_unit(d, n, type) == shift_results(d, n)[type + 1]

\* The partial products: d1 shifted to the position of each one of d2.
partial_products(d1, d2) ==
  [i \in Bits |-> IF bit(d2, i) = 1 THEN left_result(d1, i) ELSE 0]

sum_of(products)  == total(products) % Modulus
mult_unit(d1, d2) == sum_of(partial_products(d1, d2))

-----------------------------------------------------------------------------
(* What the units promise. *)

\* A byte as a signed number.
signed(x) == IF x < Modulus \div 2 THEN x ELSE x - Modulus

\* Negation is exact, so that the adder subtracts and its result is 0 just for equal
\* operands, which is what beq and bne branch on (alu.v:38, cpu.v:124).
SubtractCorrect(a, b) ==
  LET difference == add_unit(a, twos_complement(b))
  IN  /\ difference = (a - b) % Modulus
      /\ difference = 0 <=> a = b
      /\ twos_complement(b) \in Words

\* The multiplier returns the low byte of the product (mult_unit.v:11-27).
MultiplyCorrect(a, b) == mult_unit(a, b) = (a * b) % Modulus

\* A shift left multiplies, a shift right divides (towards minus infinity when it is
\* arithmetic), for the amount that the low bits of the operand give.
ShiftsCorrect(a, n) ==
  LET p == 2 ^ (n % Width)
  IN  /\ shift_unit(a, n, 0) = (a * p) % Modulus
      /\ shift_unit(a, n, 1) = a \div p
      /\ shift_unit(a, n, 2) = (signed(a) \div p) % Modulus
      /\ \A type \in 0 .. 3 : shift_unit(a, n, type) \in Words

\* A rotation loses no bit: the rotation by the rest of the byte undoes it.
RotateCorrect(a, n) ==
  LET p == 2 ^ (n % Width)
  IN  /\ shift_unit(a, n, 3) = (a \div p) + (a % p) * (Modulus \div p)
      /\ shift_unit(shift_unit(a, n, 3), Width - (n % Width), 3) = a

\* Conjunction with a mask keeps the low bits, and the two units split a sum
\* (and_unit.v, or_unit.v).
LogicCorrect(a, b) ==
  LET p == 2 ^ (b % Width)
  IN  /\ and_unit(a, p - 1) = a % p
      /\ and_unit(a, b) + or_unit(a, b) = a + b
      /\ {and_unit(a, b), or_unit(a, b)} \subseteq Words

\* The highest bit, which cpu.v:96-107 extends, is the sign.
SignCorrect(a) == bit(a, Width - 1) = 1 <=> signed(a) < 0

\* The units on all pairs of operands.
ArithmeticExact ==
  \A a, b \in Words :
    SubtractCorrect(a, b) /\ MultiplyCorrect(a, b) /\ LogicCorrect(a, b) /\ SignCorrect(a)

ShiftsExact == \A a, n \in Words : ShiftsCorrect(a, n) /\ RotateCorrect(a, n)
=============================================================================
