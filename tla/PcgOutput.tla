------------------------------ MODULE PcgOutput ------------------------------
(***************************************************************************)
(* The bit operations of pcg_extras.hpp and the output functions of        *)
(* pcg_random.hpp, which turn the state of a generator, a word of "bits"   *)
(* bits, into a result of xtypebits bits.  Here a word is a natural        *)
(* number, and both widths are at most 16.                                 *)
(***************************************************************************)
EXTENDS Integers, FiniteSetsExt, Bitwise

Shr(x, n) == x \div 2 ^ n
Shl(x, n, bits) == (x * 2 ^ n) % 2 ^ bits
Mask(n) == 2 ^ n - 1

(* The n highest bits of a word: the ones output functions select with.    *)
Top(x, bits, n) == Shr(x, bits - n)

(* x ^= x >> shift                                                         *)
XorShift(x, shift) == x ^^ Shr(x, shift)

(* The product modulo 2^bits, in parts that TLC's integers can hold.       *)
Times(a, b, bits) ==
  (((Shr(a, 8) * b) % 2 ^ (bits - bits \div 2)) * 2 ^ 8 + (a % 2 ^ 8) * b)
    % 2 ^ bits

-----------------------------------------------------------------------------

RECURSIVE unxorshift(_, _, _)
unxorshift(x, bits, shift) ==
  IF 2 * shift >= bits
  THEN XorShift(x, shift)
  ELSE LET low == bits - 2 * shift
           top1 == Shr(XorShift(x, shift), low) * 2 ^ low
           bottom2 == (top1 + (x % 2 ^ low)) % 2 ^ (bits - shift)
       IN  top1 + (unxorshift(bottom2, bits - shift, shift) % 2 ^ low)

(* rotr on a word of "bits" bits                                           *)
rotr(value, rot, bits) ==
  Shr(value, rot) | Shl(value, (-rot) % bits, bits)

-----------------------------------------------------------------------------

(* The first of the cases of a chain of conditionals, <<from, value>> with *)
(* descending from, that width reaches; 0 if it reaches none.              *)
FirstCase(width, cases) ==
  Max({c[2] : c \in {d \in cases : width >= d[1]}} \union {0})

(* XSH RS: high xorshift, followed by a random shift.                      *)
xsh_rs(internal, bits, xtypebits) ==
  LET sparebits == bits - xtypebits
      opbits == FirstCase(sparebits, {<<69, 5>>, <<36, 4>>, <<19, 3>>, <<6, 2>>, <<2, 1>>})
      maxrandshift == Mask(opbits)
      bottomspare == sparebits - opbits
      xshift == opbits + (xtypebits + maxrandshift) \div 2
      rshift == Top(internal, bits, opbits)
  IN  Shr(XorShift(internal, xshift), bottomspare - maxrandshift + rshift)
        % 2 ^ xtypebits

(* How many bits select a rotation of a word of so many bits.              *)
wantedopbits(width) ==
  FirstCase(width, {<<128, 7>>, <<64, 6>>, <<32, 5>>, <<16, 4>>, <<0, 3>>})

(* The rotation the highest bits select, and the number of these bits.     *)
opbits_rr(bits, xtypebits) == Min({bits - xtypebits, wantedopbits(xtypebits)})
amprot(rot, bits, xtypebits) ==
  LET opbits == opbits_rr(bits, xtypebits)
  IN  Shl(rot, wantedopbits(xtypebits) - opbits, opbits)

(* Mutant of xsh_rr: the bits that select the rotation are rotated too.    *)
xsh_rr_Top(internal, bits, xtypebits) ==
  LET opbits == opbits_rr(bits, xtypebits)
      rot == Top(internal, bits, opbits)
  IN  rotr(Shr(internal, bits - xtypebits), amprot(rot, bits, xtypebits), xtypebits)

(* XSH RR: high xorshift, followed by a random rotate.                     *)
xsh_rr(internal, bits, xtypebits) ==
  LET opbits == opbits_rr(bits, xtypebits)
      rot == Top(internal, bits, opbits)
      xored == XorShift(internal, (opbits + xtypebits) \div 2)
  IN  rotr(Shr(xored, bits - xtypebits - opbits) % 2 ^ xtypebits,
           amprot(rot, bits, xtypebits), xtypebits)

mcg_multiplier(bits) == IF bits = 8 THEN 217 ELSE 62169
mcg_unmultiplier(bits) == IF bits = 8 THEN 105 ELSE 28009

opbits_m(width) ==
  FirstCase(width, {<<128, 6>>, <<64, 5>>, <<32, 4>>, <<16, 3>>, <<0, 2>>})

(* RXS M: random xorshift, mcg multiply.                                   *)
rxs_m(internal, bits, xtypebits) ==
  LET opbits == opbits_m(xtypebits)
      rshift == Top(internal, bits, opbits)
  IN  Shr(Times(XorShift(internal, opbits + rshift), mcg_multiplier(bits), bits),
          bits - xtypebits)

(* RXS M XS: the same and a fixed xorshift ...                             *)
rxs_m_xs(internal, bits, xtypebits) ==
  LET opbits == opbits_m(xtypebits)
      rshift == Top(internal, bits, opbits)
      product ==
        Times(XorShift(internal, opbits + rshift), mcg_multiplier(bits), bits)
  IN  XorShift(Shr(product, bits - xtypebits), (2 * xtypebits + 2) \div 3)

(* ... which it backs out when state and result have the same width.       *)
unoutput(internal, bits) ==
  LET product == unxorshift(internal, bits, (2 * bits + 2) \div 3)
      xored == Times(product, mcg_unmultiplier(bits), bits)
      opbits == opbits_m(bits)
  IN  unxorshift(xored, bits, opbits + Top(xored, bits, opbits))

(* XSL RR: fixed xorshift to low bits, random rotate.                      *)
xsl_rr(internal, bits, xtypebits) ==
  LET rot == Top(internal, bits, opbits_rr(bits, xtypebits))
  IN  rotr(XorShift(internal, bits \div 2) % 2 ^ xtypebits,
           amprot(rot, bits, xtypebits), xtypebits)

(* XSH and XSL: a fixed xorshift to the high bits or to the low ones.      *)
xsh(internal, bits, xtypebits) ==
  Shr(XorShift(internal, xtypebits \div 2), bits - xtypebits)
xsl(internal, bits, xtypebits) ==
  XorShift(internal, bits \div 2) % 2 ^ xtypebits

=============================================================================
