--------------------------------- MODULE Pcg ---------------------------------
(***************************************************************************)
(* The random number generators of pcg_random.hpp: a linear congruential   *)
(* engine with a stream (its increment) and an output function.            *)
(*                                                                         *)
(* data_rapl_stats draws the operands of its rounds from a pcg32, which is *)
(* setseq_xsh_rr_64_32; the types checked here are those with states of 8  *)
(* and 16 bits, with the constants the code has for them.                  *)
(***************************************************************************)
EXTENDS PcgOutput, FiniteSets

CONSTANTS
  Kinds,          \* records: stream, output, bits (of a state), xtypebits
  Seeds, Specific_seqs, Addresses,      \* arguments of the constructors
  Deltas,         \* arguments of advance(), backstep() and bounded_rand()
  NearOrigin,     \* bound: how far from the origin a new one is taken,
  MaxOrigins      \* bound: and how often

VARIABLES
  kind,           \* the type of the generator
  rng,            \* the generator: its state and increment
  origin,         \* a copy of it, taken earlier; its text was written then
  origins,        \* how many origins there were
  steps,          \* how far rng has been moved since, modulo the period
  wraps,          \* how often wrapped() has been true after a draw
  drawn           \* for each output function, how often each operand was drawn

pcgVars == <<kind, rng, origin, origins, steps, wraps, drawn>>

Operands == 0 .. 2
Outputs == {"xsh_rs", "xsh_rr", "rxs_m", "rxs_m_xs", "xsl_rr", "xsh", "xsl"}

Modulus(k) == 2 ^ k.bits

is_mcg(k) == k.stream = "mcg"

default_multiplier(k) == IF k.bits = 8 THEN 141 ELSE 12829
default_increment(k) == IF k.bits = 8 THEN 77 ELSE 47989

period_pow2(k) == k.bits - (IF is_mcg(k) THEN 2 ELSE 0)

Output(name, x, bits, xtypebits) ==
  CASE name = "xsh_rs" -> xsh_rs(x, bits, xtypebits)
    [] name = "xsh_rr" -> xsh_rr(x, bits, xtypebits)
    [] name = "rxs_m" -> rxs_m(x, bits, xtypebits)
    [] name = "rxs_m_xs" -> rxs_m_xs(x, bits, xtypebits)
    [] name = "xsl_rr" -> xsl_rr(x, bits, xtypebits)
    [] name = "xsh" -> xsh(x, bits, xtypebits)
    [] name = "xsl" -> xsl(x, bits, xtypebits)

-----------------------------------------------------------------------------
(* The streams.                                                            *)

stream_increment(k, specific_seq) == Shl(specific_seq, 1, k.bits) + 1

unique_increment(address) == address | 1

(* The increments a new generator of a type may have.                      *)
increments(k) ==
  CASE k.stream = "setseq" ->
         {default_increment(k)} \union {stream_increment(k, s) : s \in Specific_seqs}
    [] k.stream = "unique" -> {unique_increment(a) : a \in Addresses}
    [] k.stream = "oneseq" -> {default_increment(k)}
    [] k.stream = "mcg" -> {0}

-----------------------------------------------------------------------------
(* The engine.                                                             *)

bump(k, e) == (Times(e.state, default_multiplier(k), k.bits) + e.inc) % Modulus(k)

(* engine(state): the seed has the width of a state; the low bits of an    *)
(* mcg are 3.                                                              *)
engine(k, seed, inc) ==
  LET itype(x) == x % Modulus(k) IN
  [inc |-> inc,
   state |-> IF is_mcg(k) THEN itype(seed) | 3
             ELSE bump(k, [state |-> itype(seed + inc), inc |-> inc])]

wrapped(k, e) == e.state = IF is_mcg(k) THEN 3 ELSE 0

(* advance(): accumulates the multiplier and the addend of delta steps,    *)
(* with those of 1, 2, 4 ... steps.                                        *)
RECURSIVE Accumulate(_, _, _, _, _, _)
Accumulate(bits, delta, acc_mult, acc_plus, cur_mult, cur_plus) ==
  LET Mod(x) == x % 2 ^ bits
      odd == delta % 2 = 1 IN
  IF delta = 0 THEN <<acc_mult, acc_plus>>
  ELSE Accumulate(bits, delta \div 2,
         IF odd THEN Times(acc_mult, cur_mult, bits) ELSE acc_mult,
         IF odd THEN Mod(Times(acc_plus, cur_mult, bits) + cur_plus) ELSE acc_plus,
         Times(cur_mult, cur_mult, bits),
         Times(Mod(cur_mult + 1), cur_plus, bits))

advance(k, e, delta) ==
  LET acc == Accumulate(k.bits, delta, 1, 0, default_multiplier(k), e.inc)
  IN  [e EXCEPT !.state = (Times(acc[1], e.state, k.bits) + acc[2]) % Modulus(k)]

(* Mutant of backstep: one step less.                                      *)
backstepOneLess(k, e, delta) == advance(k, e, (1 - delta) % Modulus(k))

backstep(k, e, delta) == advance(k, e, (-delta) % Modulus(k))

(* distance(): finds the number of steps bit by bit.  -1 stands for the    *)
(* assertion that fails when a step does not make the_bit equal.           *)
RECURSIVE Approach(_, _, _, _, _, _, _)
Approach(bits, cur_state, newstate, cur_mult, cur_plus, the_bit, dist) ==
  LET Differs(s) == (s \div the_bit) % 2 # (newstate \div the_bit) % 2
      moved == IF Differs(cur_state)
               THEN (Times(cur_state, cur_mult, bits) + cur_plus) % 2 ^ bits
               ELSE cur_state IN
  IF cur_state = newstate THEN dist
  ELSE IF the_bit = 2 ^ bits \/ Differs(moved) THEN -1
  ELSE Approach(bits, moved, newstate, Times(cur_mult, cur_mult, bits),
         Times((cur_mult + 1) % 2 ^ bits, cur_plus, bits), 2 * the_bit,
         IF Differs(cur_state) THEN dist + the_bit ELSE dist)

distance(k, cur_state, newstate, plus) ==
  IF plus = 0
  THEN Approach(k.bits, cur_state, newstate, default_multiplier(k), plus, 4, 0) \div 4
  ELSE Approach(k.bits, cur_state, newstate, default_multiplier(k), plus, 1, 0)

(* operator-; of two streams it compares how far each generator goes next. *)
Minus(k, lhs, rhs) ==
  IF lhs.inc = rhs.inc THEN distance(k, rhs.state, lhs.state, rhs.inc)
  ELSE LET Diff(e) == (bump(k, e) - e.state) % Modulus(k)
           l == Diff(lhs)
           r == IF l % 4 = Diff(rhs) % 4 THEN Diff(rhs) ELSE (-Diff(rhs)) % Modulus(k)
       IN  distance(k, r, l, 0)

(* operator<<, and operator>> into a generator of the same type: it sets   *)
(* the stream where the type has one to set, and else wants it the same.   *)
written(k, e) ==
  [multiplier |-> default_multiplier(k), increment |-> e.inc, state |-> e.state]

Readable(k, e, text) ==
  /\ text.multiplier = default_multiplier(k)
  /\ k.stream = "setseq" \/ text.increment = e.inc

read(k, e, text) ==
  IF ~Readable(k, e, text) THEN e
  ELSE [state |-> text.state,
        inc |-> IF k.stream = "setseq"
                THEN stream_increment(k, Shr(text.increment, 1)) ELSE e.inc]

(* bounded_rand(): the results below the threshold are drawn again.        *)
threshold(k, upper_bound) == (2 ^ k.xtypebits - upper_bound) % upper_bound

RECURSIVE bounded_rand(_, _, _)
bounded_rand(k, e, upper_bound) ==
  LET r == Output(k.output, e.state, k.bits, k.xtypebits)
      next == [e EXCEPT !.state = bump(k, e)]
  IN  IF r >= threshold(k, upper_bound)
      THEN [result |-> r % upper_bound, rng |-> next, draws |-> 1]
      ELSE LET again == bounded_rand(k, next, upper_bound)
           IN  [again EXCEPT !.draws = @ + 1]

-----------------------------------------------------------------------------

PcgInit ==
  /\ kind \in Kinds
  /\ \E s \in Seeds, i \in increments(kind) : rng = engine(kind, s, i)
  /\ origin = rng /\ origins = 1 /\ steps = 0 /\ wraps = 0
  /\ drawn = [o \in Outputs |-> [x \in Operands |-> 0]]

Moved(n) == steps' = (steps + n) % 2 ^ period_pow2(kind)

unwalked == <<kind, wraps, drawn>>
same == <<origin, origins, unwalked>>

(* The generator is the origin from now on.                                *)
NewOrigin ==
  /\ steps \in 0 .. NearOrigin /\ origins < MaxOrigins
  /\ origin' = rng' /\ origins' = origins + 1 /\ steps' = 0

Draw ==
  /\ rng' = [rng EXCEPT !.state = bump(kind, rng)]
  /\ Moved(1)
  /\ UNCHANGED same

Advance(delta) ==
  /\ rng' = advance(kind, rng, delta)
  /\ Moved(delta)
  /\ UNCHANGED same

Backstep(delta) ==
  /\ rng' = backstep(kind, rng, delta)
  /\ Moved(-delta)
  /\ UNCHANGED same

BoundedDraw(upper_bound) ==
  LET b == bounded_rand(kind, rng, upper_bound) IN
  /\ rng' = b.rng
  /\ Moved(b.draws)
  /\ UNCHANGED same

(* The generator is copied, and written as text, ...                       *)
Copy ==
  /\ UNCHANGED <<rng, unwalked>>
  /\ NewOrigin

(* ... put on another stream, which only a specific stream can be, ...     *)
SetStream(specific_seq) ==
  /\ kind.stream = "setseq"
  /\ rng' = [rng EXCEPT !.inc = stream_increment(kind, specific_seq)]
  /\ NewOrigin
  /\ UNCHANGED unwalked

(* ... read from the text of the origin, ...                               *)
ReadBack ==
  /\ rng' = read(kind, rng, written(kind, origin))
  /\ steps' = 0
  /\ UNCHANGED same

(* ... or from one that another stream or another type has written.        *)
ReadForeign ==
  \E s \in Specific_seqs, m \in {0, 2} :
    LET text == [multiplier |-> default_multiplier(kind) + m,
                 increment |-> stream_increment(kind, s), state |-> 1] IN
    /\ rng' = read(kind, rng, text)
    /\ IF Readable(kind, rng, text) THEN NewOrigin
       ELSE UNCHANGED <<origin, origins, steps>>
    /\ UNCHANGED unwalked

Operation ==
  \/ Draw \/ Copy \/ ReadBack \/ ReadForeign
  \/ \E d \in Deltas : Advance(d) \/ Backstep(d)
  \/ \E d \in Deltas : BoundedDraw(d)
  \/ \E s \in Specific_seqs : SetStream(s)

(* What main.cpp does with its generator: ex.op_weights[0] comes from      *)
(* generator() % 3.  The draws that another output function would have     *)
(* made of the same states are counted as well.                            *)
DrawOperand ==
  /\ steps < Modulus(kind)
  /\ rng' = [rng EXCEPT !.state = bump(kind, rng)]
  /\ steps' = steps + 1
  /\ wraps' = IF wrapped(kind, rng') THEN wraps + 1 ELSE wraps
  /\ drawn' = [o \in Outputs |->
       [drawn[o] EXCEPT
         ![Output(o, rng.state, kind.bits, kind.xtypebits) % 3] = @ + 1]]
  /\ UNCHANGED <<kind, origin, origins>>

-----------------------------------------------------------------------------

(* However a generator is moved -- drawn from, advanced, stepped back, read *)
(* again -- its difference to an earlier copy of it is the number of steps *)
(* it has been moved, and so is the change of its difference to a generator *)
(* of another stream, as the copy of a unique generator is, which has      *)
(* another address; the assertion in distance() holds                      *)
(* (pcg_random.hpp:404-451, 592-707).                                      *)
DistanceCountsSteps ==
  LET mcgPeriod == 2 ^ (kind.bits - 2)
      other == [origin EXCEPT !.inc = (@ + 2) % Modulus(kind)] IN
  /\ kind.stream # "unique" =>
       Minus(kind, rng, origin) = steps % 2 ^ period_pow2(kind)
  /\ ~is_mcg(kind) =>
       Minus(kind, rng, other) = (Minus(kind, origin, other) + steps) % mcgPeriod

(* In a whole period every result is drawn as often as any other: the      *)
(* operands as often as there are results with that remainder, whatever    *)
(* the seed and the output function, and the generator wraps once          *)
(* (main.cpp:186, pcg_random.hpp:399-423, 458-468).  With a result as wide *)
(* as the state the output function is a permutation that unoutput()       *)
(* backs out, as inside_out relies on (pcg_random.hpp:924-965,             *)
(* pcg_extras.hpp:261-280); bounded_rand() has no remainder that is drawn  *)
(* more often (pcg_extras.hpp:538-550).                                    *)
DrawsAreEven ==
  /\ steps = Modulus(kind) =>
       /\ wraps = 1
       /\ \A o \in Outputs, x \in Operands :
            drawn[o][x] = 2 ^ (kind.bits - kind.xtypebits) *
              Cardinality({r \in 0 .. 2 ^ kind.xtypebits - 1 : r % 3 = x})
  /\ kind.output = "rxs_m_xs" /\ kind.bits = kind.xtypebits =>
       unoutput(rxs_m_xs(rng.state, kind.bits, kind.bits), kind.bits) = rng.state
  /\ steps = 0 =>
       \A u \in Deltas : (2 ^ kind.xtypebits - threshold(kind, u)) % u = 0

=============================================================================
