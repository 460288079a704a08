------------------------------ MODULE RangeCoder ------------------------------
(***************************************************************************)
(* The range coder under the LZMA encoder and decoder                      *)
(* (internal/lzma/rangeenc.go and rangedec.go): any sequence of decisions, *)
(* modelled and direct, written, flushed and read back.                    *)
(*                                                                         *)
(* The widths are constants; the code's are bytes of 256 values, 11-bit    *)
(* probabilities (of 2048), which move by 1/32, and ranges of four bytes.  *)
(***************************************************************************)
EXTENDS Integers, Sequences

CONSTANTS
    Byte,         \* values of a byte; a range has four bytes
    ProbTotal,    \* the probability that is certainty
    Move,         \* a probability moves by one part in so many
    Models,       \* adaptive bit models
    MaxDecisions  \* decisions in a stream

TopValue == Byte * Byte * Byte
Word == Byte * TopValue

ASSUME WidthsAssumption ==
    /\ Byte \in Nat \ {0} /\ Byte % 2 = 0
    /\ ProbTotal \in Nat \ {0} /\ TopValue % ProbTotal = 0
    /\ Move \in Nat \ {0, 1} /\ Move <= ProbTotal \div 2
    /\ (Move - 1) * Byte >= ProbTotal \* one shift restores a range

ProbInit == ProbTotal \div 2
Direct == "direct"
ASSUME DirectAssumption == Direct \notin Models

VARIABLES
    coding,   \* "encode", "finish", "decode" or "end"
    asked,   \* the decisions so far, [model, bit]
    enc,     \* rangeEncoder: [low, rng, cache, cacheSize, probs]
    out,     \* the bytes written
    dec,     \* rangeDecoder: [pos, rng, code, overrun, probs]
    got      \* the bits read

coderVars == <<coding, asked, enc, out, dec, got>>

Untouched == [m \in Models |-> ProbInit]

CoderInit ==
    /\ coding = "encode" /\ asked = <<>> /\ out = <<>> /\ got = <<>>
    /\ enc = [low |-> 0, rng |-> Word - 1, cache |-> 0, cacheSize |-> 1, probs |-> Untouched]
    /\ dec = [pos |-> 0, rng |-> 0, code |-> 0, overrun |-> 0, probs |-> Untouched]

Likelier(p) == p + (ProbTotal - p) \div Move
Unlikelier(p) == p - p \div Move
Adapted(p, bit) == IF bit = 0 THEN Likelier(p) ELSE Unlikelier(p)

Moved(probs, model, bit) ==
    IF model = Direct THEN probs ELSE [probs EXCEPT ![model] = Adapted(@, bit)]

Bound(rng, p) == (rng \div ProbTotal) * p

\* Where a coder cuts its range for the next decision.
Cut(c, model) == IF model = Direct THEN c.rng \div 2 ELSE Bound(c.rng, c.probs[model])

\* The part of it that stands for the bit.
Part(rng, bound, model, bit) == IF model = Direct \/ bit = 0 THEN bound ELSE rng - bound

(***************************************************************************)
(* The encoder.                                                            *)
(***************************************************************************)

\* Mutant: only the first of them gets the carry.
HeldBackNoCarry(e, carry) ==
    [i \in 1 .. e.cacheSize |-> IF i = 1 THEN (e.cache + carry) % Byte ELSE Byte - 1]

\* The bytes that waited for a carry, with what came of it.
HeldBack(e, carry) ==
    [i \in 1 .. e.cacheSize |-> ((IF i = 1 THEN e.cache ELSE Byte - 1) + carry) % Byte]

\* shiftLow: the top byte leaves low. A byte of ones may still get a carry, so
\* such bytes are only counted until one settles it.
ShiftLow(e, o) ==
    IF e.low < (Byte - 1) * TopValue \/ e.low >= Word
    THEN [enc |-> [low |-> (e.low * Byte) % Word, rng |-> e.rng,
                   cache |-> (e.low \div TopValue) % Byte, cacheSize |-> 1, probs |-> e.probs],
          out |-> o \o HeldBack(e, e.low \div Word)]
    ELSE [enc |-> [low |-> (e.low * Byte) % Word, rng |-> e.rng,
                   cache |-> e.cache, cacheSize |-> e.cacheSize + 1, probs |-> e.probs],
          out |-> o]

\* normalize, of the encoder.
Settle(e) ==
    IF e.rng < TopValue
    THEN LET s == ShiftLow([e EXCEPT !.rng = @ * Byte], out) IN enc' = s.enc /\ out' = s.out
    ELSE enc' = e /\ out' = out

\* The range is cut down to the part that stands for the bit.
Narrowed(e, model, bit) ==
    LET bound == Cut(e, model)
    IN  [low |-> IF bit = 0 THEN e.low ELSE e.low + bound, rng |-> Part(e.rng, bound, model, bit),
         cache |-> e.cache, cacheSize |-> e.cacheSize, probs |-> Moved(e.probs, model, bit)]

Encode(model, bit) ==
    /\ coding = "encode" /\ Len(asked) < MaxDecisions
    /\ asked' = Append(asked, [model |-> model, bit |-> bit])
    /\ Settle(Narrowed(enc, model, bit))
    /\ UNCHANGED <<coding, dec, got>>

ShiftMore(s) == ShiftLow(s.enc, s.out)

\* finish: the five bytes that are left; then the stream is read.
Shifts(e, o) == ShiftMore(ShiftMore(ShiftMore(ShiftMore(ShiftLow(e, o)))))

Finish ==
    /\ coding = "encode" /\ coding' = "finish"
    /\ enc' = Shifts(enc, out).enc /\ out' = Shifts(enc, out).out
    /\ UNCHANGED <<asked, dec, got>>

(***************************************************************************)
(* The decoder.                                                            *)
(***************************************************************************)

ByteAt(i) == IF i <= Len(out) THEN out[i] ELSE 0

\* init: five bytes, the first of which is zero.
Begin ==
    /\ coding = "finish" /\ out[1] = 0
    /\ coding' = "decode"
    /\ dec' = [pos |-> 5, rng |-> Word - 1,
               code |-> ((ByteAt(2) * Byte + ByteAt(3)) * Byte + ByteAt(4)) * Byte + ByteAt(5),
               overrun |-> 0, probs |-> Untouched]
    /\ UNCHANGED <<asked, enc, out, got>>

\* Mutant: the range is compared one too far down.
RefillLate(d) ==
    IF d.rng >= TopValue \div 2 THEN d
    ELSE [pos |-> d.pos + 1, rng |-> d.rng * Byte, code |-> (d.code * Byte + ByteAt(d.pos + 1)) % Word,
          overrun |-> IF d.pos < Len(out) THEN d.overrun ELSE d.overrun + 1, probs |-> d.probs]

\* normalize, of the decoder.
Refill(d) ==
    IF d.rng >= TopValue THEN d
    ELSE [pos |-> d.pos + 1, rng |-> d.rng * Byte, code |-> (d.code * Byte + ByteAt(d.pos + 1)) % Word,
          overrun |-> IF d.pos < Len(out) THEN d.overrun ELSE d.overrun + 1, probs |-> d.probs]

\* The decoder is asked for what the encoder was, in the same order.
Decode ==
    /\ coding = "decode" /\ Len(got) < Len(asked)
    /\ LET model == asked[Len(got) + 1].model
           bound == Cut(dec, model)
           bit == IF model = Direct
                  THEN 1 - ((dec.code - bound) % Word) \div (Word \div 2)
                  ELSE IF dec.code < bound THEN 0 ELSE 1
       IN  /\ got' = Append(got, bit)
           /\ dec' = Refill([pos |-> dec.pos,
                             rng |-> Part(dec.rng, bound, model, bit),
                             code |-> IF bit = 0 THEN dec.code ELSE dec.code - bound,
                             overrun |-> dec.overrun,
                             probs |-> Moved(dec.probs, model, bit)])
    /\ UNCHANGED <<coding, asked, enc, out>>

CoderNext ==
    \/ \E model \in Models \cup {Direct}, bit \in 0 .. 1 : Encode(model, bit)
    \/ Finish \/ Begin \/ Decode
    \/ coding = "decode" /\ Len(got) = Len(asked) /\ UNCHANGED coderVars

CoderSpec == CoderInit /\ [][CoderNext]_coderVars

(***************************************************************************)
(* Property.                                                               *)
(***************************************************************************)

\* What is read back is what was written, whatever carries ran through bytes
\* held back; the decoder's models have then moved as the encoder's, it has not
\* asked for more than there is, and it stands at the `finished` position the
\* end marker is only accepted at.
ReadAsWritten ==
    coding = "decode" =>
        /\ \A i \in DOMAIN got : got[i] = asked[i].bit
        /\ Len(got) = Len(asked) =>
              dec.code = 0 /\ dec.overrun = 0 /\ dec.probs = enc.probs
=============================================================================
