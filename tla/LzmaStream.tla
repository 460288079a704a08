------------------------------ MODULE LzmaStream ------------------------------
(***************************************************************************)
(* The LZMA encoder and decoder above the range coder (internal/lzma,      *)
(* encoder.go, decoder.go and state.go): a text cut into literals, matches *)
(* and repeats by a greedy parser, written as decisions, and read back.    *)
(*                                                                         *)
(* A decision is [ctx, v]: the adaptive models it goes through, by the array *)
(* and the index they have in the code, and its value. A decoder that asks *)
(* for another context than the next decision was written with would read  *)
(* noise. The sizes of the format are constants.                           *)
(***************************************************************************)
EXTENDS Integers, Sequences, FiniteSets

CONSTANTS
    Texts,      \* the texts that are compressed
    ByteWidth,  \* bits of a byte
    LC, PosMask,\* literal context bits, position mask
    Tier, High, \* codes of a short tier of lengths and of the long one
    ModelSlots, \* slots whose tail is modelled
    AlignBits,  \* modelled bits of the others
    DictSize,
    ChainDepth,
    Hash(_),    \* Hash(t): the chain a four-byte text is on
    Power       \* Power[i]: 1 << i

\* Distances are below 1 << 30 (the code's dictionary is 1 << 26).
MaxShift == 30

\* The end marker's distance is all ones: the last slot and only ones behind it.
LastSlot == 63
Ones == -1
EndMarker == -1

ASSUME PowersAssumption ==
    /\ Power \in [0 .. MaxShift -> Nat] /\ Power[0] = 1
    /\ \A i \in 0 .. MaxShift - 1 : Power[i + 1] = 2 * Power[i]

ASSUME SizesAssumption ==
    /\ {Tier, High, ChainDepth} \subseteq Nat \ {0} /\ PosMask \in Nat
    /\ ByteWidth \in 1 .. MaxShift /\ LC \in 0 .. ByteWidth /\ AlignBits \in 0 .. MaxShift
    /\ ModelSlots \in 4 .. LastSlot
    /\ DictSize \in 1 .. Power[MaxShift]
    /\ Texts \subseteq Seq(0 .. Power[ByteWidth] - 1)

MatchMinLen == 2
MatchMaxLen == MatchMinLen + 2 * Tier + High - 1
LenToPosStates == 4
HashLen == 4

VARIABLES
    text,    \* what is compressed
    pos,     \* how much of it is written
    writer,  \* the encoder's [state, reps]
    table,   \* the positions inserted
    stream,  \* the decisions
    reader,  \* the decoder's [state, reps]
    taken,   \* how many of the decisions it has read
    back,    \* the text decoded
    step     \* "write", "read" or "end"

lzmaVars == <<text, pos, writer, table, stream, reader, taken, back, step>>

Fresh0 == [state |-> 0, reps |-> <<0, 0, 0, 0>>]

LzmaInit ==
    /\ text \in Texts /\ pos = 0 /\ writer = Fresh0 /\ table = {} /\ stream = <<>>
    /\ reader = Fresh0 /\ taken = 0 /\ back = <<>> /\ step = "write"

\* The state machine both sides share (state.go).
AfterLiteral(s)  == IF s < 4 THEN 0 ELSE IF s < 10 THEN s - 3 ELSE s - 6
AfterMatch(s)    == IF s < 7 THEN 7 ELSE 10
AfterRep(s)      == IF s < 7 THEN 8 ELSE 11
AfterShortRep(s) == IF s < 7 THEN 9 ELSE 11

D(ctx, v) == <<[ctx |-> ctx, v |-> v]>>
Bit(b, i) == (b \div Power[i]) % 2

(***************************************************************************)
(* What is written for a length, a distance and a literal.                 *)
(***************************************************************************)

LongLength(coder, code, ps) ==
    IF code < 2 * Tier THEN D(<<coder, "choice2">>, 0) \o D(<<coder, "mid", ps>>, code - Tier)
    ELSE D(<<coder, "choice2">>, 1) \o D(<<coder, "high">>, (code - 2 * Tier) % High)

Length(coder, code, ps) ==
    IF code < Tier THEN D(<<coder, "choice">>, 0) \o D(<<coder, "low", ps>>, code)
    ELSE D(<<coder, "choice">>, 1) \o LongLength(coder, code, ps)

LenState(code) == IF code > LenToPosStates - 1 THEN LenToPosStates - 1 ELSE code

\* The place of the leading bit.
Leading(d) == CHOOSE k \in 2 .. MaxShift - 1 : Power[k] <= d /\ d < Power[k + 1]

\* Mutant: the bit under the leading one is left out of the slot.
SlotEven(d) == IF d < 4 THEN d ELSE 2 * Leading(d)

Slot(d) == IF d < 4 THEN d ELSE 2 * Leading(d) + Bit(d, Leading(d) - 1)

TailBits(slot) == slot \div 2 - 1
Base(slot) == (2 + (slot % 2)) * Power[TailBits(slot)]

\* What follows the slot of a distance.
SlotTail(slot, tail) ==
    IF slot < 4 THEN <<>>
    ELSE IF slot < ModelSlots THEN D(<<"posDecoders", Base(slot) - slot>>, tail)
    ELSE D(<<"direct">>, tail \div Power[AlignBits]) \o D(<<"align">>, tail % Power[AlignBits])

Distance(d, code) ==
    IF d = EndMarker
    THEN D(<<"posSlot", LenState(code)>>, LastSlot) \o (D(<<"direct">>, Ones) \o D(<<"align">>, Ones))
    ELSE D(<<"posSlot", LenState(code)>>, Slot(d))
         \o SlotTail(Slot(d), (d - Base(Slot(d))) % Power[TailBits(Slot(d))])

\* The models of a literal: by the byte before it, and after a match by the byte
\* at that distance as long as it agrees.
LitState(done) == IF done = <<>> THEN 0 ELSE done[Len(done)] \div Power[ByteWidth - LC]

Predicted(coder, done) == IF coder.state >= 7 THEN done[Len(done) - coder.reps[1]] ELSE 0

\* For bit i of a byte that begins with upper.
LitContext(coder, done, i, upper) ==
    <<"lit", LitState(done),
      IF coder.state >= 7 /\ upper = Predicted(coder, done) \div Power[i + 1]
      THEN 1 + Bit(Predicted(coder, done), i) ELSE 0,
      Power[ByteWidth - 1 - i] + upper>>

\* Mutant: the prediction is still followed after it was wrong.
LiteralPredicted(coder, done, b) ==
    [k \in 1 .. ByteWidth |->
        [ctx |-> [LitContext(coder, done, ByteWidth - k, b \div Power[ByteWidth - k + 1]) EXCEPT
                     ![3] = IF coder.state >= 7 THEN 1 + Bit(Predicted(coder, done), ByteWidth - k) ELSE 0],
         v |-> Bit(b, ByteWidth - k)]]

Literal(coder, done, b) ==
    [k \in 1 .. ByteWidth |->
        [ctx |-> LitContext(coder, done, ByteWidth - k, b \div Power[ByteWidth - k + 1]),
         v |-> Bit(b, ByteWidth - k)]]

(***************************************************************************)
(* The parser.                                                             *)
(***************************************************************************)

Done == SubSeq(text, 1, pos)
PosState(n) == n % (PosMask + 1)

\* The l letters behind the first p of t are the ones d before them.
Repeats(t, p, d, l) == p + l <= Len(t) /\ \A i \in p + 1 .. p + l : t[i] = t[i - d]

\* How far the text goes on as it did d before.
Common(d) ==
    LET same == {l \in 0 .. MatchMaxLen : Repeats(text, pos, d, l)}
    IN  CHOOSE l \in same : \A k \in same : k <= l

\* findBestRep: the first of the longest repeats.
RepLen(i) == IF writer.reps[i] + 1 > pos THEN 0 ELSE Common(writer.reps[i] + 1)
BestRep ==
    CHOOSE i \in 1 .. 4 : /\ \A k \in 1 .. 4 : RepLen(k) <= RepLen(i)
                          /\ \A k \in 1 .. i - 1 : RepLen(k) < RepLen(i)

HashChain == {p \in table : Hash(SubSeq(text, p + 1, p + HashLen)) = Hash(SubSeq(text, pos + 1, pos + HashLen))}
Near(chain) == {p \in chain : Cardinality({q \in chain : q > p}) < ChainDepth}

\* Mutant: a position out of the dictionary's reach is taken.
CandidatesAnyAge == IF pos + HashLen > Len(text) THEN {} ELSE Near(HashChain)

\* The newest positions on the chain, no older than the dictionary.
Candidates == IF pos + HashLen > Len(text) THEN {} ELSE {p \in Near(HashChain) : p >= pos - DictSize}

\* findBest: the distances of matches of at least four, and the nearest of the longest.
Matches == {pos - p : p \in {q \in Candidates : Common(pos - q) >= HashLen}}
BestMatch == CHOOSE d \in Matches : \A e \in Matches : Common(e) < Common(d) \/ (Common(e) = Common(d) /\ d <= e)

\* What is written next. A match is taken only when it is longer than the repeat.
TakesMatch == Matches # {} /\ Common(BestMatch) > RepLen(BestRep)
TakesRep == ~TakesMatch /\ (RepLen(BestRep) >= 2 \/ (RepLen(BestRep) = 1 /\ BestRep = 1))

\* Every position passed over goes on its chain, while four bytes follow it.
Inserted(n) == {p \in pos .. pos + n - 1 : p + HashLen <= Len(text)}

Write(isMatch, decisions, state, reps, n) ==
    /\ stream' = stream \o (D(<<"isMatch", writer.state, PosState(pos)>>, isMatch) \o decisions)
    /\ writer' = [state |-> state, reps |-> reps]
    /\ table' = table \cup Inserted(n) /\ pos' = pos + n
    /\ UNCHANGED <<text, reader, taken, back, step>>

Writing == step = "write" /\ pos < Len(text)

EncodeLiteral ==
    /\ Writing /\ ~TakesMatch /\ ~TakesRep
    /\ Write(0, Literal(writer, Done, text[pos + 1]), AfterLiteral(writer.state), writer.reps, 1)

\* A new distance in front of the others, the last of which is forgotten.
Pushed(reps, d) == [k \in 1 .. 4 |-> IF k = 1 THEN d ELSE reps[k - 1]]

MatchDecisions(s, ps, dist, len) ==
    D(<<"isRep", s>>, 0) \o (Length("len", len - MatchMinLen, ps) \o Distance(dist - 1, len - MatchMinLen))

EncodeMatch ==
    /\ Writing /\ TakesMatch
    /\ Write(1, MatchDecisions(writer.state, PosState(pos), BestMatch, Common(BestMatch)),
             AfterMatch(writer.state), Pushed(writer.reps, BestMatch - 1), Common(BestMatch))

\* The distances with the i-th brought to the front.
RepsAfter(reps, i) == [k \in 1 .. 4 |-> IF k = 1 THEN reps[i] ELSE IF k <= i THEN reps[k - 1] ELSE reps[k]]

\* Which of the four, and how long.
WhichRep(s, i, rest) ==
    IF i = 2 THEN D(<<"isRepG1", s>>, 0) \o rest
    ELSE D(<<"isRepG1", s>>, 1) \o (D(<<"isRepG2", s>>, i - 3) \o rest)

RepDecisions(s, ps, i, len) ==
    D(<<"isRep", s>>, 1)
    \o IF i = 1 THEN D(<<"isRepG0", s>>, 0) \o (D(<<"isRep0Long", s, ps>>, 1) \o Length("repLen", len - MatchMinLen, ps))
       ELSE D(<<"isRepG0", s>>, 1) \o WhichRep(s, i, Length("repLen", len - MatchMinLen, ps))

EncodeRep ==
    /\ Writing /\ TakesRep /\ RepLen(BestRep) > 1
    /\ Write(1, RepDecisions(writer.state, PosState(pos), BestRep, RepLen(BestRep)),
             AfterRep(writer.state), RepsAfter(writer.reps, BestRep), RepLen(BestRep))

ShortRepDecisions(s, ps) ==
    D(<<"isRep", s>>, 1) \o (D(<<"isRepG0", s>>, 0) \o D(<<"isRep0Long", s, ps>>, 0))

EncodeShortRep ==
    /\ Writing /\ TakesRep /\ RepLen(BestRep) = 1
    /\ Write(1, ShortRepDecisions(writer.state, PosState(pos)), AfterShortRep(writer.state), writer.reps, 1)

EndDecisions(s, ps) ==
    D(<<"isMatch", s, ps>>, 1)
    \o (D(<<"isRep", s>>, 0) \o (Length("len", 0, ps) \o Distance(EndMarker, 0)))

EncodeEndMarker ==
    /\ step = "write" /\ pos = Len(text)
    /\ stream' = stream \o EndDecisions(writer.state, PosState(pos))
    /\ step' = "read"
    /\ UNCHANGED <<text, pos, writer, table, reader, taken, back>>

(***************************************************************************)
(* The decoder. A read is [ok, at, v]: decisions read, the last one's value. *)
(***************************************************************************)

\* The next decision, read with the models of ctx.
R(r, ctx) ==
    IF r.ok /\ r.at < Len(stream) /\ stream[r.at + 1].ctx = ctx
    THEN [ok |-> TRUE, at |-> r.at + 1, v |-> stream[r.at + 1].v]
    ELSE [ok |-> FALSE, at |-> r.at, v |-> r.v]

Plus(r, n) == [ok |-> r.ok, at |-> r.at, v |-> n + r.v]

\* lenDecoder.decode.
ReadLong(choice2, coder, ps) ==
    IF choice2.v = 0 THEN Plus(R(choice2, <<coder, "mid", ps>>), Tier)
    ELSE Plus(R(choice2, <<coder, "high">>), 2 * Tier)

ReadLength(r, coder, ps) ==
    LET choice == R(r, <<coder, "choice">>)
    IN  IF choice.v = 0 THEN R(choice, <<coder, "low", ps>>)
        ELSE ReadLong(R(choice, <<coder, "choice2">>), coder, ps)

\* distance; all ones are the end marker.
ReadDirect(slot, base) ==
    LET direct == R(slot, <<"direct">>)
        align == R(direct, <<"align">>)
    IN  IF slot.v = LastSlot /\ direct.v = Ones /\ align.v = Ones THEN [ok |-> align.ok, at |-> align.at, v |-> EndMarker]
        ELSE Plus(align, base + direct.v * Power[AlignBits])

ReadTail(slot) ==
    IF slot.v < 4 THEN slot
    ELSE IF slot.v < ModelSlots THEN Plus(R(slot, <<"posDecoders", Base(slot.v) - slot.v>>), Base(slot.v))
    ELSE ReadDirect(slot, Base(slot.v))

ReadDistance(r, code) == ReadTail(R(r, <<"posSlot", IF code > 3 THEN 3 ELSE code>>))

\* One more bit of a literal, with the i-th of the byte that is expected: the
\* prediction is followed until it is wrong.
NextBit(acc, expected) ==
    LET next == R(acc.r, <<"lit", LitState(back), IF acc.follow THEN 1 + expected ELSE 0, acc.sym>>)
    IN  [r |-> next, sym |-> 2 * acc.sym + next.v, follow |-> acc.follow /\ next.v = expected]

Bits(r) ==
    LET bits[k \in 0 .. ByteWidth] ==
          IF k = 0 THEN [r |-> r, sym |-> 1, follow |-> reader.state >= 7]
          ELSE NextBit(bits[k - 1], Bit(Predicted(reader, back), ByteWidth - k))
    IN  bits

\* literal: the leading one goes.
ReadLiteral(r) ==
    LET last == Bits(r)[ByteWidth]
    IN  [ok |-> last.r.ok, at |-> last.r.at, v |-> last.sym - Power[ByteWidth]]

\* A symbol: what it is, where it ends, which repeat, length and distance.
Found(kind, r, i, len, dist) == [kind |-> kind, r |-> r, i |-> i, len |-> len, dist |-> dist]

FoundMatch(len) ==
    LET dist == ReadDistance(len, len.v)
    IN  Found(IF dist.v = EndMarker THEN "end" ELSE "match", dist, 0, len.v, dist.v)

FoundLong(len, i) == Found("rep", len, i, len.v, 0)

FoundRep(rep, s, ps) ==
    LET g0 == R(rep, <<"isRepG0", s>>)
        long == R(g0, <<"isRep0Long", s, ps>>)
        g1 == R(g0, <<"isRepG1", s>>)
        g2 == R(g1, <<"isRepG2", s>>)
    IN  IF g0.v = 0
        THEN IF long.v = 0 THEN Found("short", long, 1, 1, 0) ELSE FoundLong(ReadLength(long, "repLen", ps), 1)
        ELSE IF g1.v = 0 THEN FoundLong(ReadLength(g1, "repLen", ps), 2)
        ELSE FoundLong(ReadLength(g2, "repLen", ps), IF g2.v = 0 THEN 3 ELSE 4)

Symbol ==
    LET s == reader.state
        ps == PosState(Len(back))
        match == R([ok |-> TRUE, at |-> taken, v |-> 0], <<"isMatch", s, ps>>)
        rep == R(match, <<"isRep", s>>)
    IN  IF match.v = 0 THEN Found("literal", ReadLiteral(match), 0, 1, 0)
        ELSE IF rep.v = 0 THEN FoundMatch(ReadLength(rep, "len", ps))
        ELSE FoundRep(rep, s, ps)

\* copyMatch, a byte at a time: a match may overlap what it makes.
Copied(dist, len) ==
    LET t[i \in 1 .. Len(back) + len] == IF i <= Len(back) THEN back[i] ELSE t[i - dist]
    IN  t

Reads(kind) == step = "read" /\ Symbol.r.ok /\ Symbol.kind = kind

Read(state, reps, now) ==
    /\ reader' = [state |-> state, reps |-> reps] /\ taken' = Symbol.r.at /\ back' = now
    /\ UNCHANGED <<text, pos, writer, table, stream, step>>

DecodeLiteral ==
    /\ Reads("literal")
    /\ Read(AfterLiteral(reader.state), reader.reps, Append(back, Symbol.r.v))

DecodeShortRep ==
    /\ Reads("short") /\ reader.reps[1] < Len(back)
    /\ Read(AfterShortRep(reader.state), reader.reps, Copied(reader.reps[1] + 1, 1))

\* Mutant: the distances are not moved down.
DecodeRepStays ==
    /\ Reads("rep") /\ reader.reps[Symbol.i] < Len(back)
    /\ Read(AfterRep(reader.state), [reader.reps EXCEPT ![1] = reader.reps[Symbol.i]],
            Copied(reader.reps[Symbol.i] + 1, Symbol.len + MatchMinLen))

DecodeRep ==
    /\ Reads("rep") /\ reader.reps[Symbol.i] < Len(back)
    /\ Read(AfterRep(reader.state),
            LET d == reader.reps IN CASE Symbol.i = 1 -> d
                                      [] Symbol.i = 2 -> <<d[2], d[1], d[3], d[4]>>
                                      [] Symbol.i = 3 -> <<d[3], d[1], d[2], d[4]>>
                                      [] OTHER -> <<d[4], d[1], d[2], d[3]>>,
            Copied(reader.reps[Symbol.i] + 1, Symbol.len + MatchMinLen))

DecodeMatch ==
    /\ Reads("match") /\ Symbol.dist < DictSize /\ Symbol.dist < Len(back)
    /\ Read(AfterMatch(reader.state), Pushed(reader.reps, Symbol.dist),
            Copied(Symbol.dist + 1, Symbol.len + MatchMinLen))

DecodeEnd ==
    /\ Reads("end") /\ step' = "end" /\ taken' = Symbol.r.at
    /\ UNCHANGED <<text, pos, writer, table, stream, reader, back>>

Decoding == DecodeLiteral \/ DecodeShortRep \/ DecodeRep \/ DecodeMatch \/ DecodeEnd

LzmaNext ==
    \/ EncodeLiteral \/ EncodeMatch \/ EncodeRep \/ EncodeShortRep \/ EncodeEndMarker
    \/ Decoding
    \/ step = "end" /\ UNCHANGED lzmaVars

LzmaSpec == LzmaInit /\ [][LzmaNext]_lzmaVars

(***************************************************************************)
(* Property.                                                               *)
(***************************************************************************)

\* The decoder never falls out of step with the encoder: what it has decoded is
\* how the text begins, at a stop it is all of it, and the next decision is one
\* it accepts, a distance within the dictionary and within what it has decoded,
\* whatever matches, repeats and overlaps came before.
DecodesBack ==
    /\ step # "write" => Len(back) <= Len(text) /\ back = SubSeq(text, 1, Len(back))
    /\ step = "end" => back = text /\ taken = Len(stream)
    /\ step = "read" =>
         /\ Symbol.r.ok
         /\ Symbol.kind = "match" => Symbol.dist < DictSize /\ Symbol.dist < Len(back)
         /\ Symbol.kind \in {"rep", "short"} => reader.reps[Symbol.i] < Len(back)
=============================================================================
