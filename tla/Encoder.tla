------------------------------- MODULE Encoder -------------------------------
(***************************************************************************)
(* A module as bytes, pkg/bytecode/encoder.go.  A module is a record; a    *)
(* constant has a tag and the numbers that follow it, a boolean 0 or 1, an *)
(* integer its signed value, a table of constants its keys and values in a *)
(* row.  A function without line information has NoLines.                  *)
(*                                                                         *)
(* First numbers as bytes, varint.go and the reader of decoder.go: a byte  *)
(* has DigitBits bits of a varint and a flag; the code's constants are 7   *)
(* bits, words of 4 bytes, varints of 32 and of 64 bits.  Then the lines   *)
(* of a function's instructions, as buildLineInfo of compiler/builder.go   *)
(* packs them and lineForPC of vm/debug.go looks them up: a baseline per   *)
(* span of instructions, and a byte per instruction.                       *)
(***************************************************************************)
EXTENDS Integers, Sequences, SequencesExt, FiniteSetsExt

CONSTANTS DigitBits, WordBytes, Width, Width64

ASSUME WireAssumption ==
    /\ DigitBits \in Nat /\ DigitBits >= 3  \* so that versions and tags are bytes
    /\ WordBytes \in Nat \ {0}
    /\ Width \in Nat \ {0} /\ Width64 \in Nat /\ Width64 >= Width

Base     == 2 ^ DigitBits
ByteSize == 2 * Base
Bytes    == 0 .. ByteSize - 1

LittleEndian(v, n) == [i \in 1 .. n |-> (v \div ByteSize ^ (i - 1)) % ByteSize]

WordSize == ByteSize ^ WordBytes
Word(v)   == LittleEndian(v % WordSize, WordBytes)
Double(v) == LittleEndian(v, 2 * WordBytes)

\* A number of size values, as a signed one: int8, int32 and int64 of Go.
Signed(v, size) == IF 2 * v >= size THEN v - size ELSE v

\* How many digits a varint of this width may have.
Digits(width) == (width + DigitBits - 1) \div DigitBits

\* The n digits of v, the lowest first, all but the last with the flag.
WithFlags(v, n) ==
    [i \in 1 .. n |-> IF i = n THEN v \div Base ^ (i - 1)
                      ELSE ((v \div Base ^ (i - 1)) % Base) + Base]

\* Mutant: the least number of two digits is written as one.
VarintShort(v) ==
    WithFlags(v, CHOOSE n \in 1 .. Digits(Width64) :
                     v <= Base ^ n /\ (n = 1 \/ v > Base ^ (n - 1)))

\* varintAppend
Varint(v) ==
    WithFlags(v, CHOOSE n \in 1 .. Digits(Width64) :
                     v < Base ^ n /\ (n = 1 \/ v >= Base ^ (n - 1)))

-----------------------------------------------------------------------------
(* Reading.  What a read returns: whether it succeeded, the values, and    *)
(* the position behind them.                                               *)

Found(vals, pos) == [ok |-> TRUE, vals |-> vals, pos |-> pos]
Broken(pos)      == [ok |-> FALSE, vals |-> <<>>, pos |-> pos]

FoldDigits(src, pos, n) ==
    FoldLeft(LAMBDA v, i : v + (src[pos + i] % Base) * Base ^ (i - 1), 0, [i \in 1 .. n |-> i])

\* Where a varint that starts behind pos may end.
Ends(src, pos, width) ==
    {n \in 1 .. Digits(width) : pos + n <= Len(src) /\ src[pos + n] < Base}

\* varintRead: what the last digit has beyond the width is lost.
ReadVarint(src, pos, width) ==
    LET ends == Ends(src, pos, width)
    IN  IF ends = {} THEN Broken(pos)
        ELSE LET n == CHOOSE n \in ends : \A k \in ends : n <= k
             IN  Found(<<FoldDigits(src, pos, n) % (2 ^ width)>>, pos + n)

ReadFixed(src, pos, n) ==
    IF pos + n > Len(src) THEN Broken(pos)
    ELSE Found(<<FoldLeft(LAMBDA v, i : v + src[pos + i] * ByteSize ^ (i - 1), 0,
                          [i \in 1 .. n |-> i])>>, pos + n)

ReadOne(src, pos, kind) ==
    CASE kind = "byte"     -> ReadFixed(src, pos, 1)
      [] kind = "word"     -> ReadFixed(src, pos, WordBytes)
      [] kind = "double"   -> ReadFixed(src, pos, 2 * WordBytes)
      [] kind = "varint"   -> ReadVarint(src, pos, Width)
      [] kind = "varint64" -> ReadVarint(src, pos, Width64)

\* Several values one behind the other, after what r has read.
ReadMore(src, r, kinds) ==
    FoldLeft(LAMBDA acc, kind :
                 IF ~acc.ok THEN acc
                 ELSE LET one == ReadOne(src, acc.pos, kind)
                      IN  [one EXCEPT !.vals = acc.vals \o one.vals],
             r, kinds)
ReadAll(src, pos, kinds) == ReadMore(src, Found(<<>>, pos), kinds)

Times(n, kinds) == FlattenSeq([i \in 1 .. n |-> kinds])

\* A count, and so many times what kinds says.
ReadList(src, pos, kinds) ==
    LET count == ReadOne(src, pos, "varint")
    IN  IF count.ok THEN ReadAll(src, count.pos, Times(count.vals[1], kinds))
        ELSE count

-----------------------------------------------------------------------------
(* The lines of instructions                                               *)

CONSTANT MaxSpan  \* the span that is tried first, 2^24 in the code

ASSUME SpanAssumption == \E n \in 0 .. MaxSpan : MaxSpan = 2 ^ n

NoLines == [gap |-> 0, abs |-> <<>>, line |-> <<>>]

Log2(n) == CHOOSE k \in 0 .. n : 2 ^ k <= n /\ n < 2 ^ (k + 1)

LinesIn(lines, offset, n) == {lines[i] : i \in offset + 1 .. Min({offset + n, Len(lines)})}

\* Mutant: a span may be one line longer than a byte can tell.
FitsOneMore(lines, offset, n) ==
    LET seen == LinesIn(lines, offset, n) IN Max(seen) - Min(seen) <= ByteSize

\* So many instructions from offset on have lines that a byte can tell apart.
Fits(lines, offset, n) ==
    LET seen == LinesIn(lines, offset, n) IN Max(seen) - Min(seen) <= ByteSize - 1

\* The first pass: from each offset on, the span shrinks to what fits there.
Span(lines) ==
    LET room(offset, span) == Min({span, Len(lines) - offset})
        fit(offset, span)  == Max({n \in 1 .. room(offset, span) : Fits(lines, offset, n)})
        next(offset, span) == IF fit(offset, span) < room(offset, span)
                              THEN 2 ^ Log2(fit(offset, span)) ELSE span
        from[offset \in Nat, span \in 1 .. MaxSpan] ==
            IF offset >= Len(lines) THEN span
            ELSE from[offset + next(offset, span), next(offset, span)]
    IN  from[0, MaxSpan]

BuildLineInfo(code, lines) ==
    IF code = <<>> \/ Len(lines) # Len(code) THEN NoLines
    ELSE LET span == Span(lines)
             abs  == [i \in 1 .. ((Len(lines) - 1) \div span) + 1 |->
                         Min(LinesIn(lines, (i - 1) * span, span))]
             clamped(d) == IF d < 0 THEN 0 ELSE IF d > ByteSize - 1 THEN ByteSize - 1 ELSE d
         IN  [gap  |-> Log2(span),
              abs  |-> abs,
              line |-> [i \in DOMAIN lines |->
                           Signed(clamped(lines[i] - abs[((i - 1) \div span) + 1]), ByteSize)]]

\* lineForPC: pc counts from 0, and 0 is no line.
LineForPC(info, pc) ==
    LET interval == pc \div (2 ^ info.gap)
    IN  IF pc + 1 \notin DOMAIN info.line \/ interval + 1 \notin DOMAIN info.abs THEN 0
        ELSE info.abs[interval + 1] + info.line[pc + 1]

-----------------------------------------------------------------------------
VersionMin == 3
VersionMax == 9
TypeMin == 1
TypeMax == 3

Tag == [nil |-> 0, boolean |-> 1, number |-> 2, string |-> 3, import |-> 4, table |-> 5,
        closure |-> 6, vector |-> 7, tableWithConstants |-> 8, integer |-> 9]

NoDebug == [present |-> FALSE, locals |-> <<>>, upvalues |-> <<>>]

Intervals(size, gap) == ((size - 1) \div 2 ^ gap) + 1

\* What encode refuses.
ConstantFits(c, version) ==
    /\ c.tag = Tag.vector => version >= 5
    /\ c.tag = Tag.tableWithConstants => version >= 7
    /\ c.tag = Tag.integer => version >= 8

LinesFit(p) ==
    p.lines # NoLines => /\ p.code # <<>>
                         /\ Len(p.lines.line) = Len(p.code)
                         /\ Len(p.lines.abs) = Intervals(Len(p.code), p.lines.gap)

Encodable(m) ==
    /\ m.version \in VersionMin .. VersionMax
    /\ m.main < Len(m.protos)
    /\ \A i \in DOMAIN m.protos :
          /\ LinesFit(m.protos[i])
          /\ \A c \in ToSet(m.protos[i].constants) : ConstantFits(c, m.version)

-----------------------------------------------------------------------------
Each(items, Write(_)) == FlattenSeq([i \in DOMAIN items |-> Write(items[i])])
Counted(items, Write(_)) == Varint(Len(items)) \o Each(items, Write)
Raw(bytes) == Counted(bytes, LAMBDA b : <<b>>)

EncodeConstant(c) ==
    <<c.tag>> \o
    CASE c.tag = Tag.nil                  -> <<>>
      [] c.tag = Tag.boolean              -> c.args
      [] c.tag = Tag.number               -> Double(c.args[1])
      [] c.tag \in {Tag.string, Tag.closure} -> Varint(c.args[1])
      [] c.tag \in {Tag.import, Tag.vector}  -> Each(c.args, Word)
      [] c.tag = Tag.table                -> Counted(c.args, Varint)
      [] c.tag = Tag.tableWithConstants   ->
             Varint(Len(c.args) \div 2) \o
             FlattenSeq([i \in DOMAIN c.args |->
                            IF i % 2 = 1 THEN Varint(c.args[i]) ELSE Word(c.args[i])])
      [] c.tag = Tag.integer ->
             IF c.args[1] < 0 THEN <<1>> \o Varint(-c.args[1]) ELSE <<0>> \o Varint(c.args[1])

\* Each number as its difference from the one before.
Differences(numbers) ==
    [i \in DOMAIN numbers |-> numbers[i] - (IF i = 1 THEN 0 ELSE numbers[i - 1])]

EncodeLines(info) ==
    IF info = NoLines THEN <<0>>
    ELSE <<1, info.gap>>
         \o [i \in DOMAIN info.line |-> Differences(info.line)[i] % ByteSize]
         \o Each(Differences(info.abs), Word)

EncodeLocal(l) == Varint(l.name) \o Varint(l.startpc) \o Varint(l.endpc) \o <<l.reg>>

EncodeDebug(d) ==
    IF ~d.present THEN <<0>>
    ELSE <<1>> \o Counted(d.locals, EncodeLocal) \o Counted(d.upvalues, Varint)

EncodeProto(p, version) ==
    p.head
    \o (IF version >= 4 THEN <<p.flags>> \o Raw(p.types) ELSE <<>>)
    \o Counted(p.code, Word)
    \o Counted(p.constants, EncodeConstant)
    \o Counted(p.protos, Varint)
    \o Varint(p.lineDefined) \o Varint(p.debugName)
    \o EncodeLines(p.lines)
    \o EncodeDebug(p.debug)

\* Names of userdata types, without those that are not used.
EncodeNames(names) ==
    FlattenSeq([i \in DOMAIN names |-> IF names[i] = 0 THEN <<>> ELSE <<i>> \o Varint(names[i])])
    \o <<0>>

Encode(m) ==
    <<m.version>>
    \o (IF m.version >= 4 THEN <<m.types>> ELSE <<>>)
    \o Counted(m.strings, Raw)
    \o (IF m.types = 3 THEN EncodeNames(m.names) ELSE <<>>)
    \o Counted(m.protos, LAMBDA p : EncodeProto(p, m.version))
    \o Varint(m.main)
=============================================================================
