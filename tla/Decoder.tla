------------------------------- MODULE Decoder -------------------------------
(***************************************************************************)
(* The decoder of pkg/bytecode/decoder.go on what the encoder wrote for a  *)
(* module of the compiler: the whole of it, a beginning of it, or with a   *)
(* byte changed.  What it makes is encoded and decoded a second time.  A   *)
(* step reads one part of the format.                                      *)
(***************************************************************************)
EXTENDS Encoder

CONSTANTS Sources,   \* modules to be: records of a module without lines, and the
                     \* lines of its functions' instructions
          Frail,     \* those that may be cut or changed
          Changes    \* what may be added to a byte

VARIABLES source,   \* what was compiled
          fault,    \* what happened to it: "none", "cut", "changed"
          blob,     \* what is decoded
          pos,      \* the reader's cursor
          at,       \* the part that is read next
          left,     \* how many items of the innermost list are still to come
          protosLeft,
          p,        \* the function that is read
          m,        \* the module that is read
          first     \* what the first pass came to; NoModule during that pass

vars == <<source, fault, blob, pos, at, left, protosLeft, p, m, first>>

-----------------------------------------------------------------------------
(* The builder's part: protoBuilder.build.                                 *)

Build(f, lines) ==
    [f EXCEPT !.head[1] = Max({@, f.head[2] + 1}),
              !.lines   = BuildLineInfo(f.code, lines)]

Module(s) ==
    [s.module EXCEPT !.protos = [i \in DOMAIN @ |-> Build(@[i], s.lines[i])]]

-----------------------------------------------------------------------------
NoProto == [head |-> <<>>, flags |-> 0, types |-> <<>>, code |-> <<>>, constants |-> <<>>,
            protos |-> <<>>, lineDefined |-> 0, debugName |-> 0,
            lines |-> NoLines, debug |-> NoDebug]
NoModule == [version |-> 0, types |-> 0, strings |-> <<>>, names |-> <<>>,
             protos |-> <<>>, main |-> 0]

Reads(kinds)   == ReadAll(blob, pos, kinds)
ListOf(kinds)  == ReadList(blob, pos, kinds)

Failed == at' = "failed" /\ UNCHANGED <<pos, left, protosLeft, p, m>>

\* A part was read, and the next one is where.
Past(r, where) == pos' = r.pos /\ at' = where

\* decode

ReadVersion ==
    /\ at = "version"
    /\ LET r == Reads(<<"byte">>)
       IN  IF r.ok /\ r.vals[1] \in VersionMin .. VersionMax
           THEN /\ Past(r, IF r.vals[1] >= 4 THEN "types" ELSE "strings")
                /\ m' = [m EXCEPT !.version = r.vals[1]]
                /\ UNCHANGED <<left, protosLeft, p>>
           ELSE Failed

ReadTypeVersion ==
    /\ at = "types"
    /\ LET r == Reads(<<"byte">>)
       IN  IF r.ok /\ r.vals[1] \in TypeMin .. TypeMax
           THEN /\ Past(r, "strings")
                /\ m' = [m EXCEPT !.types = r.vals[1]]
                /\ UNCHANGED <<left, protosLeft, p>>
           ELSE Failed

\* The count of a list that is read item by item.
ReadCount(where, items) ==
    /\ at = where
    /\ LET r == Reads(<<"varint">>)
       IN  IF ~r.ok THEN Failed
           ELSE /\ Past(r, items) /\ left' = r.vals[1]
                /\ UNCHANGED <<protosLeft, p, m>>

ReadString ==
    /\ at = "string" /\ left > 0
    /\ LET r == ListOf(<<"byte">>)
       IN  IF ~r.ok THEN Failed
           ELSE /\ Past(r, "string") /\ left' = left - 1
                /\ m' = [m EXCEPT !.strings = Append(@, r.vals)]
                /\ UNCHANGED <<protosLeft, p>>

StringsRead ==
    /\ at = "string" /\ left = 0
    /\ at' = IF m.types = 3 THEN "name" ELSE "protos"
    /\ UNCHANGED <<pos, left, protosLeft, p, m>>

\* The list of names grows to the index.
Named(names, idx, ref) ==
    [i \in 1 .. Max({idx, Len(names)}) |->
        IF i = idx THEN ref ELSE IF i <= Len(names) THEN names[i] ELSE 0]

ReadName ==
    /\ at = "name"
    /\ LET idx == Reads(<<"byte">>)
           r   == Reads(<<"byte", "varint">>)
       IN  IF idx.vals = <<0>>
           THEN Past(idx, "protos") /\ UNCHANGED <<left, protosLeft, p, m>>
           ELSE IF r.ok
           THEN /\ Past(r, "name")
                /\ m' = [m EXCEPT !.names = Named(@, r.vals[1], r.vals[2])]
                /\ UNCHANGED <<left, protosLeft, p>>
           ELSE Failed

ReadProtoCount ==
    /\ at = "protos"
    /\ LET r == Reads(<<"varint">>)
       IN  IF ~r.ok THEN Failed
           ELSE /\ Past(r, "proto") /\ protosLeft' = r.vals[1]
                /\ UNCHANGED <<left, p, m>>

ReadMain ==
    /\ at = "proto" /\ protosLeft = 0
    /\ LET r == Reads(<<"varint">>)
       IN  IF r.ok /\ r.vals[1] < Len(m.protos)
           THEN /\ Past(r, "done")
                /\ m' = [m EXCEPT !.main = r.vals[1]]
                /\ UNCHANGED <<left, protosLeft, p>>
           ELSE Failed

\* decodeProto

ReadHead ==
    /\ at = "proto" /\ protosLeft > 0
    /\ LET head  == Times(4, <<"byte">>) \o (IF m.version >= 4 THEN <<"byte">> ELSE <<>>)
           r     == Reads(head)
           types == ReadList(blob, r.pos, <<"byte">>)
           read  == [NoProto EXCEPT !.head = SubSeq(r.vals, 1, 4)]
       IN  IF ~r.ok \/ (m.version >= 4 /\ ~types.ok) THEN Failed
           ELSE /\ IF m.version >= 4
                   THEN Past(types, "code")
                        /\ p' = [read EXCEPT !.flags = r.vals[5], !.types = types.vals]
                   ELSE Past(r, "code") /\ p' = read
                /\ UNCHANGED <<left, protosLeft, m>>

ReadCode ==
    /\ at = "code"
    /\ LET r == ListOf(<<"word">>)
       IN  IF ~r.ok THEN Failed
           ELSE /\ Past(r, "constants")
                /\ p' = [p EXCEPT !.code = r.vals]
                /\ UNCHANGED <<left, protosLeft, m>>

\* decodeConstant: what follows the tag, and what is made of it.

\* Mutant: a vector is taken in every version.
AllowedVector(tag, version) ==
    /\ tag \in 0 .. 9
    /\ tag = Tag.tableWithConstants => version >= 7
    /\ tag = Tag.integer => version >= 8

Allowed(tag, version) ==
    /\ tag \in 0 .. 9
    /\ tag = Tag.vector => version >= 5
    /\ tag = Tag.tableWithConstants => version >= 7
    /\ tag = Tag.integer => version >= 8

Payload(tag, from) ==
    CASE tag = Tag.nil     -> ReadAll(blob, from, <<>>)
      [] tag = Tag.boolean -> ReadAll(blob, from, <<"byte">>)
      [] tag = Tag.number  -> ReadAll(blob, from, <<"double">>)
      [] tag \in {Tag.string, Tag.closure} -> ReadAll(blob, from, <<"varint">>)
      [] tag = Tag.import  -> ReadAll(blob, from, <<"word">>)
      [] tag = Tag.vector  -> ReadAll(blob, from, Times(4, <<"word">>))
      [] tag = Tag.table   -> ReadList(blob, from, <<"varint">>)
      [] tag = Tag.tableWithConstants -> ReadList(blob, from, <<"varint", "word">>)
      [] tag = Tag.integer -> ReadAll(blob, from, <<"byte", "varint64">>)

Constant(tag, vals) ==
    [tag  |-> tag,
     args |-> CASE tag = Tag.boolean -> <<IF vals[1] = 0 THEN 0 ELSE 1>>
                [] tag = Tag.integer -> <<Signed((IF vals[1] = 0 THEN vals[2] ELSE -vals[2])
                                                 % (2 ^ Width64), 2 ^ Width64)>>
                [] OTHER -> vals]

ReadConstant ==
    /\ at = "constant" /\ left > 0
    /\ LET tag == Reads(<<"byte">>)
           r   == Payload(tag.vals[1], tag.pos)
       IN  IF tag.ok /\ Allowed(tag.vals[1], m.version) /\ r.ok
           THEN /\ Past(r, "constant") /\ left' = left - 1
                /\ p' = [p EXCEPT !.constants = Append(@, Constant(tag.vals[1], r.vals))]
                /\ UNCHANGED <<protosLeft, m>>
           ELSE Failed

ConstantsRead ==
    /\ at = "constant" /\ left = 0
    /\ at' = "children"
    /\ UNCHANGED <<pos, left, protosLeft, p, m>>

ReadChildren ==
    /\ at = "children"
    /\ LET children == ListOf(<<"varint">>)
           r == ReadAll(blob, children.pos, <<"varint", "varint">>)
       IN  IF ~children.ok \/ ~r.ok THEN Failed
           ELSE /\ Past(r, "lines")
                /\ p' = [p EXCEPT !.protos = children.vals,
                                  !.lineDefined = r.vals[1], !.debugName = r.vals[2]]
                /\ UNCHANGED <<left, protosLeft, m>>

\* The sums of numbers[1 .. i].
Sums(numbers) == [i \in DOMAIN numbers |-> FoldLeft(+, 0, SubSeq(numbers, 1, i))]

\* What the numbers behind the gap stand for: offsets that wrap as bytes, and
\* lines that wrap as words.
LineInfo(gap, size, vals) ==
    LET offsets == Sums(SubSeq(vals, 1, size))
        starts  == Sums(SubSeq(vals, size + 1, Len(vals)))
    IN  [gap  |-> gap,
         abs  |-> [i \in DOMAIN starts |-> Signed(starts[i] % WordSize, WordSize)],
         line |-> [i \in DOMAIN offsets |-> Signed(offsets[i] % ByteSize, ByteSize)]]

ReadLines ==
    /\ at = "lines"
    /\ LET flag == Reads(<<"byte">>)
           gap  == ReadAll(blob, flag.pos, <<"byte">>)
           size == Len(p.code)
           r    == ReadAll(blob, gap.pos, Times(size, <<"byte">>)
                                          \o Times(Intervals(size, gap.vals[1]), <<"word">>))
       IN  IF flag.vals = <<0>>
           THEN Past(flag, "debug") /\ UNCHANGED <<left, protosLeft, p, m>>
           ELSE IF flag.ok /\ gap.ok /\ size > 0 /\ r.ok
           THEN /\ Past(r, "debug")
                /\ p' = [p EXCEPT !.lines = LineInfo(gap.vals[1], size, r.vals)]
                /\ UNCHANGED <<left, protosLeft, m>>
           ELSE Failed

Local(vals, i) ==
    [name |-> vals[i], startpc |-> vals[i + 1], endpc |-> vals[i + 2], reg |-> vals[i + 3]]

ReadDebug ==
    /\ at = "debug"
    /\ LET flag     == Reads(<<"byte">>)
           locals   == ReadList(blob, flag.pos, <<"varint", "varint", "varint", "byte">>)
           upvalues == ReadList(blob, locals.pos, <<"varint">>)
           end(r, debug) ==
               /\ Past(r, "proto") /\ protosLeft' = protosLeft - 1
               /\ m' = [m EXCEPT !.protos = Append(@, [p EXCEPT !.debug = debug])]
               /\ p' = NoProto /\ UNCHANGED left
       IN  IF flag.vals = <<0>> THEN end(flag, NoDebug)
           ELSE IF flag.ok /\ locals.ok /\ upvalues.ok
           THEN end(upvalues, [present  |-> TRUE,
                               locals   |-> [i \in 1 .. Len(locals.vals) \div 4 |->
                                                Local(locals.vals, 4 * i - 3)],
                               upvalues |-> upvalues.vals])
           ELSE Failed

Decode ==
    /\ \/ ReadVersion \/ ReadTypeVersion
       \/ ReadCount("strings", "string") \/ ReadString \/ StringsRead \/ ReadName
       \/ ReadProtoCount \/ ReadMain
       \/ ReadHead \/ ReadCode
       \/ ReadCount("constants", "constant") \/ ReadConstant \/ ConstantsRead
       \/ ReadChildren \/ ReadLines \/ ReadDebug
    /\ UNCHANGED <<source, fault, blob, first>>

\* What was made is encoded and decoded again.
Again ==
    /\ at = "done" /\ first = NoModule /\ Encodable(m)
    /\ blob' = Encode(m) /\ first' = m
    /\ pos' = 0 /\ at' = "version" /\ left' = 0 /\ protosLeft' = 0
    /\ p' = NoProto /\ m' = NoModule
    /\ UNCHANGED <<source, fault>>

Init ==
    /\ source \in Sources
    /\ LET whole == Encode(Module(source))
       IN  \/ fault = "none" /\ blob = whole
           \/ /\ fault = "cut" /\ source \in Frail
              /\ \E n \in 0 .. Len(whole) - 1 : blob = SubSeq(whole, 1, n)
           \/ /\ fault = "changed" /\ source \in Frail
              /\ \E i \in DOMAIN whole, d \in Changes :
                    blob = [whole EXCEPT ![i] = (@ + d) % ByteSize]
    /\ pos = 0 /\ at = "version" /\ left = 0 /\ protosLeft = 0
    /\ p = NoProto /\ m = NoModule /\ first = NoModule

Next == Decode \/ Again

Spec == Init /\ [][Next]_vars
-----------------------------------------------------------------------------
(* Type invariant. *)

TypeOK ==
    /\ source \in Sources /\ fault \in {"none", "cut", "changed"}
    /\ blob \in Seq(Bytes) /\ pos \in 0 .. Len(blob)
    /\ left \in Nat /\ protosLeft \in Nat

-----------------------------------------------------------------------------
(* Properties. *)

\* What the compiler built is what the VM loads: every number at its width,
\* every kind of constant, in every version, and nothing is left unread;
\* and no proper beginning of it is taken for a module.
RoundTrips ==
    /\ fault = "none" =>
          /\ at # "failed"
          /\ at = "done" => m = Module(source) /\ pos = Len(blob)
    /\ fault = "cut" => at # "done"

\* Names of userdata types as the map they stand for.
NamesOf(names) == {<<i, names[i]>> : i \in {i \in DOMAIN names : names[i] # 0}}
SameModule(a, b) ==
    /\ NamesOf(a.names) = NamesOf(b.names)
    /\ [a EXCEPT !.names = <<>>] = [b EXCEPT !.names = <<>>]

\* Whatever the decoder accepts, damaged or not, it has understood in the
\* encoder's way: the encoder writes it, and decoding that yields it again,
\* also where a varint carried more bits than it has, a count was changed, or
\* a flag was neither 0 nor 1.
Settles ==
    /\ at = "done" => Encodable(m)
    /\ first # NoModule =>
          /\ at # "failed"
          /\ at = "done" => SameModule(m, first) /\ pos = Len(blob)

\* The line of an instruction survives being packed into a byte's distance from
\* the smallest of its span, written and read (builder.go:296-309), and looking
\* it up gives it, as long as the distance is less than half a byte.
LinesSurvive ==
    fault = "none" /\ at = "done" =>
        \A i \in DOMAIN m.protos : m.protos[i].code # <<>> =>
            \A pc \in 0 .. Len(source.lines[i]) - 1 :
                LET info  == m.protos[i].lines
                    line  == source.lines[i][pc + 1]
                    start == info.abs[(pc \div 2 ^ info.gap) + 1]
                IN  /\ line = start + (info.line[pc + 1] % ByteSize)
                    /\ line - start < Base => LineForPC(info, pc) = line
=============================================================================
