----------------------------- MODULE MCBytecode -----------------------------
(* Small modules for Decoder: bytes of 3 bits and a flag, words of 2 bytes, *)
(* varints of 7 and of 10 bits, whose last digits have 2 bits to spare.     *)
EXTENDS Decoder, TLC

Leaf == [NoProto EXCEPT !.head = <<2, 1, 0, 0>>, !.code = <<1>>]

ModuleOf(version, types, protos) ==
    [NoModule EXCEPT !.version = version, !.types = types, !.protos = protos]
Source(module, lines) == [module |-> module, lines |-> lines]

TypesOf(version) == IF version < 4 THEN {0} ELSE {1, 3}

\* Constants of every kind, with numbers at the ends of their ranges.
C(tag, args) == [tag |-> tag, args |-> args]
Old == <<C(0, <<>>), C(1, <<1>>), C(2, <<65535>>), C(3, <<127>>), C(4, <<200>>),
         C(5, <<0, 8, 64>>), C(6, <<7>>)>>
Constants(version) ==
    Old \o (IF version >= 5 THEN <<C(7, <<1, 2, 3, 255>>)>> ELSE <<>>)
        \o (IF version >= 7 THEN <<C(8, <<9, 250, 1, 16>>)>> ELSE <<>>)
        \o (IF version >= 8 THEN <<C(9, <<511>>), C(9, <<-512>>), C(9, <<-1>>), C(9, <<0>>)>>
            ELSE <<>>)

Debug == [present |-> TRUE,
          locals |-> <<[name |-> 1, startpc |-> 0, endpc |-> 9, reg |-> 15]>>,
          upvalues |-> <<2, 1>>]

Rich(version) ==
    [NoProto EXCEPT !.head = <<0, 2, 1, 1>>, !.code = <<255, 16>>,
                    !.constants = Constants(version), !.protos = <<0>>,
                    !.lineDefined = 100, !.debugName = 1, !.debug = Debug,
                    !.flags = IF version >= 4 THEN 1 ELSE 0,
                    !.types = IF version >= 4 THEN <<5, 0>> ELSE <<>>]

Full(version, types) ==
    Source([ModuleOf(version, types, <<Leaf, Rich(version)>>) EXCEPT
              !.strings = << <<1, 15>>, <<>>, [i \in 1 .. 9 |-> i] >>,
              !.names = IF types = 3 THEN <<0, 8>> ELSE <<>>, !.main = 1],
           << <<>>, <<3, 70>> >>)

\* A module of one function with one constant.
Plain(version, c) ==
    Source(ModuleOf(version, IF version < 4 THEN 0 ELSE 3, <<[Leaf EXCEPT !.constants = <<c>>]>>),
           << <<9>> >>)

\* Modules of every version, and functions with lines up to 16 apart.
Versions == UNION {{Full(v, t) : t \in TypesOf(v)} : v \in VersionMin .. VersionMax}

FewLines == {2, 9, 10, 17, 18}
Lined == {Source(ModuleOf(9, 1, <<[Leaf EXCEPT !.code = [i \in DOMAIN lines |-> 1]]>>), <<lines>>) :
             lines \in UNION {[1 .. n -> FewLines] : n \in {1, 3, 5}}}

Plains == {Plain(9, C(0, <<>>)), Plain(9, C(9, <<-9>>)), Plain(9, C(8, <<1, 2>>)),
           Plain(5, C(7, <<1, 2, 3, 4>>)), Plain(5, C(5, <<1>>)), Plain(3, C(2, <<600>>)),
           Plain(7, C(6, <<6>>))}

SomeSources == Versions \cup Lined \cup Plains
SomeFrail   == Plains \cup {Full(9, 3)}
AnyChange   == 1 .. ByteSize - 1
=============================================================================
