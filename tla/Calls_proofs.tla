---------------------------- MODULE Calls_proofs ----------------------------
(***************************************************************************)
(* Theorems about Calls for functions of every shape, calls of every depth *)
(* and every program: no slot outside the slice is used, errors give back  *)
(* what they unwind, open upvalues belong to functions that have not       *)
(* ended.                                                                  *)
(***************************************************************************)
EXTENDS Calls, Lemmas, FiniteSetTheorems

-----------------------------------------------------------------------------
(* The stack                                                               *)

\* A stack whose slice is right, wherever its top is.
Whole(s) ==
    /\ DOMAIN s = {"slots", "len", "top", "ok"} /\ s.ok
    /\ s.len \in Nat /\ s.top \in Nat
    /\ Cap(s) \in Nat /\ s.len <= Cap(s)
    /\ DOMAIN s.slots = 0 .. Cap(s) - 1

Sound(s) == Whole(s) /\ s.top <= s.len

\* The larger of two numbers.
Larger(m, n) == IF m < n THEN n ELSE m

LEMMA CapIs ==
    ASSUME NEW s, NEW c \in Nat, DOMAIN s.slots = 0 .. c - 1
    PROVE  Cap(s) = c
<1>1. Cardinality(0 .. c - 1) = c
  BY FS_Interval
<1> QED BY <1>1 DEF Cap

\* A stack with the same slots.
LEMMA SameSlots ==
    ASSUME NEW s, Whole(s), NEW r, DOMAIN r = {"slots", "len", "top", "ok"}, r.ok,
           r.slots = s.slots, r.len \in 0 .. Cap(s), r.top \in Nat
    PROVE  Whole(r) /\ Cap(r) = Cap(s)
<1>1. Cap(r) = Cap(s)
  BY DEF Cap
<1> QED BY <1>1 DEF Whole

LEMMA Resliced ==
    ASSUME NEW s, Whole(s), NEW n \in 0 .. Cap(s)
    PROVE  LET r == Reslice(s, n)
           IN  /\ Whole(r) /\ Cap(r) = Cap(s)
               /\ r.len = n /\ r.top = s.top /\ r.slots = s.slots
<1> DEFINE r == Reslice(s, n)
<1>1. /\ DOMAIN r = {"slots", "len", "top", "ok"} /\ r.ok
      /\ r.len = n /\ r.top = s.top /\ r.slots = s.slots
  BY DEF Reslice, Whole
<1>2. r.top \in Nat
  BY <1>1 DEF Whole
<1> HIDE DEF r
<1> QED BY <1>1, <1>2, SameSlots DEF r

LEMMA CutShort ==
    ASSUME NEW s, Whole(s), NEW n \in 0 .. Cap(s)
    PROVE  LET r == Cut(s, n)
           IN  /\ Sound(r) /\ Cap(r) = Cap(s)
               /\ r.len = n /\ r.top = n /\ r.slots = s.slots
<1> DEFINE r == Cut(s, n)
<1>1. /\ DOMAIN r = {"slots", "len", "top", "ok"} /\ r.ok
      /\ r.len = n /\ r.top = n /\ r.slots = s.slots
  BY DEF Reslice, Cut, Whole
<1> HIDE DEF r
<1>2. Whole(r) /\ Cap(r) = Cap(s)
  BY <1>1, SameSlots DEF Whole
<1> QED BY <1>1, <1>2 DEF r, Sound

\* Another top.
LEMMA TopMoved ==
    ASSUME NEW s, Whole(s), NEW n \in Nat
    PROVE  LET r == [s EXCEPT !.top = n]
           IN  /\ Whole(r) /\ Cap(r) = Cap(s)
               /\ r.len = s.len /\ r.top = n /\ r.slots = s.slots
<1> DEFINE r == [s EXCEPT !.top = n]
<1>1. /\ DOMAIN r = {"slots", "len", "top", "ok"} /\ r.ok
      /\ r.len = s.len /\ r.top = n /\ r.slots = s.slots
  BY DEF Whole
<1> HIDE DEF r
<1>2. r.len \in 0 .. Cap(s)
  BY <1>1 DEF Whole
<1> QED BY <1>1, <1>2, SameSlots DEF r

LEMMA ExtendedTo ==
    ASSUME NEW s, Whole(s), NEW need \in Nat, NEW room \in Nat, need <= room
    PROVE  LET r == Extended(s, need, room)
           IN  /\ Whole(r) /\ Cap(r) >= Cap(s)
               /\ r.len = Larger(s.len, need) /\ r.top = s.top
<1> DEFINE r == Extended(s, need, room)
<1>1. CASE need <= s.len
  BY <1>1 DEF Extended, Whole, Larger
<1>2. CASE need > s.len /\ need <= Cap(s)
  <2>1. r = Reslice(s, need) /\ need \in 0 .. Cap(s)
    BY <1>2 DEF Extended, Whole
  <2> HIDE DEF r
  <2>2. Whole(r) /\ Cap(r) = Cap(s) /\ r.len = need /\ r.top = s.top
    BY <2>1, Resliced
  <2>3. Whole(r) /\ Cap(r) >= Cap(s) /\ r.len = Larger(s.len, need) /\ r.top = s.top
    BY <1>2, <2>2 DEF Whole, Larger
  <2> QED BY <2>3 DEF r
<1>3. CASE need > s.len /\ need > Cap(s)
  <2>1. r = Grown(s, need, room)
    BY <1>3 DEF Extended, Whole
  <2> HIDE DEF r
  <2>2. /\ DOMAIN r = {"slots", "len", "top", "ok"} /\ r.ok /\ r.len = need
        /\ r.top = s.top /\ DOMAIN r.slots = 0 .. room - 1
    BY <2>1 DEF Grown, Whole
  <2>3. Cap(r) = room
    BY <2>2, CapIs
  <2>4. Whole(r) /\ Cap(r) >= Cap(s) /\ r.len = Larger(s.len, need) /\ r.top = s.top
    BY <1>3, <2>2, <2>3 DEF Whole, Larger
  <2> QED BY <2>4 DEF r
<1> QED BY <1>1, <1>2, <1>3 DEF Whole

LEMMA Reserved ==
    ASSUME NEW s, Whole(s), NEW need \in Nat
    PROVE  LET r == ReserveTo(s, need)
           IN  /\ Whole(r) /\ Cap(r) >= Cap(s)
               /\ r.len = Larger(s.len, need) /\ r.top = s.top
<1> DEFINE room == IF need + need \div 2 < MinCap THEN MinCap ELSE need + need \div 2
<1>1. room \in Nat /\ need <= room
  BY CapAssumption
<1>2. ReserveTo(s, need) = Extended(s, need, room)
  BY DEF ReserveTo
<1> HIDE DEF room
<1> QED BY <1>1, <1>2, ExtendedTo

LEMMA Reframed ==
    ASSUME NEW s, Whole(s), NEW need \in Nat
    PROVE  LET r == Reframe(s, need)
           IN  /\ Whole(r) /\ Cap(r) >= Cap(s)
               /\ r.len = Larger(s.len, need) /\ r.top = s.top
<1> DEFINE room == need + need \div 2
<1>1. room \in Nat /\ need <= room
  OBVIOUS
<1>2. Reframe(s, need) = Extended(s, need, room)
  BY DEF Reframe
<1> HIDE DEF room
<1> QED BY <1>1, <1>2, ExtendedTo

LEMMA Written ==
    ASSUME NEW s, Whole(s), NEW at \in Nat, NEW vals, Len(vals) \in Nat,
           vals = <<>> \/ at + Len(vals) <= s.len
    PROVE  LET r == Write(s, at, vals)
           IN  Whole(r) /\ Cap(r) = Cap(s) /\ r.len = s.len /\ r.top = s.top
<1> DEFINE r == Write(s, at, vals)
<1>1. /\ DOMAIN r = {"slots", "len", "top", "ok"} /\ r.ok
      /\ r.len = s.len /\ r.top = s.top
      /\ DOMAIN r.slots = DOMAIN s.slots \cup at .. at + Len(vals) - 1
  BY DEF Write, Whole
<1>3. at .. at + Len(vals) - 1 \subseteq 0 .. Cap(s) - 1
  <2>1. CASE vals = <<>>
    <3>1. at + Len(vals) - 1 < at
      BY <2>1
    <3> QED BY <3>1
  <2>2. CASE vals # <<>>
    BY <2>2 DEF Whole
  <2> QED BY <2>1, <2>2
<1>5. DOMAIN r.slots = 0 .. Cap(s) - 1 /\ Cap(s) \in Nat
  BY <1>1, <1>3 DEF Whole
<1> HIDE DEF r
<1>6. Cap(r) = Cap(s)
  BY <1>5, CapIs
<1>7. Whole(r) /\ Cap(r) = Cap(s) /\ r.len = s.len /\ r.top = s.top
  BY <1>1, <1>5, <1>6 DEF Whole
<1> QED BY <1>7 DEF r

LEMMA ValuesLen ==
    ASSUME NEW s, NEW from \in Int, NEW n \in Nat
    PROVE  /\ Len(Values(s, from, n)) = n
           /\ n = 0 => Values(s, from, n) = <<>>
           /\ Values(s, from, n) \in Seq({s.slots[j] : j \in Int})
<1> DEFINE S == {s.slots[j] : j \in Int}
<1>1. Values(s, from, n) \in [1 .. n -> S]
  BY DEF Values
<1> HIDE DEF S
<1> QED BY <1>1 DEF S

LEMMA NilsLen ==
    ASSUME NEW n \in Nat
    PROVE  Len(Nils(n)) = n /\ Nils(n) \in Seq(Int)
BY DEF Nils, Nil

LEMMA Copied ==
    ASSUME NEW s, Whole(s), NEW from \in Nat, NEW to \in Nat, NEW n \in Nat,
           from + n <= s.len, to + n <= s.len
    PROVE  LET r == Copy(s, from, to, n)
           IN  Whole(r) /\ Cap(r) = Cap(s) /\ r.len = s.len /\ r.top = s.top
<1> DEFINE w == Write(s, to, Values(s, from, n))
           r == Copy(s, from, to, n)
<1>1. Len(Values(s, from, n)) = n /\ (n = 0 => Values(s, from, n) = <<>>)
  BY ValuesLen, from \in Int
<1>2. Whole(w) /\ Cap(w) = Cap(s) /\ w.len = s.len /\ w.top = s.top
  <2> DEFINE vals == Values(s, from, n)
  <2>1. Len(vals) \in Nat /\ (vals = <<>> \/ to + Len(vals) <= s.len)
    BY <1>1
  <2> HIDE DEF vals
  <2>2. LET x == Write(s, to, vals)
        IN  Whole(x) /\ Cap(x) = Cap(s) /\ x.len = s.len /\ x.top = s.top
    BY <2>1, Written
  <2> QED BY <2>2 DEF vals
<1> HIDE DEF w
<1>3. /\ DOMAIN r = {"slots", "len", "top", "ok"} /\ r.ok
      /\ r.len = w.len /\ r.top = w.top /\ r.slots = w.slots
  BY <1>2 DEF Copy, Whole, w
<1>4. r.len \in 0 .. Cap(w) /\ r.top \in Nat
  BY <1>2, <1>3 DEF Whole
<1> HIDE DEF r
<1>5. Whole(r) /\ Cap(r) = Cap(w)
  BY <1>2, <1>3, <1>4, SameSlots
<1> QED BY <1>2, <1>3, <1>5 DEF r

LEMMA Pushed ==
    ASSUME NEW s, Whole(s), NEW v
    PROVE  LET r == Push(s, v)
           IN  /\ Whole(r) /\ Cap(r) >= Cap(s)
               /\ r.len = Larger(s.len, s.top + 1) /\ r.top = s.top + 1
<1> DEFINE a == ReserveTo(s, s.top + 1)
           w == Write(a, s.top, <<v>>)
           r == Push(s, v)
<1>0. s.top \in Nat /\ s.top + 1 \in Nat
  BY DEF Whole
<1>1. Whole(a) /\ Cap(a) >= Cap(s) /\ a.len = Larger(s.len, s.top + 1) /\ a.top = s.top
  BY <1>0, Reserved
<1> HIDE DEF a
<1>2. Len(<<v>>) = 1 /\ s.top + 1 <= a.len
  BY <1>1 DEF Larger, Whole
<1>3. Whole(w) /\ Cap(w) = Cap(a) /\ w.len = a.len /\ w.top = a.top
  BY <1>0, <1>1, <1>2, Written
<1>4. r = [w EXCEPT !.top = w.top + 1]
  BY DEF Push, a
<1> HIDE DEF w, r
<1>5. w.top + 1 \in Nat
  BY <1>0, <1>1, <1>3
<1>6. Whole(r) /\ Cap(r) = Cap(w) /\ r.len = w.len /\ r.top = w.top + 1
  BY <1>3, <1>4, <1>5, TopMoved
<1> QED BY <1>1, <1>3, <1>6 DEF r, Whole
-----------------------------------------------------------------------------
(* The stack of a function that is entered                                 *)

FunctionSet ==
    {f \in [kind : {"lua", "go", "quiet", "pcall", "xpcall"}, params : Nat,
            vararg : BOOLEAN, max : Nat, meta : BOOLEAN] :
        f.kind = "lua" => f.params <= f.max}

\* Appending sequences of values.
LEMMA Appends ==
    ASSUME NEW S, NEW T, NEW a \in Seq(S), NEW b \in Seq(T)
    PROVE  Len(a \o b) = Len(a) + Len(b) /\ Len(a) \in Nat /\ Len(b) \in Nat
<1>1. a \in Seq(S \cup T) /\ b \in Seq(S \cup T)
  <2>1. S \subseteq S \cup T /\ T \subseteq S \cup T
    OBVIOUS
  <2> QED BY <2>1, SeqMonotonic
<1> QED BY <1>1, ConcatProperties, LenProperties

LEMMA PaddedStack ==
    ASSUME NEW s, Sound(s), NEW at \in Nat, NEW nargs \in Nat, at + 1 + nargs <= s.len,
           NEW f \in FunctionSet
    PROVE  LET r == Padded(s, at, nargs, f)
           IN  /\ Sound(r) /\ Cap(r) >= Cap(s)
               /\ at + 1 + Larger(nargs, f.params) <= r.len
<1> DEFINE r == Padded(s, at, nargs, f)
<1>0. f.params \in Nat /\ Whole(s) /\ Cap(s) \in Nat
  BY DEF FunctionSet, Sound, Whole
<1>1. CASE nargs >= f.params
  BY <1>0, <1>1 DEF Padded, Larger
<1>2. CASE nargs < f.params
  <2> DEFINE a == ReserveTo(s, at + 1 + f.params)
             vals == Nils(f.params - nargs)
             w == Write(a, at + 1 + nargs, vals)
  <2>1. r = Cut(w, at + 1 + f.params)
    BY <1>0, <1>2 DEF Padded
  <2>2. at + 1 + f.params \in Nat /\ at + 1 + nargs \in Nat /\ f.params - nargs \in Nat
    BY <1>0, <1>2
  <2>3. Whole(a) /\ Cap(a) >= Cap(s) /\ a.len = Larger(s.len, at + 1 + f.params)
    BY <1>0, <2>2, Reserved
  <2>4. Len(vals) = f.params - nargs
    BY <2>2, NilsLen
  <2> HIDE DEF r, a, vals
  <2>5. s.len \in Nat /\ a.len \in Nat /\ Cap(a) \in Nat /\ a.len <= Cap(a)
    BY <1>0, <2>3 DEF Whole
  <2>6. at + 1 + f.params <= a.len
    BY <2>2, <2>3, <2>5 DEF Larger
  <2>7. Len(vals) \in Nat /\ at + 1 + nargs + Len(vals) <= a.len
    BY <1>0, <2>2, <2>4, <2>6
  <2>8. Whole(w) /\ Cap(w) = Cap(a)
    BY <2>2, <2>3, <2>7, Written
  <2> HIDE DEF w
  <2>9. at + 1 + f.params \in 0 .. Cap(w)
    BY <2>2, <2>5, <2>6, <2>8
  <2>10. Sound(r) /\ Cap(r) = Cap(w) /\ r.len = at + 1 + f.params
    BY <2>1, <2>8, <2>9, CutShort
  <2>11. Larger(nargs, f.params) = f.params
    BY <1>2 DEF Larger
  <2> QED BY <1>0, <2>2, <2>3, <2>8, <2>10, <2>11 DEF r
<1> QED BY <1>0, <1>1, <1>2

\* Cutting the stack at a place that may be beyond its top.
LEMMA ToppedUp ==
    ASSUME NEW s, Sound(s), NEW n \in Nat
    PROVE  LET r == IF n > s.top THEN Cut(ReserveTo(s, n), n) ELSE s
           IN  /\ Sound(r) /\ Cap(r) >= Cap(s) /\ n <= r.top
               /\ n > s.top => r.top = n
               /\ n <= s.top => r = s
<1>0. Whole(s) /\ s.top \in Nat /\ s.len \in Nat /\ Cap(s) \in Nat
  BY DEF Sound, Whole
<1>1. CASE n > s.top
  <2> DEFINE a == ReserveTo(s, n)
             r == Cut(a, n)
  <2>1. Whole(a) /\ Cap(a) >= Cap(s) /\ a.len = Larger(s.len, n)
    BY <1>0, Reserved
  <2> HIDE DEF a
  <2>2. n \in 0 .. Cap(a)
    BY <1>0, <2>1 DEF Larger, Whole
  <2>3. Sound(r) /\ Cap(r) = Cap(a) /\ r.top = n
    BY <2>1, <2>2, CutShort
  <2> QED BY <1>0, <1>1, <2>1, <2>3 DEF a
<1>2. CASE n <= s.top
  BY <1>0, <1>2
<1> QED BY <1>0, <1>1, <1>2

LEMMA ShiftedStack ==
    ASSUME NEW s, Sound(s), NEW at \in Nat, NEW nargs \in Nat, at + 1 + nargs <= s.len,
           NEW f \in FunctionSet, NEW extra \in Nat, extra = 0 \/ extra + f.params = nargs
    PROVE  LET r == Shifted(s, at, nargs, extra, f)
           IN  Sound(r) /\ Cap(r) >= Cap(s)
<1> DEFINE n == at + 1 + nargs
           a == IF n > s.top THEN Cut(ReserveTo(s, n), n) ELSE s
           u == Values(a, at + 1 + f.params, extra)
           v == Values(a, at + 1, f.params)
           w == Write(a, at + 1, u \o v)
<1>0. Whole(s) /\ f.params \in Nat /\ n \in Nat /\ Cap(s) \in Nat
  BY DEF FunctionSet, Sound, Whole
<1>1. CASE extra = 0
  BY <1>0, <1>1 DEF Shifted
<1>2. CASE extra # 0
  <2>1. Shifted(s, at, nargs, extra, f) = w
    BY <1>2 DEF Shifted
  <2>2. Sound(a) /\ Cap(a) >= Cap(s) /\ n <= a.top
    BY <1>0, ToppedUp
  <2> HIDE DEF a
  <2>3. /\ Len(u) = extra /\ u \in Seq({a.slots[j] : j \in Int})
        /\ Len(v) = f.params /\ v \in Seq({a.slots[j] : j \in Int})
    BY <1>0, ValuesLen, at + 1 \in Int, at + 1 + f.params \in Int, SMTT(30)
  <2> DEFINE vals == u \o v
  <2>4. Len(vals) = extra + f.params
    <3> DEFINE S == {a.slots[j] : j \in Int}
    <3> HIDE DEF u, v, S
    <3>1. u \in Seq(S) /\ v \in Seq(S)
      BY <2>3 DEF S
    <3>2. Len(u \o v) = Len(u) + Len(v)
      BY <3>1, Appends
    <3> QED BY <2>3, <3>2
  <2> HIDE DEF vals
  <2>5. Len(vals) \in Nat /\ at + 1 + Len(vals) <= a.len
    BY <1>0, <1>2, <2>2, <2>4 DEF Sound, Whole
  <2>6. Whole(a) /\ at + 1 \in Nat
    BY <2>2 DEF Sound
  <2>7. LET x == Write(a, at + 1, vals)
        IN  Whole(x) /\ Cap(x) = Cap(a) /\ x.len = a.len /\ x.top = a.top
    BY <2>5, <2>6, Written
  <2>8. Whole(w) /\ Cap(w) = Cap(a) /\ w.len = a.len /\ w.top = a.top
    BY <2>7 DEF vals
  <2> HIDE DEF w
  <2> QED BY <2>1, <2>2, <2>8 DEF Sound
<1> QED BY <1>1, <1>2

LEMMA ClearedStack ==
    ASSUME NEW s, Sound(s), NEW n \in Nat
    PROVE  LET r == Cleared(s, n)
           IN  Sound(r) /\ Cap(r) >= Cap(s) /\ n <= r.len
<1>0. Whole(s) /\ s.top \in Nat /\ s.len \in Nat /\ Cap(s) \in Nat /\ s.top <= s.len
  BY DEF Sound, Whole
<1>1. CASE n <= s.top
  BY <1>0, <1>1 DEF Cleared
<1>2. CASE n > s.top
  <2> DEFINE a == ReserveTo(s, n)
             vals == Nils(n - s.top)
             w == Write(a, s.top, vals)
             r == [w EXCEPT !.top = n]
  <2>1. Cleared(s, n) = r
    BY <1>0, <1>2 DEF Cleared
  <2>2. Whole(a) /\ Cap(a) >= Cap(s) /\ a.len = Larger(s.len, n)
    BY <1>0, Reserved
  <2>0. n - s.top \in Nat
    BY <1>0, <1>2
  <2>3. Len(vals) = n - s.top
    BY <2>0, NilsLen
  <2> HIDE DEF a, vals
  <2>4. Len(vals) \in Nat /\ s.top + Len(vals) <= a.len /\ n <= a.len
    BY <1>0, <2>0, <2>2, <2>3 DEF Larger
  <2>5. Whole(w) /\ Cap(w) = Cap(a) /\ w.len = a.len
    BY <1>0, <2>2, <2>4, Written
  <2> HIDE DEF w
  <2>6. Whole(r) /\ Cap(r) = Cap(w) /\ r.len = w.len /\ r.top = n
    BY <2>5, TopMoved
  <2> HIDE DEF r
  <2> QED BY <2>1, <2>2, <2>4, <2>5, <2>6 DEF Sound
<1> QED BY <1>0, <1>1, <1>2

LEMMA ShiftedInStack ==
    ASSUME NEW s, Sound(s), NEW at \in Nat, NEW nargs \in Nat, at + 1 + nargs <= s.len
    PROVE  LET r == ShiftedIn(s, at, nargs)
           IN  Sound(r) /\ Cap(r) >= Cap(s) /\ at + 1 + (nargs + 1) <= r.len
<1> DEFINE end == at + 1 + nargs
           a == IF end + 1 > s.len THEN ReserveTo(s, end + 1) ELSE s
           vals == <<Metamethod>> \o Values(a, at, nargs + 1)
           w == Write(a, at, vals)
           top == IF end + 1 > w.top THEN end + 1 ELSE w.top
           r == [w EXCEPT !.top = top]
<1>0. Whole(s) /\ s.top \in Nat /\ s.len \in Nat /\ Cap(s) \in Nat /\ s.top <= s.len
  BY DEF Sound, Whole
<1>1. ShiftedIn(s, at, nargs) = r
  BY DEF ShiftedIn
<1>2. /\ Whole(a) /\ Cap(a) >= Cap(s) /\ a.top = s.top
      /\ end + 1 <= a.len /\ s.len <= a.len /\ a.len \in Nat
  <2>1. end + 1 \in Nat
    OBVIOUS
  <2>2. CASE end + 1 > s.len
    <3>1. /\ Whole(ReserveTo(s, end + 1)) /\ Cap(ReserveTo(s, end + 1)) >= Cap(s)
          /\ ReserveTo(s, end + 1).len = Larger(s.len, end + 1)
          /\ ReserveTo(s, end + 1).top = s.top
      BY <1>0, <2>1, Reserved
    <3> QED BY <1>0, <2>1, <2>2, <3>1 DEF Larger
  <2>3. CASE end + 1 <= s.len
    BY <1>0, <2>3
  <2> QED BY <1>0, <2>1, <2>2, <2>3
<1> HIDE DEF a
<1>3. Len(vals) = nargs + 2
  <2>1. /\ Len(Values(a, at, nargs + 1)) = nargs + 1
        /\ Values(a, at, nargs + 1) \in Seq({a.slots[j] : j \in Int})
    BY ValuesLen, at \in Int, nargs + 1 \in Nat
  <2>2. <<Metamethod>> \in Seq(Int) /\ Len(<<Metamethod>>) = 1
    BY DEF Metamethod
  <2> QED BY <2>1, <2>2, Appends
<1> HIDE DEF vals
<1>4. Len(vals) \in Nat /\ at + Len(vals) <= a.len
  BY <1>2, <1>3
<1>5. Whole(w) /\ Cap(w) = Cap(a) /\ w.len = a.len /\ w.top = a.top
  BY <1>2, <1>4, Written
<1> HIDE DEF w
<1>6. top \in Nat /\ top <= w.len
  BY <1>0, <1>2, <1>5
<1> HIDE DEF top
<1>7. Whole(r) /\ Cap(r) = Cap(w) /\ r.len = w.len /\ r.top = top
  BY <1>5, <1>6, TopMoved
<1> HIDE DEF r
<1> QED BY <1>1, <1>2, <1>5, <1>6, <1>7 DEF Sound
\* A call of what is at slot at: a frame on a stack that suits it, or a panic.
Entered(s, fs, at, want, f) ==
    \E s1, extra :
       /\ Sound(s1) /\ Cap(s1) >= Cap(s) /\ extra \in Nat
       /\ Len(fs) >= MaxDepth => Throw(s1, fs, Overflow)
       /\ Len(fs) < MaxDepth =>
             /\ PushFrame(s1, fs, Frame(f, at + 1 + extra, want, extra))
             /\ f.kind = "lua" => at + 1 + extra + f.max <= s1.len
             /\ f.kind # "lua" => extra = 0 /\ s1.top = s1.len /\ at + 1 <= s1.top

LEMMA LuaEntered ==
    ASSUME NEW s, Sound(s), NEW at \in Nat, NEW nargs \in Nat, at + 1 + nargs <= s.len,
           NEW f \in FunctionSet, f.kind = "lua", NEW fs, Len(fs) \in Nat, NEW want,
           CallLua(s, fs, at, nargs, want, f)
    PROVE  Entered(s, fs, at, want, f)
<1> DEFINE n     == IF nargs < f.params THEN f.params ELSE nargs
           extra == IF f.vararg THEN n - f.params ELSE 0
           base  == at + 1 + extra
           s1    == Padded(s, at, nargs, f)
           s2    == Shifted(s1, at, n, extra, f)
           m     == base + (IF f.vararg THEN f.params ELSE n)
           s3    == Covered(s2, m)
           s4    == Cleared(s3, base + f.max)
<1>1. /\ f.params \in Nat /\ f.max \in Nat /\ n \in Nat /\ extra \in Nat /\ base \in Nat
      /\ m \in Nat /\ n = Larger(nargs, f.params)
      /\ extra = 0 \/ extra + f.params = n
  BY DEF FunctionSet, Larger
<1>2. IF Len(fs) >= MaxDepth THEN Throw(s4, fs, Overflow)
      ELSE PushFrame(s4, fs, Frame(f, base, want, extra))
  BY DEF CallLua
<1> HIDE DEF n, extra, m
<1>3. Sound(s1) /\ Cap(s1) >= Cap(s) /\ at + 1 + n <= s1.len
  BY <1>1, PaddedStack
<1> HIDE DEF s1
<1>4. Sound(s2) /\ Cap(s2) >= Cap(s1)
  BY <1>1, <1>3, ShiftedStack
<1> HIDE DEF s2
<1>5. Sound(s3) /\ Cap(s3) >= Cap(s2)
  BY <1>1, <1>4, ToppedUp DEF Covered
<1> HIDE DEF s3
<1>6. Sound(s4) /\ Cap(s4) >= Cap(s3) /\ base + f.max <= s4.len
  <2>1. base \in Nat /\ f.max \in Nat
    BY <1>1
  <2> HIDE DEF base
  <2>2. base + f.max \in Nat
    BY <2>1
  <2> QED BY <1>5, <2>2, ClearedStack
<1>7. /\ Cap(s) \in Nat /\ Cap(s1) \in Nat /\ Cap(s2) \in Nat /\ Cap(s3) \in Nat
      /\ Cap(s4) \in Nat
  BY <1>3, <1>4, <1>5, <1>6 DEF Sound, Whole
<1> HIDE DEF s4
<1>8. Cap(s4) >= Cap(s)
  BY <1>3, <1>4, <1>5, <1>6, <1>7
<1>9. MaxDepth \in Nat
  BY CallsAssumption
<1>10. /\ Len(fs) >= MaxDepth => Throw(s4, fs, Overflow)
       /\ Len(fs) < MaxDepth => PushFrame(s4, fs, Frame(f, at + 1 + extra, want, extra))
  BY <1>2, <1>9
<1>11. at + 1 + extra + f.max <= s4.len
  BY <1>6
<1> QED BY <1>1, <1>6, <1>8, <1>10, <1>11 DEF Entered

LEMMA GoEntered ==
    ASSUME NEW s, Sound(s), NEW at \in Nat, NEW nargs \in Nat, at + 1 + nargs <= s.len,
           NEW f \in FunctionSet, f.kind # "lua", NEW fs, Len(fs) \in Nat, NEW want,
           CallGo(s, fs, at, nargs, want, f)
    PROVE  Entered(s, fs, at, want, f)
<1>0. MaxDepth \in Nat /\ Whole(s) /\ Cap(s) \in Nat /\ s.len \in Nat /\ s.len <= Cap(s)
  BY CallsAssumption DEF Sound, Whole
<1>1. CASE Len(fs) >= MaxDepth
  <2>1. Throw(s, fs, Overflow) /\ ~(Len(fs) < MaxDepth) /\ Cap(s) >= Cap(s) /\ 0 \in Nat
    BY <1>0, <1>1 DEF CallGo
  <2> QED BY <2>1 DEF Entered
<1>2. CASE Len(fs) < MaxDepth
  <2> DEFINE s1 == Cut(s, at + 1 + nargs)
  <2>1. PushFrame(s1, fs, Frame(f, at + 1, want, 0))
    BY <1>0, <1>2 DEF CallGo
  <2>2. Sound(s1) /\ Cap(s1) = Cap(s) /\ s1.len = at + 1 + nargs /\ s1.top = at + 1 + nargs
    BY <1>0, CutShort, at + 1 + nargs \in 0 .. Cap(s)
  <2> HIDE DEF s1
  <2>3. /\ Sound(s1) /\ Cap(s1) >= Cap(s) /\ s1.top = s1.len /\ at + 1 <= s1.top
        /\ 0 \in Nat /\ at + 1 + 0 = at + 1 /\ ~(Len(fs) >= MaxDepth)
    BY <1>0, <1>2, <2>2
  <2> QED BY <2>1, <2>3 DEF Entered
<1> QED BY <1>0, <1>1, <1>2

LEMMA ValueEntered ==
    ASSUME NEW s, Sound(s), NEW at \in Nat, NEW nargs \in Nat, at + 1 + nargs <= s.len,
           NEW f \in FunctionSet, NEW fs, Len(fs) \in Nat, NEW want,
           CallValue(s, fs, at, nargs, want, f)
    PROVE  Entered(s, fs, at, want, f)
<1>1. ASSUME NEW s0, Sound(s0), Cap(s0) >= Cap(s), NEW nargs0 \in Nat,
             at + 1 + nargs0 <= s0.len, CallFunction(s0, fs, at, nargs0, want, f)
      PROVE  Entered(s, fs, at, want, f)
  <2>1. Entered(s0, fs, at, want, f)
    BY <1>1, LuaEntered, GoEntered DEF CallFunction
  <2>2. Cap(s) \in Nat /\ Cap(s0) \in Nat
    BY <1>1 DEF Sound, Whole
  <2>3. PICK s1, extra :
          /\ Sound(s1) /\ Cap(s1) >= Cap(s0) /\ extra \in Nat
          /\ Len(fs) >= MaxDepth => Throw(s1, fs, Overflow)
          /\ Len(fs) < MaxDepth =>
                /\ PushFrame(s1, fs, Frame(f, at + 1 + extra, want, extra))
                /\ f.kind = "lua" => at + 1 + extra + f.max <= s1.len
                /\ f.kind # "lua" => extra = 0 /\ s1.top = s1.len /\ at + 1 <= s1.top
    BY <2>1 DEF Entered
  <2>4. Cap(s1) >= Cap(s)
    BY <1>1, <2>2, <2>3, SMTT(30) DEF Sound, Whole
  <2> QED BY <2>3, <2>4 DEF Entered
<1>2. CASE f.meta
  <2>1. CallFunction(ShiftedIn(s, at, nargs), fs, at, nargs + 1, want, f)
    BY <1>2 DEF CallValue
  <2> DEFINE s0 == ShiftedIn(s, at, nargs)
  <2>2. Sound(s0) /\ Cap(s0) >= Cap(s) /\ at + 1 + (nargs + 1) <= s0.len
    BY ShiftedInStack
  <2> HIDE DEF s0
  <2> QED BY <1>1, <2>1, <2>2, nargs + 1 \in Nat DEF s0
<1>3. CASE ~f.meta
  <2>1. CallFunction(s, fs, at, nargs, want, f)
    BY <1>3 DEF CallValue
  <2>2. Cap(s) >= Cap(s)
    BY DEF Sound, Whole
  <2> QED BY <1>1, <2>1, <2>2
<1> QED BY <1>2, <1>3
-----------------------------------------------------------------------------
(* The frames                                                              *)

Kinds  == {"host", "lua", "go", "quiet", "pcall", "xpcall"}
Phases == {"run", "called", "handling", "caught", "ready", "ok", "failed", "errerr"}
WantSet == Nat \cup {Multi}

FrameSet ==
    [kind : Kinds, base : Nat, want : WantSet, nvar : Nat, max : Nat, vararg : BOOLEAN,
     live : Nat, open : BOOLEAN, phase : Phases, op : {"call", "operator", "iterate"},
     at : Nat, top : Nat, len : Nat, savedBase : Nat, err : Int]

\* Where the call that a frame waits for is: a handler's call is above the
\* error it handles.
Place(f) == IF f.phase = "handling" THEN f.at + 1 ELSE f.at

\* A frame that waits for a call.
Waits(s, f) ==
    /\ f.base <= f.at /\ ~f.open
    /\ f.kind = "lua" =>
          /\ f.phase = "run" /\ f.live <= f.max
          /\ f.op = "call" => f.at = f.base + f.live
          /\ f.op # "call" => f.live < f.max /\ f.base + f.live + 1 <= f.at
          /\ f.op = "operator" =>
                f.base + f.max <= f.len /\ f.top <= f.len /\ f.len <= Cap(s)
    /\ f.kind # "lua" => f.at + 1 <= Cap(s)
    /\ f.kind \in {"go", "quiet"} => f.phase = "run"
    /\ f.kind \in {"host", "pcall"} => f.phase = "called"
    /\ f.kind = "xpcall" => f.phase \in {"called", "handling"} /\ f.at = f.base + 1
    /\ f.kind = "pcall" => f.at = f.base

\* A frame that does not wait.
Runs(s, f) ==
    /\ f.kind = "lua" =>
          /\ f.phase = "run" /\ f.live <= f.max /\ f.base + f.max <= s.len
          /\ f.open => f.base + f.live <= s.top
    /\ f.kind # "lua" => s.top = s.len /\ f.base <= s.top /\ ~f.open
    /\ f.kind \in {"go", "quiet", "host"} => f.phase = "run"
    /\ f.kind = "pcall" =>
          f.phase \in {"run", "ok", "failed"} /\ (f.phase # "run" => f.at = f.base)
    /\ f.kind = "xpcall" =>
          /\ f.phase \in {"run", "caught", "ready", "ok", "failed", "errerr"}
          /\ f.phase # "run" => f.at = f.base + 1 /\ f.at <= s.top
          /\ f.phase \in {"caught", "ready", "failed", "errerr"} => s.top = f.at + 1

\* The frame c is that of the call that f waits for.
InPlace(f, c) ==
    /\ c.base = Place(f) + 1 + c.nvar
    /\ f.phase = "handling" \/ (f.kind = "lua" /\ f.op # "call") => c.want = 1
    /\ f.kind = "lua" /\ f.op = "call" /\ c.want # Multi => f.live + c.want <= f.max

\* What a Go function finds as its values, as of the first n frames.
BaseOf(fs, n) == fs[Largest({j \in 1 .. n : fs[j].kind # "lua"})].base

OneHost(fs) ==
    \A i \in 1 .. Len(fs) : /\ fs[i].kind = "host" <=> i = 1
                            /\ fs[i].kind # "lua" => fs[i].nvar = 0
Waiting(s, fs) == \A i \in 1 .. Len(fs) - 1 : Waits(s, fs[i])
Linked(fs)     == \A i \in 1 .. Len(fs) - 1 : InPlace(fs[i], fs[i + 1])
Layered(fs) ==
    \A i, j \in 1 .. Len(fs) : i < j => Place(fs[i]) + 1 <= fs[j].base - fs[j].nvar
Saved(fs) ==
    \A i \in 2 .. Len(fs) : fs[i].kind # "lua" => fs[i].savedBase = BaseOf(fs, i - 1)

\* Frames as they are but for the last one.
Stands(s, fs) ==
    /\ Sound(s)
    /\ fs \in Seq(FrameSet) /\ Len(fs) \in 1 .. MaxDepth
    /\ OneHost(fs) /\ Waiting(s, fs) /\ Linked(fs) /\ Layered(fs) /\ Saved(fs)

Handlers(fs) == {i \in 1 .. Len(fs) : fs[i].phase \in {"ready", "handling"}}
Quiets(fs)   == {i \in 1 .. Len(fs) : fs[i].kind = "quiet"}

Counted(fs, base, quiet, handling) ==
    /\ base = BaseOf(fs, Len(fs))
    /\ handling = Cardinality(Handlers(fs))
    /\ quiet = Cardinality(Handlers(fs)) + Cardinality(Quiets(fs))

FramesInv ==
    /\ Stands(k, frames)
    /\ Runs(k, frames[Len(frames)])
    /\ Counted(frames, callBase, nonyieldable, inErrHandler)

-----------------------------------------------------------------------------
(* Sequences of frames                                                     *)

LEMMA PrefixAnd ==
    ASSUME NEW S, NEW fs \in Seq(S), NEW p \in 1 .. Len(fs), NEW g \in S
    PROVE  LET gs == Append(SubSeq(fs, 1, p - 1), g)
           IN  /\ gs \in Seq(S) /\ Len(gs) = p /\ gs[p] = g
               /\ \A i \in 1 .. p - 1 : gs[i] = fs[i]
<1> DEFINE a == SubSeq(fs, 1, p - 1)
<1>1. Len(fs) \in Nat /\ \A i \in 1 .. p - 1 : fs[i] \in S
  BY LenProperties, ElementOfSeq
<1>2. a \in Seq(S) /\ Len(a) = p - 1 /\ \A i \in 1 .. p - 1 : a[i] = fs[i]
  BY <1>1, SubSeqProperties
<1> HIDE DEF a
<1>3. p - 1 \in Nat /\ p = Len(a) + 1
  BY <1>1, <1>2
<1>4. LET gs == Append(a, g)
      IN  /\ gs \in Seq(S) /\ Len(gs) = p /\ gs[p] = g
          /\ \A i \in 1 .. p - 1 : gs[i] = fs[i]
  BY <1>1, <1>2, <1>3, AppendProperties
<1> QED BY <1>4 DEF a

LEMMA CallerAnd ==
    ASSUME NEW S, NEW fs \in Seq(S), Len(fs) # 0, NEW g \in S
    PROVE  LET gs == Caller(fs, g)
           IN  /\ gs \in Seq(S) /\ Len(gs) = Len(fs) /\ gs[Len(fs)] = g
               /\ \A i \in 1 .. Len(fs) - 1 : gs[i] = fs[i]
<1>1. Len(fs) \in 1 .. Len(fs)
  BY LenProperties
<1> QED BY <1>1, PrefixAnd DEF Caller

LEMMA AppendAnd ==
    ASSUME NEW S, NEW fs \in Seq(S), NEW g \in S
    PROVE  LET gs == Append(fs, g)
           IN  /\ gs \in Seq(S) /\ Len(gs) = Len(fs) + 1 /\ gs[Len(fs) + 1] = g
               /\ \A i \in 1 .. Len(fs) : gs[i] = fs[i]
BY AppendProperties, LenProperties

LEMMA LargestIs ==
    ASSUME NEW n \in Nat, NEW S, S \subseteq 1 .. n, S # {}
    PROVE  Largest(S) \in S /\ \A j \in S : j <= Largest(S)
<1> DEFINE T == {m \in Nat : n - m \in S}
<1>1. T \subseteq Nat
  OBVIOUS
<1>2. T # {}
  <2>1. PICK x \in S : TRUE
    OBVIOUS
  <2>2. x \in 1 .. n /\ n - x \in Nat /\ n - (n - x) = x
    OBVIOUS
  <2> QED BY <2>1, <2>2
<1>3. PICK m \in T : \A y \in T : m <= y
  <2> HIDE DEF T
  <2> QED BY <1>1, <1>2, LeastNat
<1>4. n - m \in S
  OBVIOUS
<1>5. ASSUME NEW j \in S PROVE j <= n - m
  <2>1. j \in 1 .. n /\ n - j \in Nat /\ n - (n - j) = j
    OBVIOUS
  <2>2. n - j \in T
    BY <2>1
  <2> QED BY <1>3, <2>1, <2>2
<1> QED BY <1>4, <1>5 DEF Largest

LEMMA SmallestIs ==
    ASSUME NEW S, S \subseteq Nat, S # {}
    PROVE  Smallest(S) \in S /\ \A j \in S : Smallest(S) <= j
BY LeastNat DEF Smallest

\* The Go function that a Lua function runs in.
LEMMA BaseOfIs ==
    ASSUME NEW fs, NEW n \in Nat, NEW j \in 1 .. n, fs[j].kind # "lua",
           \A i \in j + 1 .. n : fs[i].kind = "lua"
    PROVE  BaseOf(fs, n) = fs[j].base
<1> DEFINE S == {i \in 1 .. n : fs[i].kind # "lua"}
<1>1. S \subseteq 1 .. n /\ S # {} /\ j \in S
  OBVIOUS
<1>2. \A i \in S : i <= j
  OBVIOUS
<1> HIDE DEF S
<1>3. Largest(S) \in S /\ j <= Largest(S)
  BY <1>1, LargestIs
<1>4. Largest(S) = j
  <2>1. Largest(S) \in 1 .. n /\ Largest(S) <= j
    BY <1>1, <1>2, <1>3
  <2> QED BY <1>3, <2>1
<1> QED BY <1>4 DEF BaseOf, S

LEMMA BaseFound ==
    ASSUME NEW fs, NEW n \in Nat, n >= 1, fs[1].kind # "lua"
    PROVE  \E j \in 1 .. n : /\ fs[j].kind # "lua" /\ \A i \in j + 1 .. n : fs[i].kind = "lua"
                             /\ BaseOf(fs, n) = fs[j].base
<1> DEFINE S == {i \in 1 .. n : fs[i].kind # "lua"}
<1>1. S \subseteq 1 .. n /\ S # {}
  OBVIOUS
<1>2. Largest(S) \in S /\ \A i \in S : i <= Largest(S)
  <2> HIDE DEF S
  <2> QED BY <1>1, LargestIs
<1> DEFINE m == Largest(S)
<1>3. m \in 1 .. n /\ fs[m].kind # "lua" /\ BaseOf(fs, n) = fs[m].base
  BY <1>2 DEF BaseOf
<1>4. ASSUME NEW i \in m + 1 .. n PROVE fs[i].kind = "lua"
  <2>0. m \in 1 .. n /\ \A x \in S : x <= m
    BY <1>2
  <2> HIDE DEF m
  <2>1. i \in 1 .. n /\ ~(i <= m)
    BY <2>0
  <2>2. i \notin S
    BY <2>0, <2>1
  <2> QED BY <2>1, <2>2
<1> HIDE DEF m
<1> QED BY <1>3, <1>4

LEMMA BaseSame ==
    ASSUME NEW fs, NEW gs, NEW n \in Nat, n >= 1, fs[1].kind # "lua",
           \A i \in 1 .. n : gs[i].kind = fs[i].kind /\ gs[i].base = fs[i].base
    PROVE  BaseOf(gs, n) = BaseOf(fs, n)
<1>1. PICK j \in 1 .. n : /\ fs[j].kind # "lua" /\ \A i \in j + 1 .. n : fs[i].kind = "lua"
                          /\ BaseOf(fs, n) = fs[j].base
  BY BaseFound
<1>2. BaseOf(gs, n) = gs[j].base
  BY <1>1, BaseOfIs
<1> QED BY <1>1, <1>2
-----------------------------------------------------------------------------
(* What stands                                                             *)

LEMMA WaitsGrows ==
    ASSUME NEW s, NEW s1, Cap(s) \in Nat, Cap(s1) \in Nat, Cap(s) <= Cap(s1),
           NEW f \in FrameSet, Waits(s, f)
    PROVE  Waits(s1, f)
BY DEF Waits, FrameSet

LEMMA StandsGrows ==
    ASSUME NEW s, NEW fs, Stands(s, fs), NEW s1, Sound(s1), Cap(s1) >= Cap(s)
    PROVE  Stands(s1, fs)
<1>1. Cap(s) \in Nat /\ Cap(s1) \in Nat /\ Cap(s) <= Cap(s1)
  BY DEF Stands, Sound, Whole
<1>2. ASSUME NEW i \in 1 .. Len(fs) - 1 PROVE Waits(s1, fs[i])
  <2>1. fs[i] \in FrameSet
    BY ElementOfSeq DEF Stands
  <2>2. Waits(s, fs[i])
    BY DEF Stands, Waiting
  <2> QED BY <1>1, <2>1, <2>2, WaitsGrows
<1> QED BY <1>2 DEF Stands, Waiting

\* Frames that stand may lose the last ones, and the last one that is left
\* may change but for what the others rely on.
LEMMA PrefixStands ==
    ASSUME NEW s, NEW fs, Stands(s, fs), NEW s1, Sound(s1), Cap(s1) >= Cap(s),
           NEW p \in 1 .. Len(fs), NEW g \in FrameSet,
           g.kind = fs[p].kind, g.base = fs[p].base, g.nvar = fs[p].nvar,
           g.want = fs[p].want, g.savedBase = fs[p].savedBase
    PROVE  Stands(s1, Append(SubSeq(fs, 1, p - 1), g))
<1> DEFINE gs == Append(SubSeq(fs, 1, p - 1), g)
<1>0. Stands(s1, fs)
  BY StandsGrows
<1>1. fs \in Seq(FrameSet) /\ Len(fs) \in 1 .. MaxDepth
  BY DEF Stands
<1>2. MaxDepth \in Nat /\ p \in Nat /\ p <= Len(fs)
  BY <1>1, CallsAssumption
<1>3. /\ gs \in Seq(FrameSet) /\ Len(gs) = p /\ gs[p] = g
      /\ \A i \in 1 .. p - 1 : gs[i] = fs[i]
  BY <1>1, PrefixAnd
<1> HIDE DEF gs
<1>4. Len(gs) \in 1 .. MaxDepth
  BY <1>1, <1>2, <1>3
<1>5. \A i \in 1 .. p : /\ gs[i].kind = fs[i].kind /\ gs[i].base = fs[i].base
                        /\ gs[i].nvar = fs[i].nvar /\ gs[i].want = fs[i].want
                        /\ gs[i].savedBase = fs[i].savedBase
  <2>1. \A i \in 1 .. p : i = p \/ i \in 1 .. p - 1
    BY <1>2
  <2> QED BY <1>3, <2>1
<1>6. \A i \in 1 .. p : i \in 1 .. Len(fs)
  BY <1>1, <1>2
<1>7. OneHost(gs)
  BY <1>0, <1>3, <1>5, <1>6 DEF Stands, OneHost
<1>8. Waiting(s1, gs)
  BY <1>0, <1>1, <1>2, <1>3 DEF Stands, Waiting
<1>9. Linked(gs)
  <2> SUFFICES ASSUME NEW i \in 1 .. p - 1 PROVE InPlace(gs[i], gs[i + 1])
    BY <1>3 DEF Linked
  <2>1. InPlace(fs[i], fs[i + 1])
    BY <1>0, <1>1, <1>2 DEF Stands, Linked
  <2>2. gs[i] = fs[i] /\ i + 1 \in 1 .. p
    BY <1>2, <1>3
  <2>3. /\ gs[i + 1].base = fs[i + 1].base /\ gs[i + 1].nvar = fs[i + 1].nvar
        /\ gs[i + 1].want = fs[i + 1].want
    BY <1>5, <2>2
  <2> QED BY <2>1, <2>2, <2>3 DEF InPlace
<1>10. Layered(gs)
  <2> SUFFICES ASSUME NEW i \in 1 .. p, NEW j \in 1 .. p, i < j
               PROVE  Place(gs[i]) + 1 <= gs[j].base - gs[j].nvar
    BY <1>3 DEF Layered
  <2>1. gs[i] = fs[i]
    BY <1>3
  <2>2. Place(fs[i]) + 1 <= fs[j].base - fs[j].nvar
    BY <1>0, <1>6 DEF Stands, Layered
  <2> QED BY <1>5, <2>1, <2>2
<1>11. Saved(gs)
  <2> SUFFICES ASSUME NEW i \in 2 .. p, gs[i].kind # "lua"
               PROVE  gs[i].savedBase = BaseOf(gs, i - 1)
    BY <1>3 DEF Saved
  <2>1. i \in 1 .. p /\ i \in 2 .. Len(fs) /\ i - 1 \in Nat /\ i - 1 >= 1
    BY <1>1, <1>2
  <2>2. fs[i].savedBase = BaseOf(fs, i - 1)
    BY <1>0, <1>5, <2>1 DEF Stands, Saved
  <2>3. \A j \in 1 .. i - 1 : gs[j].kind = fs[j].kind /\ gs[j].base = fs[j].base
    BY <1>2, <1>5
  <2>4. fs[1].kind # "lua"
    BY <1>0, <1>1 DEF Stands, OneHost
  <2>5. BaseOf(gs, i - 1) = BaseOf(fs, i - 1)
    BY <2>1, <2>3, <2>4, BaseSame
  <2> QED BY <1>5, <2>1, <2>2, <2>5
<1> QED BY <1>0, <1>3, <1>4, <1>7, <1>8, <1>9, <1>10, <1>11 DEF Stands, gs

\* What stands first is the host.
LEMMA HostFirst ==
    ASSUME NEW s, NEW fs, Stands(s, fs)
    PROVE  /\ fs[1].kind = "host" /\ Len(fs) \in Nat /\ Len(fs) >= 1
           /\ \A i \in 1 .. Len(fs) : fs[i] \in FrameSet
<1>1. Len(fs) \in Nat /\ Len(fs) >= 1 /\ fs \in Seq(FrameSet)
  BY CallsAssumption DEF Stands
<1>2. \A i \in 1 .. Len(fs) : fs[i] \in FrameSet
  BY <1>1, ElementOfSeq
<1> QED BY <1>1, <1>2 DEF Stands, OneHost

LEMMA CountsFinite ==
    ASSUME NEW fs, Len(fs) \in Nat
    PROVE  /\ IsFiniteSet(Handlers(fs)) /\ IsFiniteSet(Quiets(fs))
           /\ Cardinality(Handlers(fs)) \in Nat /\ Cardinality(Quiets(fs)) \in Nat
<1>1. IsFiniteSet(1 .. Len(fs))
  BY FS_Interval
<1>2. Handlers(fs) \in SUBSET (1 .. Len(fs)) /\ Quiets(fs) \in SUBSET (1 .. Len(fs))
  BY DEF Handlers, Quiets
<1>3. IsFiniteSet(Handlers(fs)) /\ IsFiniteSet(Quiets(fs))
  BY <1>1, <1>2, FS_Subset
<1> QED BY <1>3, FS_CardinalityType

-----------------------------------------------------------------------------
(* A call gets its frame                                                   *)

LEMMA Enters ==
    ASSUME NEW s, NEW fs, Stands(s, fs), Waits(s, fs[Len(fs)]), Len(fs) < MaxDepth,
           Counted(fs, callBase, nonyieldable, inErrHandler),
           NEW c \in FrameSet, c.kind # "host", c.kind # "lua" => c.nvar = 0,
           c.phase = "run", c.savedBase = callBase,
           InPlace(fs[Len(fs)], c), NEW s1, Sound(s1), Cap(s1) >= Cap(s), Runs(s1, c),
           PushFrame(s1, fs, c)
    PROVE  FramesInv'
<1> DEFINE n == Len(fs)
           gs == Append(fs, c)
<1>0. /\ k' = s1 /\ frames' = gs
      /\ callBase' = IF c.kind = "lua" THEN callBase ELSE c.base
      /\ nonyieldable' = IF c.kind = "quiet" THEN nonyieldable + 1 ELSE nonyieldable
      /\ inErrHandler' = inErrHandler
  BY DEF PushFrame
<1>1. Stands(s1, fs)
  BY StandsGrows
<1>2. /\ fs[1].kind = "host" /\ n \in Nat /\ n >= 1 /\ MaxDepth \in Nat
      /\ \A i \in 1 .. n : fs[i] \in FrameSet
  BY HostFirst, CallsAssumption
<1>3. fs \in Seq(FrameSet)
  BY DEF Stands
<1>4. /\ gs \in Seq(FrameSet) /\ Len(gs) = n + 1 /\ gs[n + 1] = c
      /\ \A i \in 1 .. n : gs[i] = fs[i]
  BY <1>3, AppendAnd
<1>5. Waits(s1, fs[n])
  BY <1>2, WaitsGrows, n \in 1 .. n DEF Stands, Sound, Whole
<1> HIDE DEF n, gs
<1>6. \A i \in 1 .. n + 1 : i \in 1 .. n \/ i = n + 1
  BY <1>2
<1>7. OneHost(gs)
  <2>1. OneHost(fs)
    BY DEF Stands
  <2> SUFFICES ASSUME NEW i \in 1 .. n + 1
               PROVE  /\ gs[i].kind = "host" <=> i = 1
                      /\ gs[i].kind # "lua" => gs[i].nvar = 0
    BY <1>4 DEF OneHost
  <2>2. CASE i = n + 1
    BY <1>2, <1>4, <2>2
  <2>3. CASE i \in 1 .. n
    BY <1>4, <2>1, <2>3 DEF OneHost, n
  <2> QED BY <1>6, <2>2, <2>3
<1>8. Waiting(s1, gs)
  <2> SUFFICES ASSUME NEW i \in 1 .. n PROVE Waits(s1, gs[i])
    BY <1>2, <1>4 DEF Waiting
  <2>1. CASE i = n
    BY <1>4, <1>5, <2>1
  <2>2. CASE i # n
    <3>1. i \in 1 .. n - 1
      BY <1>2, <2>2
    <3> QED BY <1>1, <1>4, <3>1 DEF Stands, Waiting, n
  <2> QED BY <2>1, <2>2
<1>9. Linked(gs)
  <2> SUFFICES ASSUME NEW i \in 1 .. n PROVE InPlace(gs[i], gs[i + 1])
    BY <1>2, <1>4 DEF Linked
  <2>1. CASE i = n
    BY <1>4, <2>1 DEF n
  <2>2. CASE i # n
    <3>1. i \in 1 .. n - 1 /\ i + 1 \in 1 .. n
      BY <1>2, <2>2
    <3>2. InPlace(fs[i], fs[i + 1])
      BY <3>1 DEF Stands, Linked, n
    <3> QED BY <1>4, <3>1, <3>2
  <2> QED BY <2>1, <2>2
<1>10. Layered(gs)
  <2>0. Layered(fs)
    BY DEF Stands
  <2> SUFFICES ASSUME NEW i \in 1 .. n + 1, NEW j \in 1 .. n + 1, i < j
               PROVE  Place(gs[i]) + 1 <= gs[j].base - gs[j].nvar
    BY <1>4 DEF Layered
  <2>1. CASE j \in 1 .. n
    <3>1. i \in 1 .. n
      BY <1>2, <2>1
    <3>2. Place(fs[i]) + 1 <= fs[j].base - fs[j].nvar
      BY <2>0, <2>1, <3>1 DEF Layered, n
    <3> QED BY <1>4, <2>1, <3>1, <3>2
  <2>2. CASE j = n + 1
    <3>1. i \in 1 .. n /\ gs[i] = fs[i] /\ gs[j] = c
      BY <1>2, <1>4, <2>2
    <3>2. /\ fs[i] \in FrameSet /\ fs[n] \in FrameSet /\ c \in FrameSet
          /\ Place(fs[n]) \in Nat /\ Place(fs[i]) \in Nat
      <4>1. fs[i] \in FrameSet /\ fs[n] \in FrameSet
        BY <1>2, <3>1
      <4>2. fs[i].at \in Nat /\ fs[n].at \in Nat
        BY <4>1 DEF FrameSet
      <4> QED BY <4>1, <4>2 DEF Place
    <3>3. c.base - c.nvar = Place(fs[n]) + 1
      <4>1. c.base = Place(fs[n]) + 1 + c.nvar
        BY DEF InPlace, n
      <4>2. c.nvar \in Nat
        BY DEF FrameSet
      <4> QED BY <3>2, <4>1, <4>2
    <3>4. CASE i = n
      BY <3>1, <3>2, <3>3, <3>4
    <3>5. CASE i # n
      <4>1. Place(fs[i]) + 1 <= fs[n].base - fs[n].nvar
        BY <1>2, <2>0, <3>1, <3>5 DEF Layered, n
      <4>2. fs[n].base <= Place(fs[n])
        <5>1. fs[n].base <= fs[n].at
          BY <1>5 DEF Waits
        <5>2. fs[n].base \in Nat /\ fs[n].at \in Nat
          BY <3>2 DEF FrameSet
        <5> QED BY <5>1, <5>2 DEF Place
      <4>3. fs[n].base \in Nat /\ fs[n].nvar \in Nat
        BY <3>2 DEF FrameSet
      <4> QED BY <3>1, <3>2, <3>3, <4>1, <4>2, <4>3, SMTT(30)
    <3> QED BY <3>4, <3>5
  <2> QED BY <1>6, <2>1, <2>2
<1>11. \A i \in 1 .. n : BaseOf(gs, i) = BaseOf(fs, i)
  <2> TAKE i \in 1 .. n
  <2>1. \A j \in 1 .. i : gs[j].kind = fs[j].kind /\ gs[j].base = fs[j].base
    BY <1>2, <1>4
  <2>2. i \in Nat /\ i >= 1 /\ fs[1].kind # "lua"
    BY <1>2
  <2> QED BY <2>1, <2>2, BaseSame
<1>12. callBase = BaseOf(fs, n)
  BY DEF Counted, n
<1>13. Saved(gs)
  <2> SUFFICES ASSUME NEW i \in 2 .. n + 1, gs[i].kind # "lua"
               PROVE  gs[i].savedBase = BaseOf(gs, i - 1)
    BY <1>4 DEF Saved
  <2>1. i - 1 \in 1 .. n
    BY <1>2
  <2>2. CASE i = n + 1
    BY <1>2, <1>4, <1>11, <1>12, <2>1, <2>2
  <2>3. CASE i # n + 1
    <3>1. i \in 2 .. n /\ i \in 1 .. n
      BY <1>2, <2>3
    <3>2. fs[i].savedBase = BaseOf(fs, i - 1)
      BY <1>4, <3>1 DEF Stands, Saved, n
    <3> QED BY <1>4, <1>11, <2>1, <3>1, <3>2
  <2> QED BY <2>2, <2>3
<1>14. Stands(s1, gs)
  <2>1. Len(gs) \in 1 .. MaxDepth
    BY <1>2, <1>4 DEF n
  <2> QED BY <1>4, <1>7, <1>8, <1>9, <1>10, <1>13, <2>1 DEF Stands
<1>15. callBase' = BaseOf(gs, n + 1)
  <2>0. n + 1 \in Nat /\ n + 1 \in 1 .. n + 1
    BY <1>2
  <2>1. CASE c.kind # "lua"
    <3>1. BaseOf(gs, n + 1) = c.base
      BY <1>4, <2>0, <2>1, BaseOfIs, \A i \in (n + 1) + 1 .. n + 1 : FALSE
    <3> QED BY <1>0, <2>1, <3>1
  <2>2. CASE c.kind = "lua"
    <3>1. PICK j \in 1 .. n : /\ fs[j].kind # "lua"
                              /\ \A i \in j + 1 .. n : fs[i].kind = "lua"
                              /\ BaseOf(fs, n) = fs[j].base
      BY <1>2, BaseFound
    <3>2. j \in 1 .. n + 1 /\ gs[j] = fs[j]
      BY <1>2, <1>4, <3>1
    <3>3. \A i \in j + 1 .. n + 1 : gs[i].kind = "lua"
      <4> TAKE i \in j + 1 .. n + 1
      <4>1. i = n + 1 \/ i \in j + 1 .. n
        BY <1>2
      <4>2. j + 1 .. n \subseteq 1 .. n
        BY <1>2
      <4> QED BY <1>4, <2>2, <3>1, <4>1, <4>2
    <3>4. BaseOf(gs, n + 1) = gs[j].base
      BY <2>0, <3>1, <3>2, <3>3, BaseOfIs
    <3> QED BY <1>0, <1>12, <2>2, <3>1, <3>2, <3>4
  <2> QED BY <2>1, <2>2
<1>16. Handlers(gs) = Handlers(fs)
  BY <1>2, <1>4, <1>6 DEF Handlers, n
<1>17. Quiets(gs) = IF c.kind = "quiet" THEN Quiets(fs) \cup {n + 1} ELSE Quiets(fs)
  BY <1>2, <1>4, <1>6 DEF Quiets, n
<1>18. Cardinality(Quiets(gs)) = Cardinality(Quiets(fs)) + (IF c.kind = "quiet" THEN 1 ELSE 0)
  <2>1. IsFiniteSet(Quiets(fs)) /\ Cardinality(Quiets(fs)) \in Nat
    BY <1>2, CountsFinite DEF n
  <2>2. n + 1 \notin Quiets(fs)
    BY <1>2 DEF Quiets, n
  <2>3. Cardinality(Quiets(fs) \cup {n + 1}) = Cardinality(Quiets(fs)) + 1
    BY <2>1, <2>2, FS_AddElement
  <2> QED BY <1>17, <2>1, <2>3
<1>19. Counted(gs, callBase', nonyieldable', inErrHandler')
  <2>1. Cardinality(Handlers(fs)) \in Nat /\ Cardinality(Quiets(fs)) \in Nat
    BY <1>2, CountsFinite DEF n
  <2> QED BY <1>0, <1>4, <1>15, <1>16, <1>18, <2>1 DEF Counted
<1>20. frames'[Len(frames')] = c /\ Runs(s1, c)
  BY <1>0, <1>4
<1> QED BY <1>0, <1>14, <1>19, <1>20 DEF FramesInv
-----------------------------------------------------------------------------
(* An error                                                                *)

\* The last frame waits for a call, or the error is its own.
Raises(s, fs) ==
    /\ Stands(s, fs)
    /\ Waits(s, fs[Len(fs)]) \/ (Len(fs) > 1 /\ fs[Len(fs)].phase = "run")

\* The protected call that an error lands in, and how it goes on.
LandingOf(fs) == Largest({i \in 1 .. Len(fs) : fs[i].phase \in {"called", "handling"}})

Fallen(f) ==
    IF f.phase = "handling" THEN "errerr"
    ELSE CASE f.kind = "xpcall" -> "caught"
           [] f.kind = "host"   -> "run"
           [] f.kind = "pcall"  -> "failed"

LEMMA Landing ==
    ASSUME NEW s, NEW fs, Raises(s, fs)
    PROVE  LET p == LandingOf(fs)
           IN  /\ p \in 1 .. Len(fs) /\ Waits(s, fs[p]) /\ fs[p] \in FrameSet
               /\ fs[p].phase \in {"called", "handling"}
               /\ fs[p].kind \in {"host", "pcall", "xpcall"}
               /\ \A i \in p + 1 .. Len(fs) :
                     fs[i].phase \notin {"called", "handling", "ready"}
<1> DEFINE n == Len(fs)
           S == {i \in 1 .. n : fs[i].phase \in {"called", "handling"}}
           p == Largest(S)
<1>1. fs[1].kind = "host" /\ n \in Nat /\ n >= 1 /\ \A i \in 1 .. n : fs[i] \in FrameSet
  BY HostFirst DEF Raises
<1>2. \A i \in 1 .. n : Waits(s, fs[i]) \/ (i = n /\ n > 1 /\ fs[i].phase = "run")
  <2> TAKE i \in 1 .. n
  <2>1. CASE i = n
    BY <2>1 DEF Raises
  <2>2. CASE i # n
    BY <1>1, <2>2 DEF Raises, Stands, Waiting
  <2> QED BY <2>1, <2>2
<1>3. 1 \in S
  <2>1. 1 \in 1 .. n /\ ~(1 = n /\ n > 1)
    BY <1>1
  <2>2. Waits(s, fs[1])
    BY <1>2, <2>1
  <2>3. fs[1].phase = "called"
    BY <1>1, <2>2 DEF Waits
  <2> QED BY <2>1, <2>3
<1>4. S \subseteq 1 .. n /\ S # {}
  BY <1>3
<1>5. p \in S /\ \A j \in S : j <= p
  <2> HIDE DEF S
  <2> QED BY <1>1, <1>4, LargestIs
<1>6. \A j \in 1 .. n : fs[j].phase \in {"called", "handling"} => j <= p
  BY <1>5
<1>7. p \in 1 .. n /\ fs[p].phase \in {"called", "handling"}
  BY <1>5
<1> HIDE DEF p, S
<1>8. Waits(s, fs[p])
  <2>1. fs[p].phase # "run"
    BY <1>7
  <2> QED BY <1>2, <1>7, <2>1
<1>9. fs[p].kind \in {"host", "pcall", "xpcall"}
  <2>1. fs[p].kind \in Kinds
    BY <1>1, <1>7 DEF FrameSet
  <2> QED BY <1>7, <1>8, <2>1 DEF Waits, Kinds
<1>10. ASSUME NEW i \in p + 1 .. n PROVE fs[i].phase \notin {"called", "handling", "ready"}
  <2>1. i \in 1 .. n /\ ~(i <= p)
    BY <1>1, <1>7
  <2>2. fs[i].phase \notin {"called", "handling"}
    BY <1>6, <2>1
  <2>3. CASE fs[i].phase = "run"
    BY <2>3
  <2>4. CASE Waits(s, fs[i])
    <3>1. fs[i].kind \in Kinds
      BY <1>1, <2>1 DEF FrameSet
    <3> QED BY <2>2, <2>4, <3>1 DEF Waits, Kinds
  <2> QED BY <1>2, <2>1, <2>3, <2>4
<1>11. /\ p \in 1 .. n /\ Waits(s, fs[p]) /\ fs[p] \in FrameSet
       /\ fs[p].phase \in {"called", "handling"}
       /\ fs[p].kind \in {"host", "pcall", "xpcall"}
       /\ \A i \in p + 1 .. n : fs[i].phase \notin {"called", "handling", "ready"}
  BY <1>1, <1>7, <1>8, <1>9, <1>10
<1> QED BY <1>11 DEF LandingOf, p, S, n

\* What a panic leaves behind: the frames below the landing, and the landing
\* with what became of the error.
LEMMA Lands ==
    ASSUME NEW s, NEW fs, Raises(s, fs), NEW err \in Int, Throw(s, fs, err)
    PROVE  LET p == LandingOf(fs)
               handling == IF fs[p].phase = "handling" THEN 1 ELSE 0
           IN  /\ \E err1 \in Int :
                     frames' = Append(SubSeq(fs, 1, p - 1),
                                      [fs[p] EXCEPT !.phase = Fallen(fs[p]), !.err = err1])
               /\ \/ k' = Cut(s, fs[p].at + 1)
                  \/ \E v : k' = Write(Cut(s, fs[p].at + 1), fs[p].at, <<v>>)
               /\ callBase' = BaseBefore(fs, p + 1 .. Len(fs))
               /\ nonyieldable' = nonyieldable - handling - Quiet(fs, p + 1 .. Len(fs))
               /\ inErrHandler' = inErrHandler - handling
               /\ CloseTo(fs[p].at + 1, s.slots)
<1> DEFINE p == LandingOf(fs)
           f == fs[p]
           handling == IF f.phase = "handling" THEN 1 ELSE 0
           value == IF inErrHandler > 0 /\ err = Overflow THEN ErrorInHandling ELSE err
           cut == Cut(s, f.at + 1)
           Value(v) == Write(cut, f.at, <<v>>)
           Caught(phase, err1, k2) ==
               /\ frames' = Append(SubSeq(fs, 1, p - 1), [f EXCEPT !.phase = phase, !.err = err1])
               /\ k' = k2
<1>1. /\ callBase' = BaseBefore(fs, p + 1 .. Len(fs))
      /\ nonyieldable' = nonyieldable - handling - Quiet(fs, p + 1 .. Len(fs))
      /\ inErrHandler' = inErrHandler - handling
      /\ CloseTo(f.at + 1, s.slots)
      /\ CASE f.phase = "handling" -> Caught("errerr", f.err, Value(f.err))
           [] f.phase # "handling" /\ f.kind = "xpcall" -> Caught("caught", value, cut)
           [] OTHER -> Caught(IF f.kind = "host" THEN "run" ELSE "failed", Nil, Value(value))
  BY DEF Throw, CloseLevel, LandingOf
<1>2. /\ p \in 1 .. Len(fs) /\ f \in FrameSet /\ f.phase \in {"called", "handling"}
      /\ f.kind \in {"host", "pcall", "xpcall"} /\ Waits(s, f)
  BY Landing
<1>3. value \in Int /\ f.err \in Int /\ Nil \in Int
  BY <1>2 DEF FrameSet, ErrorInHandling, Nil
<1>4. f.phase = "handling" => f.kind = "xpcall"
  BY <1>2 DEF Waits
<1>5. f.kind \in {"pcall", "xpcall", "host"} /\ (f.phase = "handling" \/ f.phase = "called")
  BY <1>2
<1> DEFINE Phase == Fallen(f)
<1>6. \E err1 \in Int : \E k2 : /\ Caught(Phase, err1, k2)
                                /\ (k2 = cut \/ \E v : k2 = Value(v))
  <2> HIDE DEF p, f, cut, value, handling
  <2>1. CASE f.phase = "handling"
    <3>1. Caught("errerr", f.err, Value(f.err)) /\ Phase = "errerr"
      BY <1>1, <2>1 DEF Fallen
    <3> HIDE DEF Phase, Caught, Value
    <3> QED BY <1>3, <3>1
  <2>2. CASE f.phase # "handling" /\ f.kind = "xpcall"
    <3>1. Caught("caught", value, cut) /\ Phase = "caught"
      BY <1>1, <2>2 DEF Fallen
    <3> HIDE DEF Phase, Caught, Value
    <3> QED BY <1>3, <3>1
  <2>3. CASE f.phase # "handling" /\ f.kind # "xpcall"
    <3>1. Caught(IF f.kind = "host" THEN "run" ELSE "failed", Nil, Value(value))
      BY <1>1, <2>3
    <3>2. Phase = IF f.kind = "host" THEN "run" ELSE "failed"
      BY <1>5, <2>3 DEF Fallen
    <3> HIDE DEF Phase, Caught, Value
    <3> QED BY <1>3, <3>1, <3>2
  <2> QED BY <2>1, <2>2, <2>3
<1>7. PICK err1 \in Int : \E k2 : /\ Caught(Phase, err1, k2)
                                 /\ (k2 = cut \/ \E v : k2 = Value(v))
  BY <1>6
<1>8. frames' = Append(SubSeq(fs, 1, p - 1), [fs[p] EXCEPT !.phase = Phase, !.err = err1])
  BY <1>7
<1>9. \/ k' = Cut(s, fs[p].at + 1)
      \/ \E v : k' = Write(Cut(s, fs[p].at + 1), fs[p].at, <<v>>)
  BY <1>7
<1> HIDE DEF p
<1> QED BY <1>1, <1>7, <1>8, <1>9 DEF p
\* The stack after an error, cut behind the place of the failed call.
LEMMA CutAndWritten ==
    ASSUME NEW s, Sound(s), NEW at \in Nat, at + 1 <= Cap(s), NEW s1,
           s1 = Cut(s, at + 1) \/ \E v : s1 = Write(Cut(s, at + 1), at, <<v>>)
    PROVE  Sound(s1) /\ Cap(s1) = Cap(s) /\ s1.top = at + 1 /\ s1.len = at + 1
<1> DEFINE cut == Cut(s, at + 1)
<1>1. Sound(cut) /\ Cap(cut) = Cap(s) /\ cut.len = at + 1 /\ cut.top = at + 1
  BY CutShort, at + 1 \in 0 .. Cap(s) DEF Sound, Whole
<1>2. CASE s1 = cut
  BY <1>1, <1>2
<1>3. ASSUME NEW v, s1 = Write(cut, at, <<v>>) PROVE Sound(s1) /\ Cap(s1) = Cap(s) /\ s1.top = at + 1 /\ s1.len = at + 1
  <2> HIDE DEF cut
  <2> DEFINE vals == <<v>>
  <2>1. Len(vals) = 1
    OBVIOUS
  <2> HIDE DEF vals
  <2>2. Len(vals) \in Nat /\ at + Len(vals) <= cut.len /\ Whole(cut)
    BY <1>1, <2>1 DEF Sound
  <2>3. s1 = Write(cut, at, vals)
    BY <1>3 DEF vals
  <2>4. Whole(s1) /\ Cap(s1) = Cap(cut) /\ s1.len = cut.len /\ s1.top = cut.top
    BY <2>2, <2>3, Written
  <2> QED BY <1>1, <2>4 DEF Sound
<1> QED BY <1>2, <1>3

LEMMA Unwinds ==
    ASSUME NEW s, NEW fs, Raises(s, fs), Counted(fs, callBase, nonyieldable, inErrHandler),
           NEW err \in Int, Throw(s, fs, err)
    PROVE  FramesInv'
<1> DEFINE n == Len(fs)
           p == LandingOf(fs)
           f == fs[p]
           handling == IF f.phase = "handling" THEN 1 ELSE 0
<1>1. /\ fs[1].kind = "host" /\ n \in Nat /\ n >= 1 /\ \A i \in 1 .. n : fs[i] \in FrameSet
      /\ Stands(s, fs) /\ Sound(s)
  BY HostFirst DEF Raises, Stands
<1>2. /\ p \in 1 .. n /\ Waits(s, f) /\ f \in FrameSet
      /\ f.phase \in {"called", "handling"}
      /\ f.kind \in {"host", "pcall", "xpcall"}
      /\ \A i \in p + 1 .. n : fs[i].phase \notin {"called", "handling", "ready"}
  BY Landing
<1>3. PICK err1 \in Int : frames' = Append(SubSeq(fs, 1, p - 1),
                                           [f EXCEPT !.phase = Fallen(f), !.err = err1])
  BY Lands
<1>4. /\ \/ k' = Cut(s, f.at + 1)
         \/ \E v : k' = Write(Cut(s, f.at + 1), f.at, <<v>>)
      /\ callBase' = BaseBefore(fs, p + 1 .. n)
      /\ nonyieldable' = nonyieldable - handling - Quiet(fs, p + 1 .. n)
      /\ inErrHandler' = inErrHandler - handling
  BY Lands
<1> DEFINE g == [f EXCEPT !.phase = Fallen(f), !.err = err1]
           gs == Append(SubSeq(fs, 1, p - 1), g)
<1> HIDE DEF n, p
<1>5. /\ Fallen(f) \in {"errerr", "caught", "run", "failed"}
      /\ f.kind = "xpcall" => Fallen(f) \in {"errerr", "caught"}
      /\ f.kind = "pcall" => Fallen(f) = "failed"
      /\ f.kind = "host" => Fallen(f) = "run"
  <2>1. f.phase = "handling" => f.kind = "xpcall"
    BY <1>2 DEF Waits
  <2> HIDE DEF f
  <2>2. CASE f.kind = "xpcall"
    BY <2>2 DEF Fallen
  <2>3. CASE f.kind # "xpcall"
    BY <1>2, <2>1, <2>3 DEF Fallen
  <2> QED BY <2>2, <2>3
<1>6. /\ g \in FrameSet /\ g.kind = f.kind /\ g.base = f.base /\ g.nvar = f.nvar
      /\ g.want = f.want /\ g.savedBase = f.savedBase /\ g.phase = Fallen(f)
      /\ g.at = f.at /\ g.open = f.open
  BY <1>2, <1>5 DEF FrameSet, Phases
<1>7. /\ Sound(k') /\ Cap(k') = Cap(s) /\ k'.top = f.at + 1 /\ k'.len = f.at + 1
      /\ Cap(k') >= Cap(s)
  <2>1. f.at \in Nat /\ f.at + 1 <= Cap(s)
    BY <1>2 DEF FrameSet, Waits
  <2>2. Sound(k') /\ Cap(k') = Cap(s) /\ k'.top = f.at + 1 /\ k'.len = f.at + 1
    BY <1>1, <1>4, <2>1, CutAndWritten, ZenonT(60)
  <2> QED BY <2>2 DEF Sound, Whole
<1> HIDE DEF g
<1>8. /\ gs \in Seq(FrameSet) /\ Len(gs) = p /\ gs[p] = g
      /\ \A i \in 1 .. p - 1 : gs[i] = fs[i]
  BY <1>1, <1>2, <1>6, PrefixAnd, SMTT(30) DEF Stands, n
<1>9. frames' = gs
  BY <1>3 DEF g
<1>10. Stands(k', gs)
  BY <1>1, <1>2, <1>6, <1>7, PrefixStands DEF n
<1> HIDE DEF gs
<1>11. Runs(k', g)
  <2>1. f.base <= f.at /\ f.base \in Nat /\ f.at \in Nat
    BY <1>2 DEF Waits, FrameSet
  <2>2. f.kind = "pcall" => f.at = f.base
    BY <1>2 DEF Waits
  <2>3. f.kind = "xpcall" => f.at = f.base + 1
    BY <1>2 DEF Waits
  <2>4. ~f.open
    BY <1>2 DEF Waits
  <2>5. f.base <= f.at + 1 /\ f.at <= f.at + 1
    BY <2>1
  <2> HIDE DEF f
  <2> QED BY <1>2, <1>5, <1>6, <1>7, <2>2, <2>3, <2>4, <2>5 DEF Runs
<1>12. callBase' = BaseOf(gs, p)
  <2>0. p \in Nat /\ p + 1 \in Nat /\ p <= n
    BY <1>1, <1>2
  <2>1. BaseOf(gs, p) = f.base
    <3>1. p \in 1 .. p /\ gs[p].kind # "lua" /\ \A i \in p + 1 .. p : gs[i].kind = "lua"
      BY <1>2, <1>6, <1>8, <2>0
    <3> QED BY <1>6, <1>8, <2>0, <3>1, BaseOfIs
  <2>2. ASSUME NEW m \in p .. n, \A i \in p + 1 .. m : fs[i].kind = "lua"
        PROVE  BaseOf(fs, m) = f.base
    <3>1. m \in Nat /\ p \in 1 .. m /\ fs[p].kind # "lua"
      BY <1>2, <2>0
    <3> QED BY <2>2, <3>1, BaseOfIs
  <2> DEFINE gos == Gos(fs, p + 1 .. n)
  <2>3. gos = {i \in p + 1 .. n : fs[i].kind # "lua"}
    BY DEF Gos
  <2>4. CASE gos = {}
    <3>1. callBase' = callBase
      BY <1>4, <2>4 DEF BaseBefore
    <3>2. BaseOf(fs, n) = f.base
      BY <2>0, <2>2, <2>3, <2>4, <1>1, n \in p .. n
    <3> QED BY <2>1, <3>1, <3>2 DEF Counted, n
  <2>5. CASE gos # {}
    <3>1. gos \subseteq Nat
      BY <2>0, <2>3
    <3>2. Smallest(gos) \in gos /\ \A j \in gos : Smallest(gos) <= j
      <4> HIDE DEF gos
      <4> QED BY <2>5, <3>1, SmallestIs
    <3>3. callBase' = fs[Smallest(gos)].savedBase
      BY <1>4, <2>5 DEF BaseBefore
    <3> DEFINE m == Smallest(gos)
    <3>4. m \in p + 1 .. n /\ fs[m].kind # "lua"
      BY <2>3, <3>2
    <3>5. \A i \in p + 1 .. n : fs[i].kind # "lua" => m <= i
      BY <2>3, <3>2
    <3> HIDE DEF m, gos
    <3>6. m \in 2 .. n /\ m - 1 \in p .. n
      BY <1>1, <1>2, <2>0, <3>4
    <3>7. \A i \in p + 1 .. m - 1 : fs[i].kind = "lua"
      <4> TAKE i \in p + 1 .. m - 1
      <4>1. i \in p + 1 .. n /\ ~(m <= i)
        BY <2>0, <3>4, <1>1
      <4> QED BY <3>5, <4>1
    <3>8. BaseOf(fs, m - 1) = f.base
      BY <2>2, <3>6, <3>7
    <3>9. fs[m].savedBase = BaseOf(fs, m - 1)
      BY <1>1, <3>4, <3>6 DEF Stands, Saved, n
    <3> QED BY <2>1, <3>3, <3>8, <3>9 DEF m
  <2> QED BY <2>4, <2>5
<1>13. Handlers(gs) = Handlers(fs) \ {p}
  <2>0. \A i \in 1 .. n : i \in 1 .. p - 1 \/ i = p \/ i \in p + 1 .. n
    BY <1>1, <1>2
  <2>1. Handlers(fs) \subseteq 1 .. p
    <3> SUFFICES ASSUME NEW i \in Handlers(fs) PROVE i \in 1 .. p
      OBVIOUS
    <3>1. i \in 1 .. n /\ fs[i].phase \in {"ready", "handling"}
      BY DEF Handlers, n
    <3> QED BY <1>1, <1>2, <2>0, <3>1
  <2>2. p \notin Handlers(gs)
    BY <1>5, <1>6, <1>8 DEF Handlers
  <2>3. Handlers(gs) \subseteq 1 .. p
    BY <1>8 DEF Handlers
  <2>4. \A i \in 1 .. p - 1 : i \in Handlers(gs) <=> i \in Handlers(fs)
    <3> TAKE i \in 1 .. p - 1
    <3>1. i \in 1 .. p /\ i \in 1 .. n /\ gs[i] = fs[i]
      BY <1>1, <1>2, <1>8
    <3> QED BY <1>8, <3>1 DEF Handlers, n
  <2>5. \A i \in 1 .. p : i \in 1 .. p - 1 \/ i = p
    BY <1>1, <1>2
  <2> QED BY <1>1, <1>2, <2>1, <2>2, <2>3, <2>4, <2>5
<1>14. p \in Handlers(fs) <=> f.phase = "handling"
  BY <1>2 DEF Handlers, n
<1>15. Quiets(gs) = Quiets(fs) \ (p + 1 .. n)
  <2> SUFFICES ASSUME NEW i PROVE i \in Quiets(gs) <=> i \in Quiets(fs) /\ i \notin p + 1 .. n
    OBVIOUS
  <2>1. i \in 1 .. p <=> i \in 1 .. n /\ i \notin p + 1 .. n
    BY <1>1, <1>2
  <2>2. i \in 1 .. p => gs[i].kind = fs[i].kind
    <3>1. i \in 1 .. p => i \in 1 .. p - 1 \/ i = p
      BY <1>1, <1>2
    <3> QED BY <1>6, <1>8, <3>1
  <2> QED BY <1>8, <2>1, <2>2 DEF Quiets, n
<1>16. Quiet(fs, p + 1 .. n) = Cardinality(Quiets(fs) \cap (p + 1 .. n))
  <2>1. p + 1 .. n \subseteq 1 .. n
    BY <1>1, <1>2
  <2>2. {i \in p + 1 .. n : fs[i].kind = "quiet"} = Quiets(fs) \cap (p + 1 .. n)
    BY <2>1 DEF Quiets, n
  <2> QED BY <2>2 DEF Quiet
<1>17. Counted(gs, callBase', nonyieldable', inErrHandler')
  <2>1. /\ IsFiniteSet(Handlers(fs)) /\ Cardinality(Handlers(fs)) \in Nat
        /\ IsFiniteSet(Quiets(fs)) /\ Cardinality(Quiets(fs)) \in Nat
    BY <1>1, CountsFinite DEF n
  <2>2. Cardinality(Handlers(gs)) = Cardinality(Handlers(fs)) - handling
    <3> DEFINE H == Handlers(fs)
    <3>1. IsFiniteSet(H) /\ Cardinality(H) \in Nat
      BY <2>1
    <3> HIDE DEF H
    <3>2. Cardinality(H \ {p}) = IF p \in H THEN Cardinality(H) - 1 ELSE Cardinality(H)
      BY <3>1, FS_RemoveElement
    <3>3. Handlers(gs) = H \ {p} /\ (p \in H <=> f.phase = "handling")
      BY <1>13, <1>14 DEF H
    <3>4. Cardinality(H) - 0 = Cardinality(H)
      BY <3>1
    <3>5. CASE f.phase = "handling"
      BY <3>2, <3>3, <3>5 DEF H
    <3>6. CASE f.phase # "handling"
      BY <3>2, <3>3, <3>4, <3>6 DEF H
    <3> QED BY <3>5, <3>6
  <2>3. Cardinality(Quiets(gs)) = Cardinality(Quiets(fs)) - Quiet(fs, p + 1 .. n)
    BY <1>15, <1>16, <2>1, FS_Difference
  <2>4. Quiet(fs, p + 1 .. n) \in Nat
    <3>1. IsFiniteSet(Quiets(fs) \cap (p + 1 .. n))
      BY <2>1, FS_Intersection
    <3> QED BY <1>16, <3>1, FS_CardinalityType
  <2>5. /\ inErrHandler = Cardinality(Handlers(fs))
        /\ nonyieldable = Cardinality(Handlers(fs)) + Cardinality(Quiets(fs))
    BY DEF Counted
  <2>6. handling \in Nat
    OBVIOUS
  <2> HIDE DEF handling, f
  <2>7. inErrHandler' = Cardinality(Handlers(gs))
    BY <1>4, <2>2, <2>5
  <2>8. nonyieldable' = Cardinality(Handlers(gs)) + Cardinality(Quiets(gs))
    BY <1>4, <2>1, <2>2, <2>3, <2>4, <2>5, <2>6
  <2> QED BY <1>8, <1>12, <2>7, <2>8 DEF Counted
<1>18. frames'[Len(frames')] = g
  BY <1>8, <1>9
<1> QED BY <1>9, <1>10, <1>11, <1>17, <1>18 DEF FramesInv
-----------------------------------------------------------------------------
(* The open upvalues                                                       *)

Listed(ups, list) ==
    /\ \E V : 0 \in V /\ ups \in Seq(Upval(Nat, V))
    /\ list \in Seq(DOMAIN ups) /\ Descending(ups, list) /\ Exact(ups, list)

\* A slot that holds a local of a function that has not ended.
Owned(fs, slot) ==
    \E j \in 1 .. Len(fs) : fs[j].kind = "lua" /\ slot - fs[j].base \in 0 .. fs[j].live - 1

AllOwned(fs, ups, list) == \A i \in DOMAIN list : Owned(fs, ups[list[i]].slot)

UpvalInv == Listed(upvals, openUpvals) /\ AllOwned(frames, upvals, openUpvals)

\* What is on the list has a slot.
LEMMA ListedSlots ==
    ASSUME NEW ups, NEW list, Listed(ups, list)
    PROVE  /\ \A u \in DOMAIN ups : ups[u].slot \in Nat /\ ups[u].closed \in BOOLEAN
           /\ \A i \in DOMAIN list : list[i] \in DOMAIN ups /\ ups[list[i]].slot \in Nat
           /\ DOMAIN list = 1 .. Len(list) /\ Len(list) \in Nat
           /\ DOMAIN ups = 1 .. Len(ups) /\ Len(ups) \in Nat
<1>1. PICK V : 0 \in V /\ ups \in Seq(Upval(Nat, V))
  BY DEF Listed
<1>2. list \in Seq(DOMAIN ups)
  BY DEF Listed
<1>3. /\ Len(list) \in Nat /\ DOMAIN list = 1 .. Len(list)
      /\ Len(ups) \in Nat /\ DOMAIN ups = 1 .. Len(ups)
      /\ \A u \in DOMAIN ups : ups[u] \in Upval(Nat, V)
      /\ \A i \in DOMAIN list : list[i] \in DOMAIN ups /\ ups[list[i]].slot \in Nat
  BY <1>1, <1>2, Slots
<1>4. \A u \in DOMAIN ups : ups[u].slot \in Nat /\ ups[u].closed \in BOOLEAN
  BY <1>3 DEF Upval
<1> QED BY <1>3, <1>4

LEMMA UpvalsOver ==
    ASSUME NEW V, NEW W, V \subseteq W, NEW ups \in Seq(Upval(Nat, V))
    PROVE  ups \in Seq(Upval(Nat, W))
<1>1. Upval(Nat, V) \subseteq Upval(Nat, W)
  BY DEF Upval
<1> QED BY <1>1, SeqMonotonic

LEMMA Closing ==
    ASSUME NEW ups, NEW list, Listed(ups, list), NEW level \in Int, NEW stack
    PROVE  LET ups1  == ClosedFrom(ups, list, level, stack)
               list1 == LeftOpen(ups, list, level)
           IN  /\ Listed(ups1, list1)
               /\ \A i \in DOMAIN list1 : \E j \in DOMAIN list :
                     /\ ups1[list1[i]].slot = ups[list[j]].slot
                     /\ ups[list[j]].slot < level
<1> DEFINE ups1  == ClosedFrom(ups, list, level, stack)
           list1 == LeftOpen(ups, list, level)
<1>1. PICK V : 0 \in V /\ ups \in Seq(Upval(Nat, V))
  BY DEF Listed
<1> DEFINE W == V \cup {stack[s] : s \in Nat}
<1>2. V \subseteq W /\ 0 \in W /\ \A s \in Nat : stack[s] \in W
  BY <1>1
<1> HIDE DEF W
<1>3. ups \in Seq(Upval(Nat, W))
  BY <1>1, <1>2, UpvalsOver
<1>4. list \in Seq(DOMAIN ups) /\ Descending(ups, list) /\ Exact(ups, list)
  BY DEF Listed
<1> DEFINE slots == Nat
<1>5. slots \in SUBSET Int /\ ups \in Seq(Upval(slots, W))
  BY <1>2, <1>3
<1>10. \A s \in slots : stack[s] \in W
  BY <1>2
<1> HIDE DEF slots
<1>6. /\ ups1 \in Seq(Upval(slots, W)) /\ DOMAIN ups1 = DOMAIN ups
      /\ list1 \in Seq(DOMAIN ups1)
      /\ Descending(ups1, list1)
      /\ Exact(ups1, list1)
      /\ \A u \in DOMAIN ups : ups1[u].slot = ups[u].slot
      /\ \A i \in DOMAIN list1 : \E j \in DOMAIN list :
            list1[i] = list[j] /\ ups[list[j]].slot < level
  <2> HIDE DEF ups1, list1
  <2>1. LET x == ClosedFrom(ups, list, level, stack)
            y == LeftOpen(ups, list, level)
        IN  /\ x \in Seq(Upval(slots, W)) /\ DOMAIN x = DOMAIN ups
            /\ y \in Seq(DOMAIN x)
            /\ Descending(x, y)
            /\ Exact(x, y)
            /\ (\A s \in slots : s >= level) => y = <<>>
            /\ \A u \in DOMAIN ups : x[u].slot = ups[u].slot
            /\ \A i \in DOMAIN y : \E j \in DOMAIN list :
                  y[i] = list[j] /\ ups[list[j]].slot < level
    BY <1>4, <1>5, <1>10, CloseKeepsList, ZenonT(60)
  <2> QED BY <2>1 DEF ups1, list1
<1>7. \A j \in DOMAIN list : list[j] \in DOMAIN ups
  BY ListedSlots
<1> HIDE DEF ups1, list1
<1>8. Listed(ups1, list1)
  BY <1>2, <1>6 DEF Listed, slots
<1>9. \A i \in DOMAIN list1 : \E j \in DOMAIN list :
         ups1[list1[i]].slot = ups[list[j]].slot /\ ups[list[j]].slot < level
  BY <1>6, <1>7
<1> QED BY <1>8, <1>9 DEF ups1, list1

LEMMA Opening ==
    ASSUME NEW ups, NEW list, Listed(ups, list), NEW slot \in Nat,
           Hits(ups, list, slot) = {},
           NEW ups1, ups1 = Append(ups, OpenUpval(slot)),
           NEW list1, list1 = Inserted(ups, list, slot),
           NEW fs, AllOwned(fs, ups, list), Owned(fs, slot)
    PROVE  Listed(ups1, list1) /\ AllOwned(fs, ups1, list1)
<1> DEFINE slots == Nat
<1>1. PICK V : 0 \in V /\ ups \in Seq(Upval(Nat, V))
  BY DEF Listed
<1>2. list \in Seq(DOMAIN ups) /\ Descending(ups, list) /\ Exact(ups, list)
  BY DEF Listed
<1>3. slots \in SUBSET Int /\ ups \in Seq(Upval(slots, V)) /\ slot \in slots
  BY <1>1
<1> HIDE DEF slots
<1>4. /\ list1 \in Seq(DOMAIN ups1) /\ Descending(ups1, list1) /\ Exact(ups1, list1)
      /\ \A i \in DOMAIN list1 :
            \/ list1[i] = Len(ups) + 1
            \/ \E j \in DOMAIN list : list1[i] = list[j]
  BY <1>1, <1>2, <1>3, InsertKeepsList
<1>5. /\ ups1 \in Seq(Upval(slots, V)) /\ \A u \in DOMAIN ups : ups1[u] = ups[u]
      /\ ups1[Len(ups) + 1] = OpenUpval(slot)
  BY <1>1, <1>3, Appended
<1>6. \A j \in DOMAIN list : list[j] \in DOMAIN ups
  BY ListedSlots
<1>7. OpenUpval(slot).slot = slot
  BY DEF OpenUpval
<1>8. Listed(ups1, list1)
  BY <1>1, <1>4, <1>5 DEF Listed, slots
<1>9. \A i \in DOMAIN list1 :
         \/ ups1[list1[i]].slot = slot
         \/ \E j \in DOMAIN list : ups1[list1[i]].slot = ups[list[j]].slot
  BY <1>4, <1>5, <1>6, <1>7
<1> QED BY <1>8, <1>9 DEF AllOwned

\* A value that is written to a closed upvalue.
LEMMA Rewritten ==
    ASSUME NEW ups, NEW list, Listed(ups, list), NEW u \in DOMAIN ups, NEW v
    PROVE  LET ups1 == [ups EXCEPT ![u].value = v]
           IN  /\ Listed(ups1, list)
               /\ \A i \in DOMAIN list : ups1[list[i]].slot = ups[list[i]].slot
<1> DEFINE ups1 == [ups EXCEPT ![u].value = v]
<1>1. PICK V : 0 \in V /\ ups \in Seq(Upval(Nat, V))
  BY DEF Listed
<1> DEFINE W == V \cup {v}
<1>2. V \subseteq W /\ 0 \in W /\ v \in W
  BY <1>1
<1> HIDE DEF W
<1>3. ups \in Seq(Upval(Nat, W))
  BY <1>1, <1>2, UpvalsOver
<1>4. /\ DOMAIN ups = 1 .. Len(ups) /\ Len(ups) \in Nat
      /\ \A x \in DOMAIN ups : ups[x] \in Upval(Nat, W)
      /\ \A i \in DOMAIN list : list[i] \in DOMAIN ups
  BY <1>3, ListedSlots, ElementOfSeq
<1>5. DOMAIN ups1 = DOMAIN ups
  OBVIOUS
<1>6. \A x \in DOMAIN ups :
         /\ ups1[x] \in Upval(Nat, W) /\ ups1[x].slot = ups[x].slot
         /\ ups1[x].closed = ups[x].closed
  <2> TAKE x \in DOMAIN ups
  <2>0. ups[x] \in Upval(Nat, W)
    BY <1>4
  <2>1. CASE x = u
    <3>1. ups1[x] = [ups[x] EXCEPT !.value = v]
      BY <2>1
    <3> HIDE DEF ups1
    <3> QED BY <1>2, <2>0, <3>1 DEF Upval
  <2>2. CASE x # u
    <3>1. ups1[x] = ups[x]
      BY <2>2
    <3> HIDE DEF ups1
    <3> QED BY <2>0, <3>1
  <2> QED BY <2>1, <2>2
<1>7. ups1 \in Seq(Upval(Nat, W))
  <2>1. ups1 = [x \in 1 .. Len(ups) |-> ups1[x]]
    BY <1>4
  <2> HIDE DEF ups1
  <2> QED BY <1>4, <1>6, <2>1, SeqDef
<1> HIDE DEF ups1
<1>8. list \in Seq(DOMAIN ups1) /\ Descending(ups1, list) /\ Exact(ups1, list)
  <2>1. list \in Seq(DOMAIN ups) /\ Descending(ups, list) /\ Exact(ups, list)
    BY DEF Listed
  <2>2. Descending(ups1, list)
    BY <1>4, <1>6, <2>1 DEF Descending
  <2>3. Exact(ups1, list)
    BY <1>5, <1>6, <2>1 DEF Exact
  <2> QED BY <1>5, <2>1, <2>2, <2>3
<1>9. Listed(ups1, list)
  BY <1>2, <1>7, <1>8 DEF Listed
<1> QED BY <1>4, <1>6, <1>9 DEF ups1

\* The frames change, and some upvalues are closed.
LEMMA ClosedStill ==
    ASSUME NEW fs, Listed(upvals, openUpvals), AllOwned(fs, upvals, openUpvals),
           NEW level \in Int, NEW stack, CloseTo(level, stack),
           \A slot \in Nat : slot < level /\ Owned(fs, slot) => Owned(frames', slot)
    PROVE  UpvalInv'
<1>1. /\ Listed(upvals', openUpvals')
      /\ \A i \in DOMAIN openUpvals' : \E j \in DOMAIN openUpvals :
            /\ upvals'[openUpvals'[i]].slot = upvals[openUpvals[j]].slot
            /\ upvals[openUpvals[j]].slot < level
  BY Closing DEF CloseTo
<1>2. \A j \in DOMAIN openUpvals : upvals[openUpvals[j]].slot \in Nat
  BY ListedSlots
<1>3. \A i \in DOMAIN openUpvals' : Owned(frames', upvals'[openUpvals'[i]].slot)
  BY <1>1, <1>2 DEF AllOwned
<1> QED BY <1>1, <1>3 DEF UpvalInv, AllOwned

LEMMA OpenStill ==
    ASSUME NEW fs, Listed(upvals, openUpvals), AllOwned(fs, upvals, openUpvals),
           UNCHANGED <<upvals, openUpvals>>,
           \A slot \in Nat : Owned(fs, slot) => Owned(frames', slot)
    PROVE  UpvalInv'
<1>1. \A j \in DOMAIN openUpvals : upvals[openUpvals[j]].slot \in Nat
  BY ListedSlots
<1>2. \A i \in DOMAIN openUpvals' : Owned(frames', upvals'[openUpvals'[i]].slot)
  BY <1>1 DEF AllOwned
<1> QED BY <1>2 DEF UpvalInv, AllOwned

\* What a panic closes is what it takes from the stack.
LEMMA UnwindsUpvals ==
    ASSUME NEW s, NEW fs, Raises(s, fs), NEW err \in Int, Throw(s, fs, err),
           Listed(upvals, openUpvals), AllOwned(fs, upvals, openUpvals)
    PROVE  UpvalInv'
<1> DEFINE n == Len(fs)
           p == LandingOf(fs)
           f == fs[p]
           level == f.at + 1
<1>1. /\ n \in Nat /\ \A i \in 1 .. n : fs[i] \in FrameSet
      /\ fs \in Seq(FrameSet) /\ Layered(fs)
  BY HostFirst DEF Raises, Stands
<1>2. /\ p \in 1 .. n /\ f \in FrameSet /\ f.kind \in {"host", "pcall", "xpcall"}
  BY Landing
<1>3. PICK err1 \in Int : frames' = Append(SubSeq(fs, 1, p - 1),
                                           [f EXCEPT !.phase = Fallen(f), !.err = err1])
  BY Lands
<1>4. CloseTo(level, s.slots)
  BY Lands
<1> DEFINE g == [f EXCEPT !.phase = Fallen(f), !.err = err1]
<1> HIDE DEF n, p
<1>5. f.at \in Nat /\ level \in Int
  BY <1>2 DEF FrameSet
<1>6. Len(frames') = p /\ \A i \in 1 .. p - 1 : frames'[i] = fs[i]
  <2>1. fs \in Seq({fs[i] : i \in 1 .. n} \cup {g})
    <3> DEFINE S == {fs[i] : i \in 1 .. n} \cup {g}
    <3>1. fs = [i \in 1 .. n |-> fs[i]]
      BY <1>1, LenProperties DEF n
    <3>2. \A i \in 1 .. n : fs[i] \in S
      OBVIOUS
    <3> HIDE DEF S
    <3>3. fs \in Seq(S)
      BY <1>1, <3>1, <3>2, SeqDef
    <3> QED BY <3>3 DEF S
  <2> DEFINE S == {fs[i] : i \in 1 .. n} \cup {g}
  <2>2. g \in S /\ fs \in Seq(S) /\ p \in 1 .. Len(fs)
    BY <1>2, <2>1 DEF n
  <2> HIDE DEF S, g
  <2>3. LET x == Append(SubSeq(fs, 1, p - 1), g)
        IN  Len(x) = p /\ \A i \in 1 .. p - 1 : x[i] = fs[i]
    BY <2>2, PrefixAnd
  <2> QED BY <1>3, <2>3 DEF g
<1>7. ASSUME NEW slot \in Nat, slot < level, Owned(fs, slot)
      PROVE  Owned(frames', slot)
  <2>1. PICK j \in 1 .. n : fs[j].kind = "lua" /\ slot - fs[j].base \in 0 .. fs[j].live - 1
    BY <1>7 DEF Owned, n
  <2>2. j # p
    BY <1>2, <2>1
  <2>3. ~(p < j)
    <3> SUFFICES ASSUME p < j PROVE FALSE
      OBVIOUS
    <3>1. Place(f) + 1 <= fs[j].base - fs[j].nvar
      BY <1>1, <1>2 DEF Layered, n
    <3>2. Place(f) >= f.at /\ Place(f) \in Nat
      BY <1>5 DEF Place
    <3>3. fs[j].base \in Nat /\ fs[j].nvar \in Nat /\ fs[j].live \in Nat
      BY <1>1 DEF FrameSet
    <3>4. fs[j].base <= slot
      BY <2>1, <3>3
    <3> QED BY <1>5, <1>7, <3>1, <3>2, <3>3, <3>4
  <2>4. j \in 1 .. p - 1 /\ j \in 1 .. p
    BY <1>1, <1>2, <2>2, <2>3
  <2> QED BY <1>6, <2>1, <2>4 DEF Owned
<1> HIDE DEF level
<1> QED BY <1>4, <1>5, <1>7, ClosedStill

\* A frame more.
LEMMA OwnedStill ==
    ASSUME NEW fs, NEW gs, Len(fs) \in Nat, Len(gs) \in Nat, Len(fs) <= Len(gs),
           \A i \in 1 .. Len(fs) :
              fs[i].kind = "lua" => /\ gs[i].kind = "lua" /\ gs[i].base = fs[i].base
                                    /\ fs[i].live \in Nat /\ gs[i].live \in Nat
                                    /\ fs[i].live <= gs[i].live /\ fs[i].base \in Nat,
           NEW slot \in Nat, Owned(fs, slot)
    PROVE  Owned(gs, slot)
<1>1. PICK j \in 1 .. Len(fs) : fs[j].kind = "lua" /\ slot - fs[j].base \in 0 .. fs[j].live - 1
  BY DEF Owned
<1>2. /\ gs[j].kind = "lua" /\ gs[j].base = fs[j].base
      /\ fs[j].live \in Nat /\ gs[j].live \in Nat /\ fs[j].base \in Nat
      /\ fs[j].live <= gs[j].live
  BY <1>1
<1>3. j \in 1 .. Len(gs)
  OBVIOUS
<1>4. slot - gs[j].base \in 0 .. gs[j].live - 1
  <2>1. slot - gs[j].base \in 0 .. fs[j].live - 1
    BY <1>1, <1>2
  <2> QED BY <1>2, <2>1, SMTT(30)
<1> QED BY <1>2, <1>3, <1>4 DEF Owned

-----------------------------------------------------------------------------
(* A call                                                                  *)

\* A last frame that counts as the one before it.
LEMMA StillCounted ==
    ASSUME NEW s, NEW fs, Stands(s, fs), NEW g \in FrameSet,
           g.kind = fs[Len(fs)].kind, g.base = fs[Len(fs)].base,
           g.phase \in {"ready", "handling"} <=> fs[Len(fs)].phase \in {"ready", "handling"},
           NEW base, NEW quiet, NEW handling, Counted(fs, base, quiet, handling)
    PROVE  Counted(Caller(fs, g), base, quiet, handling)
<1> DEFINE n == Len(fs)
           gs == Caller(fs, g)
<1>1. fs[1].kind # "lua" /\ n \in Nat /\ n >= 1 /\ fs \in Seq(FrameSet)
  BY HostFirst DEF Stands
<1>2. /\ gs \in Seq(FrameSet) /\ Len(gs) = n /\ gs[n] = g
      /\ \A i \in 1 .. n - 1 : gs[i] = fs[i]
  BY <1>1, CallerAnd
<1> HIDE DEF n, gs
<1>3. \A i \in 1 .. n : i = n \/ i \in 1 .. n - 1
  BY <1>1
<1>4. \A i \in 1 .. n : gs[i].kind = fs[i].kind /\ gs[i].base = fs[i].base
  BY <1>2, <1>3 DEF n
<1>5. BaseOf(gs, n) = BaseOf(fs, n)
  BY <1>1, <1>4, BaseSame
<1>6. Handlers(gs) = Handlers(fs)
  BY <1>2, <1>3 DEF Handlers, n
<1>7. Quiets(gs) = Quiets(fs)
  BY <1>2, <1>4 DEF Quiets, n
<1> QED BY <1>2, <1>5, <1>6, <1>7 DEF Counted, gs, n

\* Where Go values begin is a place on the stack.
LEMMA BaseIsNat ==
    ASSUME NEW s, NEW fs, Stands(s, fs), NEW n \in 1 .. Len(fs)
    PROVE  BaseOf(fs, n) \in Nat
<1>1. /\ fs[1].kind # "lua" /\ Len(fs) \in Nat /\ Len(fs) >= 1
      /\ \A i \in 1 .. Len(fs) : fs[i] \in FrameSet
  BY HostFirst
<1>2. PICK j \in 1 .. n : BaseOf(fs, n) = fs[j].base
  BY <1>1, BaseFound, n \in Nat /\ n >= 1
<1>3. fs[j] \in FrameSet
  BY <1>1, j \in 1 .. Len(fs)
<1> QED BY <1>2, <1>3 DEF FrameSet

LEMMA FrameOf ==
    ASSUME NEW f \in FunctionSet, NEW base \in Nat, NEW want \in WantSet,
           NEW nvar \in Nat, callBase \in Nat
    PROVE  LET c == Frame(f, base, want, nvar)
           IN  /\ c \in FrameSet /\ c.kind = f.kind /\ c.base = base /\ c.want = want
               /\ c.nvar = nvar /\ c.max = f.max /\ c.live = f.params /\ ~c.open
               /\ c.phase = "run" /\ c.savedBase = callBase
<1>1. f.kind \in Kinds /\ f.max \in Nat /\ f.params \in Nat /\ f.vararg \in BOOLEAN
  BY DEF FunctionSet, Kinds
<1>2. "run" \in Phases /\ Nil \in Int
  BY DEF Phases, Nil
<1> QED BY <1>1, <1>2 DEF Frame, FrameSet

LEMMA CallLands ==
    ASSUME FramesInv, NEW s, Sound(s), Cap(s) >= Cap(k), NEW g \in FrameSet,
           g.kind = F.kind, g.base = F.base, g.nvar = F.nvar, g.want = F.want,
           g.savedBase = F.savedBase, Waits(s, g),
           g.phase \in {"ready", "handling"} <=> F.phase \in {"ready", "handling"},
           NEW at \in Nat, at = Place(g), NEW nargs \in Nat, at + 1 + nargs <= s.len,
           NEW want \in WantSet,
           g.phase = "handling" \/ (g.kind = "lua" /\ g.op # "call") => want = 1,
           g.kind = "lua" /\ g.op = "call" /\ want # Multi => g.live + want <= g.max,
           NEW f \in FunctionSet, CallValue(s, Caller(frames, g), at, nargs, want, f),
           Listed(upvals, openUpvals), AllOwned(Caller(frames, g), upvals, openUpvals)
    PROVE  FramesInv' /\ UpvalInv'
<1> DEFINE fs == Caller(frames, g)
           n  == Len(frames)
<1>0. Stands(k, frames) /\ Counted(frames, callBase, nonyieldable, inErrHandler)
  BY DEF FramesInv
<1>1. n \in Nat /\ n >= 1 /\ n \in 1 .. n /\ frames \in Seq(FrameSet)
  BY <1>0, HostFirst DEF Stands
<1>2. Len(fs) = n /\ fs[n] = g
  BY <1>1, CallerAnd
<1>3. Stands(s, fs)
  BY <1>0, <1>1, PrefixStands DEF Caller, F, Me
<1>4. Counted(fs, callBase, nonyieldable, inErrHandler)
  BY <1>0, StillCounted DEF F, Me
<1>5. callBase \in Nat
  <2>1. BaseOf(frames, n) \in Nat
    BY <1>0, <1>1, BaseIsNat
  <2> QED BY <1>0, <2>1 DEF Counted
<1> HIDE DEF fs, n
<1>6. Entered(s, fs, at, want, f)
  BY <1>1, <1>2, ValueEntered DEF fs
<1>7. PICK s1, extra :
        /\ Sound(s1) /\ Cap(s1) >= Cap(s) /\ extra \in Nat
        /\ Len(fs) >= MaxDepth => Throw(s1, fs, Overflow)
        /\ Len(fs) < MaxDepth =>
              /\ PushFrame(s1, fs, Frame(f, at + 1 + extra, want, extra))
              /\ f.kind = "lua" => at + 1 + extra + f.max <= s1.len
              /\ f.kind # "lua" => extra = 0 /\ s1.top = s1.len /\ at + 1 <= s1.top
  BY <1>6 DEF Entered
<1>8. MaxDepth \in Nat
  BY CallsAssumption
<1>9. CASE Len(fs) >= MaxDepth
  <2>1. Stands(s1, fs)
    BY <1>3, <1>7, StandsGrows
  <2>2. Waits(s1, fs[Len(fs)])
    BY <1>2, <1>7, WaitsGrows DEF Sound, Whole
  <2>3. Raises(s1, fs)
    BY <2>1, <2>2 DEF Raises
  <2>4. Overflow \in Int /\ Throw(s1, fs, Overflow)
    BY <1>7, <1>9 DEF Overflow
  <2>5. FramesInv'
    BY <1>4, <2>3, <2>4, Unwinds
  <2>6. UpvalInv'
    BY <2>3, <2>4, UnwindsUpvals DEF fs
  <2> QED BY <2>5, <2>6
<1>10. CASE Len(fs) < MaxDepth
  <2> DEFINE c == Frame(f, at + 1 + extra, want, extra)
  <2>1. at + 1 + extra \in Nat
    BY <1>7
  <2>2. /\ c \in FrameSet /\ c.kind = f.kind /\ c.base = at + 1 + extra /\ c.want = want
        /\ c.nvar = extra /\ c.max = f.max /\ c.live = f.params /\ ~c.open
        /\ c.phase = "run" /\ c.savedBase = callBase
    BY <1>5, <1>7, <2>1, FrameOf
  <2>3. PushFrame(s1, fs, c)
    BY <1>7, <1>10
  <2> HIDE DEF c
  <2>4. f.kind \in {"lua", "go", "quiet", "pcall", "xpcall"}
    BY DEF FunctionSet
  <2>5. f.kind = "lua" => f.params <= f.max
    BY DEF FunctionSet
  <2>6. c.kind # "host" /\ (c.kind # "lua" => c.nvar = 0)
    BY <1>7, <1>10, <2>2, <2>4
  <2>7. Runs(s1, c)
    <3>1. CASE f.kind = "lua"
      BY <1>7, <1>10, <2>2, <2>5, <3>1 DEF Runs
    <3>2. CASE f.kind # "lua"
      <4>1. s1.top = s1.len /\ c.base <= s1.top
        BY <1>7, <1>10, <2>2, <3>2
      <4> QED BY <2>2, <3>2, <4>1 DEF Runs
    <3> QED BY <3>1, <3>2
  <2>8. InPlace(g, c)
    BY <2>2 DEF InPlace
  <2>9. FramesInv'
    BY <1>2, <1>3, <1>4, <1>7, <1>10, <2>2, <2>3, <2>6, <2>7, <2>8, Enters
  <2>10. UpvalInv'
    <3>1. frames' = Append(fs, c) /\ UNCHANGED <<upvals, openUpvals>>
      BY <2>3 DEF PushFrame
    <3>2. fs \in Seq(FrameSet) /\ Len(fs) \in Nat /\ \A i \in 1 .. Len(fs) : fs[i] \in FrameSet
      BY <1>3, HostFirst DEF Stands
    <3>3. Len(frames') = Len(fs) + 1 /\ \A i \in 1 .. Len(fs) : frames'[i] = fs[i]
      BY <2>2, <3>1, <3>2, AppendAnd
    <3>4. \A i \in 1 .. Len(fs) : fs[i].live \in Nat /\ fs[i].base \in Nat
      BY <3>2 DEF FrameSet
    <3>5. \A slot \in Nat : Owned(fs, slot) => Owned(frames', slot)
      <4>1. Len(frames') \in Nat /\ Len(fs) <= Len(frames')
        BY <3>2, <3>3
      <4>2. \A i \in 1 .. Len(fs) :
               fs[i].kind = "lua" =>
                  /\ frames'[i].kind = "lua" /\ frames'[i].base = fs[i].base
                  /\ fs[i].live \in Nat /\ frames'[i].live \in Nat
                  /\ fs[i].live <= frames'[i].live /\ fs[i].base \in Nat
        BY <3>3, <3>4
      <4> QED BY <3>2, <4>1, <4>2, OwnedStill
    <3> QED BY <3>1, <3>5, OpenStill DEF fs
  <2> QED BY <2>9, <2>10
<1> QED BY <1>2, <1>1, <1>8, <1>9, <1>10
-----------------------------------------------------------------------------
(* A return                                                                *)

\* How many results a caller gets.
Given(want, n) == IF want = Multi THEN n ELSE want

LEMMA DeliveredStack ==
    ASSUME F.want \in WantSet, NEW s, Sound(s), NEW from \in Nat, NEW n \in Nat,
           NEW to \in Nat, from + n <= s.len, to <= from
    PROVE  LET d == Delivered(s, from, n, to)
           IN  /\ Sound(d) /\ Cap(d) >= Cap(s)
               /\ d.len = to + Given(F.want, n) /\ d.top = to + Given(F.want, n)
<1> DEFINE want == F.want
           keep == IF want # Multi /\ n > want THEN want ELSE n
           pad  == IF want = Multi THEN 0 ELSE want - keep
           k2   == Copy(s, from, to, keep)
           end  == to + keep + pad
           k3   == IF pad = 0 THEN k2
                   ELSE Write(ReserveTo(k2, end), to + keep, Nils(pad))
           d    == Cut(k3, end)
<1>1. d = Delivered(s, from, n, to)
  BY DEF Delivered
<1>2. /\ Whole(s) /\ s.len \in Nat /\ s.top \in Nat /\ Cap(s) \in Nat /\ s.len <= Cap(s)
      /\ want \in WantSet
  BY DEF Sound, Whole
<1> HIDE DEF want
<1>3. /\ keep \in Nat /\ pad \in Nat /\ keep <= n /\ keep + pad = Given(want, n)
      /\ end \in Nat
  <2>1. CASE want = Multi
    BY <2>1 DEF Given
  <2>2. CASE want # Multi /\ n > want
    BY <1>2, <2>2 DEF Given, WantSet
  <2>3. CASE want # Multi /\ ~(n > want)
    BY <1>2, <2>3 DEF Given, WantSet
  <2> QED BY <2>1, <2>2, <2>3
<1> HIDE DEF keep, pad
<1>4. Whole(k2) /\ Cap(k2) = Cap(s) /\ k2.len = s.len /\ k2.top = s.top
  <2>1. from + keep <= s.len /\ to + keep <= s.len
    BY <1>2, <1>3
  <2> QED BY <1>2, <1>3, <2>1, Copied
<1> HIDE DEF k2
<1>5. Whole(k3) /\ Cap(k3) >= Cap(s) /\ end <= k3.len
  <2>1. CASE pad = 0
    <3>1. end <= s.len
      BY <1>2, <1>3, <2>1
    <3> QED BY <1>2, <1>4, <2>1, <3>1
  <2>2. CASE pad # 0
    <3> DEFINE a == ReserveTo(k2, end)
               vals == Nils(pad)
               w == Write(a, to + keep, vals)
    <3>1. /\ Whole(a) /\ Cap(a) >= Cap(k2) /\ a.len = Larger(k2.len, end)
      BY <1>3, <1>4, Reserved
    <3>2. Len(vals) = pad
      BY <1>3, NilsLen
    <3> HIDE DEF a, vals
    <3>3. end <= a.len /\ Len(vals) \in Nat /\ to + keep \in Nat
      BY <1>2, <1>3, <1>4, <3>1, <3>2 DEF Larger
    <3>4. to + keep + Len(vals) <= a.len
      BY <3>2, <3>3
    <3>5. Whole(w) /\ Cap(w) = Cap(a) /\ w.len = a.len
      BY <3>1, <3>3, <3>4, Written
    <3>6. k3 = w
      BY <2>2 DEF a, vals
    <3> HIDE DEF w, k3
    <3> QED BY <1>4, <3>1, <3>3, <3>5, <3>6
  <2> QED BY <2>1, <2>2
<1> HIDE DEF k3
<1>6. end \in 0 .. Cap(k3)
  BY <1>3, <1>5 DEF Whole
<1> HIDE DEF end
<1>7. Sound(d) /\ Cap(d) = Cap(k3) /\ d.len = end /\ d.top = end
  BY <1>5, <1>6, CutShort
<1> HIDE DEF d
<1>8. end = to + Given(want, n)
  BY <1>3 DEF end
<1> QED BY <1>1, <1>5, <1>7, <1>8 DEF want

\* The stack with which the caller goes on, and how it goes on.
GoesOn(s, c, r) == Sound(r) /\ Cap(r) >= Cap(s) /\ Runs(r, c)

LEMMA OperatorStack ==
    ASSUME NEW s, Sound(s), NEW c \in FrameSet, Waits(s, c), c.kind = "lua",
           c.op = "operator", s.top = c.at + 1, s.len = c.at + 1
    PROVE  LET r == OperatorDone(s, c)
           IN  Sound(r) /\ Cap(r) >= Cap(s) /\ c.base + c.max <= r.len
<1> DEFINE k2 == IF c.len > s.top THEN Reslice(s, c.len) ELSE s
           k3 == [k2 EXCEPT !.top = c.top]
           r  == Copy(k3, c.at, c.base + c.live, 1)
<1>1. /\ c.base \in Nat /\ c.max \in Nat /\ c.live \in Nat /\ c.at \in Nat
      /\ c.top \in Nat /\ c.len \in Nat /\ c.base + c.live \in Nat
  BY DEF FrameSet
<1>2. /\ c.base + c.max <= c.len /\ c.top <= c.len /\ c.len <= Cap(s) /\ c.live < c.max
      /\ c.base + c.live + 1 <= c.at
  BY DEF Waits
<1>3. Whole(s) /\ s.len \in Nat /\ Cap(s) \in Nat
  BY DEF Sound, Whole
<1>4. /\ Whole(k2) /\ Cap(k2) = Cap(s) /\ c.len <= k2.len /\ c.at + 1 <= k2.len
      /\ k2.len \in Nat
  <2>1. CASE c.len > s.top
    <3>1. Whole(Reslice(s, c.len)) /\ Cap(Reslice(s, c.len)) = Cap(s)
          /\ Reslice(s, c.len).len = c.len
      BY <1>1, <1>2, <1>3, Resliced
    <3> QED BY <1>1, <2>1, <3>1
  <2>2. CASE ~(c.len > s.top)
    BY <1>1, <1>3, <2>2
  <2> QED BY <2>1, <2>2
<1> HIDE DEF k2
<1>5. Whole(k3) /\ Cap(k3) = Cap(k2) /\ k3.len = k2.len /\ k3.top = c.top
  BY <1>1, <1>4, TopMoved
<1> HIDE DEF k3
<1>6. c.at + 1 <= k3.len /\ c.base + c.live + 1 <= k3.len
  BY <1>1, <1>2, <1>4, <1>5
<1>7. Whole(r) /\ Cap(r) = Cap(k3) /\ r.len = k3.len /\ r.top = k3.top
  BY <1>1, <1>5, <1>6, Copied, SMTT(30)
<1> HIDE DEF r
<1>8. Sound(r) /\ Cap(r) >= Cap(s) /\ c.base + c.max <= r.len
  BY <1>1, <1>2, <1>3, <1>4, <1>5, <1>7 DEF Sound
<1> QED BY <1>8 DEF OperatorDone, r, k2, k3

LEMMA IterateStack ==
    ASSUME NEW s, Sound(s), NEW c \in FrameSet, Waits(s, c), c.kind = "lua",
           c.op = "iterate", s.len = c.at + 1
    PROVE  LET r == IterateDone(s, c)
           IN  Sound(r) /\ Cap(r) >= Cap(s) /\ c.base + c.max <= r.len
<1> DEFINE end == c.base + c.max
           a == Reframe(s, end)
           b == Copy(a, c.at, c.base + c.live, 1)
           d == Cut(b, c.at)
           r == Reframe(d, end)
<1>1. /\ c.base \in Nat /\ c.max \in Nat /\ c.live \in Nat /\ c.at \in Nat
      /\ c.base + c.live \in Nat /\ end \in Nat
  BY DEF FrameSet
<1>2. c.live < c.max /\ c.base + c.live + 1 <= c.at
  BY DEF Waits
<1>3. Whole(s) /\ s.len \in Nat /\ Cap(s) \in Nat
  BY DEF Sound, Whole
<1>4. Whole(a) /\ Cap(a) >= Cap(s) /\ a.len = Larger(s.len, end)
  BY <1>1, <1>3, Reframed
<1> HIDE DEF a
<1>5. /\ c.at + 1 <= a.len /\ c.base + c.live + 1 <= a.len
      /\ Cap(a) \in Nat /\ a.len \in Nat /\ a.len <= Cap(a)
  BY <1>1, <1>2, <1>3, <1>4, SMTT(30) DEF Larger, Whole
<1>6. Whole(b) /\ Cap(b) = Cap(a)
  BY <1>1, <1>4, <1>5, Copied, SMTT(30)
<1> HIDE DEF b
<1>7. Sound(d) /\ Cap(d) = Cap(b)
  BY <1>1, <1>5, <1>6, CutShort, c.at \in 0 .. Cap(b)
<1> HIDE DEF d
<1>8. Whole(r) /\ Cap(r) >= Cap(d) /\ r.len = Larger(d.len, end) /\ r.top = d.top
  BY <1>1, <1>7, Reframed DEF Sound
<1> HIDE DEF r
<1>9. /\ d.len \in Nat /\ d.top \in Nat /\ d.top <= d.len /\ Cap(d) \in Nat /\ Cap(r) \in Nat
  BY <1>7, <1>8 DEF Sound, Whole
<1>10. end <= r.len /\ r.top <= r.len
  BY <1>1, <1>8, <1>9 DEF Larger
<1>11. Sound(r) /\ Cap(r) >= Cap(s) /\ end <= r.len
  BY <1>3, <1>4, <1>5, <1>6, <1>7, <1>8, <1>9, <1>10 DEF Sound
<1> QED BY <1>11 DEF IterateDone, r, d, b, a, end

LEMMA CallStack ==
    ASSUME NEW s, Sound(s), NEW c \in FrameSet, NEW want
    PROVE  LET r == Reframe(IF want = Multi THEN s ELSE TopRestored(s, c), c.base + c.max)
           IN  /\ Sound(r) /\ Cap(r) >= Cap(s) /\ c.base + c.max <= r.len
               /\ want = Multi => r.top = s.top
<1> DEFINE end == c.base + c.max
           t == IF want = Multi THEN s ELSE TopRestored(s, c)
           r == Reframe(t, end)
<1>1. c.base \in Nat /\ c.max \in Nat /\ c.top \in Nat /\ end \in Nat
  BY DEF FrameSet
<1>2. Whole(s) /\ s.len \in Nat /\ Cap(s) \in Nat /\ s.len <= Cap(s)
  BY DEF Sound, Whole
<1>3. Sound(t) /\ Cap(t) >= Cap(s) /\ (want = Multi => t.top = s.top)
  <2>1. CASE want = Multi
    BY <1>2, <2>1
  <2>2. CASE want # Multi
    <3> DEFINE k2 == [s EXCEPT !.top = c.top]
               a == IF c.top > k2.len THEN ReserveTo(k2, 2 * c.top - k2.len) ELSE k2
               d == Reslice(a, c.top)
    <3>1. Whole(k2) /\ Cap(k2) = Cap(s) /\ k2.len = s.len /\ k2.top = c.top
      BY <1>1, <1>2, TopMoved
    <3> HIDE DEF k2
    <3>2. Whole(a) /\ Cap(a) >= Cap(s) /\ c.top <= a.len /\ a.top = c.top
      <4>1. CASE c.top > k2.len
        <5> DEFINE need == 2 * c.top - k2.len
                   b == ReserveTo(k2, need)
        <5>1. need \in Nat /\ c.top <= need
          BY <1>1, <1>2, <3>1, <4>1
        <5> HIDE DEF need
        <5>2. Whole(b) /\ Cap(b) >= Cap(k2) /\ b.len = Larger(k2.len, need) /\ b.top = k2.top
          BY <3>1, <5>1, Reserved
        <5>3. a = b
          BY <4>1 DEF need
        <5> HIDE DEF a, b
        <5> QED BY <1>1, <1>2, <3>1, <5>1, <5>2, <5>3 DEF Larger
      <4>2. CASE ~(c.top > k2.len)
        BY <1>1, <1>2, <3>1, <4>2
      <4> QED BY <4>1, <4>2
    <3> HIDE DEF a
    <3>3. c.top \in 0 .. Cap(a)
      BY <1>1, <3>2 DEF Whole
    <3>4. Whole(d) /\ Cap(d) = Cap(a) /\ d.len = c.top /\ d.top = a.top
      BY <3>2, <3>3, Resliced
    <3>5. t = d
      BY <2>2 DEF TopRestored, a, k2
    <3> HIDE DEF t, d
    <3> QED BY <1>1, <2>2, <3>2, <3>4, <3>5 DEF Sound
  <2> QED BY <2>1, <2>2
<1> HIDE DEF t
<1>4. Whole(r) /\ Cap(r) >= Cap(t) /\ r.len = Larger(t.len, end) /\ r.top = t.top
  BY <1>1, <1>3, Reframed DEF Sound
<1> HIDE DEF r
<1>5. /\ t.len \in Nat /\ t.top \in Nat /\ t.top <= t.len /\ Cap(t) \in Nat /\ Cap(r) \in Nat
  BY <1>3, <1>4 DEF Sound, Whole
<1>6. end <= r.len /\ r.top <= r.len
  BY <1>1, <1>4, <1>5 DEF Larger
<1>7. /\ Sound(r) /\ Cap(r) >= Cap(s) /\ end <= r.len
      /\ want = Multi => r.top = s.top
  BY <1>2, <1>3, <1>4, <1>5, <1>6 DEF Sound
<1> QED BY <1>7 DEF r, t, end
\* The caller of a function that returns n results to slot to.
LEMMA CallerGoesOn ==
    ASSUME NEW c \in FrameSet, NEW d \in FrameSet, InPlace(c, d), NEW s, Sound(s),
           Waits(s, c), NEW n \in Nat,
           s.top = Place(c) + Given(d.want, n), s.len = Place(c) + Given(d.want, n)
    PROVE  GoesOn(s, FrameFor(c, d.want), StackFor(c, s, d.want))
<1> DEFINE want == d.want
           g == FrameFor(c, want)
           r == StackFor(c, s, want)
<1>1. /\ c.base \in Nat /\ c.max \in Nat /\ c.live \in Nat /\ c.at \in Nat
      /\ c.kind \in Kinds /\ c.op \in {"call", "operator", "iterate"}
      /\ DOMAIN c = {"kind", "base", "want", "nvar", "max", "vararg", "live", "open",
                     "phase", "op", "at", "top", "len", "savedBase", "err"}
  BY DEF FrameSet
<1>2. Whole(s) /\ s.len \in Nat /\ Cap(s) \in Nat /\ s.len <= Cap(s) /\ Cap(s) >= Cap(s)
  BY DEF Sound, Whole
<1>3. CASE c.phase = "handling"
  <2>1. c.kind = "xpcall" /\ c.at = c.base + 1
    BY <1>1, <1>3 DEF Waits, Kinds
  <2>2. want = 1 /\ Place(c) = c.at + 1 /\ s.len = c.at + 2
    BY <1>1, <1>3 DEF InPlace, Place, Given, Multi
  <2>3. r = Write(Cut(s, c.at + 1), c.at, Values(s, c.at + 1, 1))
    BY <1>3, <2>1 DEF StackFor
  <2>4. Values(s, c.at + 1, 1) = <<s.slots[c.at + 1]>>
    BY <1>1 DEF Values
  <2> HIDE DEF r
  <2>5. Sound(r) /\ Cap(r) = Cap(s) /\ r.top = c.at + 1 /\ r.len = c.at + 1
    <3>1. c.at + 1 <= Cap(s) /\ c.at \in Nat
      BY <1>1, <1>2, <2>2
    <3>2. \E v : r = Write(Cut(s, c.at + 1), c.at, <<v>>)
      BY <2>3, <2>4
    <3> QED BY <3>1, <3>2, CutAndWritten, ZenonT(60)
  <2>6. g.kind = c.kind /\ g.base = c.base /\ g.at = c.at /\ g.phase = "failed" /\ g.open = c.open
    <3>1. g = [c EXCEPT !.phase = "failed"]
      BY <1>3, <2>1 DEF FrameFor
    <3> HIDE DEF g
    <3> QED BY <1>1, <3>1
  <2>7. ~c.open
    BY DEF Waits
  <2> HIDE DEF g
  <2>8. Runs(r, g)
    BY <1>1, <2>1, <2>5, <2>6, <2>7 DEF Runs
  <2> QED BY <1>2, <2>5, <2>8 DEF GoesOn, g, r
<1>4. CASE c.phase # "handling" /\ c.kind # "lua"
  <2>1. r = s
    BY <1>4 DEF StackFor
  <2>2. /\ g.kind = c.kind /\ g.base = c.base /\ g.at = c.at /\ g.open = c.open
        /\ c.kind \in {"pcall", "xpcall"} => g.phase = "ok"
        /\ c.kind \in {"go", "quiet", "host"} => g.phase = "run"
    <3>1. /\ c.kind \in {"pcall", "xpcall"} => g = [c EXCEPT !.phase = "ok"]
          /\ c.kind \in {"go", "quiet", "host"} => g = [c EXCEPT !.phase = "run"]
      BY <1>4 DEF FrameFor
    <3>2. c.kind \in {"pcall", "xpcall"} \/ c.kind \in {"go", "quiet", "host"}
      BY <1>1, <1>4 DEF Kinds
    <3> HIDE DEF g
    <3> QED BY <1>1, <3>1, <3>2
  <2>3. c.base <= c.at /\ ~c.open /\ Place(c) = c.at
    BY <1>4 DEF Waits, Place
  <2>4. Given(want, n) \in Nat
    <3>1. want \in Nat \/ want = Multi
      BY DEF FrameSet, WantSet
    <3> QED BY <3>1 DEF Given
  <2>5. s.top = s.len /\ c.base <= s.top /\ c.at <= s.top
    BY <1>1, <2>3, <2>4
  <2>6. c.kind = "pcall" => c.at = c.base
    BY DEF Waits
  <2>7. c.kind = "xpcall" => c.at = c.base + 1
    BY DEF Waits
  <2> HIDE DEF g, r
  <2>8. Runs(s, g)
    BY <1>1, <1>4, <2>2, <2>3, <2>5, <2>6, <2>7 DEF Runs, Kinds
  <2> QED BY <1>2, <2>1, <2>8 DEF GoesOn, g, r
<1>5. CASE c.phase # "handling" /\ c.kind = "lua"
  <2>1. Place(c) = c.at /\ ~c.open /\ c.phase = "run" /\ c.live <= c.max
    BY <1>5 DEF Waits, Place
  <2>2. CASE c.op = "operator"
    <3>1. want = 1 /\ s.len = c.at + 1 /\ s.top = c.at + 1
      BY <1>5, <2>1, <2>2 DEF InPlace, Given, Multi
    <3>2. r = OperatorDone(s, c)
      BY <1>5, <2>2 DEF StackFor
    <3> HIDE DEF r
    <3>3. Sound(r) /\ Cap(r) >= Cap(s) /\ c.base + c.max <= r.len
      BY <1>5, <2>2, <3>1, <3>2, OperatorStack
    <3>4. /\ g.kind = c.kind /\ g.base = c.base /\ g.max = c.max /\ g.open = c.open
          /\ g.phase = c.phase /\ g.live = c.live + 1
      BY <1>1, <1>5, <2>2 DEF FrameFor
    <3>5. c.live + 1 <= c.max
      BY <1>1, <1>5, <2>2 DEF Waits
    <3> HIDE DEF g
    <3>6. Runs(r, g)
      BY <1>5, <2>1, <3>3, <3>4, <3>5 DEF Runs
    <3> QED BY <3>3, <3>6 DEF GoesOn, g, r
  <2>3. CASE c.op = "iterate"
    <3>1. want = 1 /\ s.len = c.at + 1
      BY <1>5, <2>1, <2>3 DEF InPlace, Given, Multi
    <3>2. r = IterateDone(s, c)
      BY <1>5, <2>3 DEF StackFor
    <3> HIDE DEF r
    <3>3. Sound(r) /\ Cap(r) >= Cap(s) /\ c.base + c.max <= r.len
      BY <1>5, <2>3, <3>1, <3>2, IterateStack
    <3>4. /\ g.kind = c.kind /\ g.base = c.base /\ g.max = c.max /\ g.open = c.open
          /\ g.phase = c.phase /\ g.live = c.live + 1
      BY <1>1, <1>5, <2>3 DEF FrameFor
    <3>5. c.live + 1 <= c.max
      BY <1>1, <1>5, <2>3 DEF Waits
    <3> HIDE DEF g
    <3>6. Runs(r, g)
      BY <1>5, <2>1, <3>3, <3>4, <3>5 DEF Runs
    <3> QED BY <3>3, <3>6 DEF GoesOn, g, r
  <2>4. CASE c.op = "call"
    <3>1. r = Reframe(IF want = Multi THEN s ELSE TopRestored(s, c), c.base + c.max)
      BY <1>5, <2>4 DEF StackFor
    <3> HIDE DEF r
    <3>2. /\ Sound(r) /\ Cap(r) >= Cap(s) /\ c.base + c.max <= r.len
          /\ want = Multi => r.top = s.top
      BY <3>1, CallStack
    <3>3. /\ g.kind = c.kind /\ g.base = c.base /\ g.max = c.max
          /\ g.phase = c.phase /\ g.live = c.live + (IF want = Multi THEN 0 ELSE want)
          /\ g.open = (want = Multi)
      BY <1>1, <1>5, <2>4 DEF FrameFor
    <3>4. want # Multi => c.live + want <= c.max
      BY <1>5, <2>4 DEF InPlace
    <3>5. c.at = c.base + c.live
      BY <1>5, <2>4 DEF Waits
    <3> HIDE DEF g
    <3>6. CASE want = Multi
      <4>0. g.open
        BY <3>3, <3>6
      <4>1. g.live = c.live /\ r.top = s.top
        BY <1>1, <3>2, <3>3, <3>6
      <4>3. s.top = c.at + n
        BY <2>1, <3>6 DEF Given
      <4>2. g.base + g.live <= r.top /\ g.live <= g.max
        BY <1>1, <2>1, <3>3, <3>5, <4>1, <4>3
      <4>4. Runs(r, g)
        BY <1>5, <2>1, <3>2, <3>3, <4>2 DEF Runs
      <4> QED BY <3>2, <4>4 DEF GoesOn, g, r
    <3>7. CASE want # Multi
      <4>1. g.live <= g.max /\ ~g.open
        BY <3>3, <3>4, <3>7
      <4>2. Runs(r, g)
        BY <1>5, <2>1, <3>2, <3>3, <4>1 DEF Runs
      <4> QED BY <3>2, <4>2 DEF GoesOn, g, r
    <3> QED BY <3>6, <3>7
  <2> QED BY <1>1, <2>2, <2>3, <2>4
<1> QED BY <1>3, <1>4, <1>5

LEMMA FrameForKeeps ==
    ASSUME NEW c \in FrameSet, NEW want \in WantSet, NEW s, Waits(s, c)
    PROVE  LET g == FrameFor(c, want)
           IN  /\ g \in FrameSet /\ g.kind = c.kind /\ g.base = c.base /\ g.nvar = c.nvar
               /\ g.want = c.want /\ g.savedBase = c.savedBase
               /\ g.phase \notin {"ready", "handling"} /\ c.live <= g.live
<1> DEFINE g == FrameFor(c, want)
<1>1. /\ c.live \in Nat /\ c.kind \in Kinds
      /\ c.op \in {"call", "operator", "iterate"} /\ c.phase \in Phases
  BY DEF FrameSet
<1>2. c.kind = "lua" => c.phase = "run"
  BY DEF Waits
<1>3. \/ g = [c EXCEPT !.phase = "failed"]
      \/ g = [c EXCEPT !.phase = "ok"]
      \/ g = [c EXCEPT !.phase = "run"]
      \/ c.kind = "lua" /\ g = [c EXCEPT !.live = @ + 1]
      \/ /\ c.kind = "lua"
         /\ g = [c EXCEPT !.live = @ + (IF want = Multi THEN 0 ELSE want),
                          !.open = (want = Multi)]
  <2>1. c.phase = "handling" \/ c.phase # "handling"
    OBVIOUS
  <2> QED BY <1>1, <2>1 DEF FrameFor, Kinds
<1>4. /\ "failed" \in Phases /\ "ok" \in Phases /\ "run" \in Phases
      /\ c.live + 1 \in Nat /\ c.live + (IF want = Multi THEN 0 ELSE want) \in Nat
      /\ (want = Multi) \in BOOLEAN
      /\ c.live <= c.live /\ c.live <= c.live + 1
      /\ c.live <= c.live + (IF want = Multi THEN 0 ELSE want)
  BY <1>1 DEF Phases, WantSet
<1> HIDE DEF g
<1>5. CASE \/ g = [c EXCEPT !.phase = "failed"]
           \/ g = [c EXCEPT !.phase = "ok"]
           \/ g = [c EXCEPT !.phase = "run"]
  BY <1>4, <1>5 DEF FrameSet, g
<1>6. CASE c.kind = "lua" /\ g = [c EXCEPT !.live = @ + 1]
  BY <1>2, <1>4, <1>6 DEF FrameSet, g
<1>7. CASE /\ c.kind = "lua"
           /\ g = [c EXCEPT !.live = @ + (IF want = Multi THEN 0 ELSE want),
                            !.open = (want = Multi)]
  BY <1>2, <1>4, <1>7 DEF FrameSet, g
<1> QED BY <1>3, <1>5, <1>6, <1>7

\* Two cuts of a sequence, one after the other.
LEMMA CutTwice ==
    ASSUME NEW S, NEW fs \in Seq(S), NEW m \in 0 .. Len(fs), NEW p \in 1 .. m
    PROVE  /\ SubSeq(SubSeq(fs, 1, m), 1, p - 1) = SubSeq(fs, 1, p - 1)
           /\ SubSeq(fs, 1, m) \in Seq(S) /\ Len(SubSeq(fs, 1, m)) = m
<1> DEFINE a == SubSeq(fs, 1, m)
           b == SubSeq(a, 1, p - 1)
           d == SubSeq(fs, 1, p - 1)
<1>1. Len(fs) \in Nat /\ \A i \in 1 .. Len(fs) : fs[i] \in S
  BY LenProperties, ElementOfSeq
<1>2. a \in Seq(S) /\ Len(a) = m /\ \A i \in 1 .. m : a[i] = fs[i]
  BY <1>1, SubSeqProperties
<1> HIDE DEF a
<1>3. b \in Seq(S) /\ Len(b) = p - 1 /\ \A i \in 1 .. p - 1 : b[i] = a[i]
  <2>1. \A i \in 1 .. p - 1 : a[i] \in S
    BY <1>1, <1>2
  <2> QED BY <1>1, <1>2, <2>1, SubSeqProperties
<1>4. d \in Seq(S) /\ Len(d) = p - 1 /\ \A i \in 1 .. p - 1 : d[i] = fs[i]
  BY <1>1, SubSeqProperties
<1> HIDE DEF b, d
<1>5. \A i \in 1 .. Len(b) : b[i] = d[i]
  BY <1>1, <1>2, <1>3, <1>4, SMTT(30)
<1>6. b = d
  BY <1>3, <1>4, <1>5, SeqEqual
<1> QED BY <1>2, <1>6 DEF a, b, d
LEMMA Pops ==
    ASSUME FramesInv, F.kind # "host", F.phase \notin {"ready", "handling"},
           NEW s, Sound(s), Cap(s) >= Cap(k), NEW from \in Nat, NEW n \in Nat,
           NEW to, to = F.base - 1 - F.nvar, to <= from, from + n <= s.len,
           PopFrame(s, from, n, to)
    PROVE  /\ FramesInv'
           /\ \A slot \in Nat :
                 Owned(frames, slot) =>
                    \/ Owned(frames', slot)
                    \/ F.kind = "lua" /\ slot - F.base \in 0 .. F.live - 1
<1> DEFINE m  == Len(frames)
           d  == frames[m]
           c  == frames[m - 1]
           fs == SubSeq(frames, 1, m - 1)
           g  == FrameFor(c, d.want)
           gs == Append(SubSeq(frames, 1, m - 2), g)
           k1 == Delivered(s, from, n, to)
           handled == IF c.phase = "handling" THEN 1 ELSE 0
<1>0. Stands(k, frames) /\ Counted(frames, callBase, nonyieldable, inErrHandler)
  BY DEF FramesInv
<1>1. /\ k' = StackFor(c, k1, d.want)
      /\ frames' = Caller(fs, g)
      /\ callBase' = IF d.kind = "lua" THEN callBase ELSE d.savedBase
      /\ nonyieldable' = nonyieldable - handled - (IF d.kind = "quiet" THEN 1 ELSE 0)
      /\ inErrHandler' = inErrHandler - handled
      /\ to = d.base - 1 - d.nvar /\ d.kind # "host" /\ d.phase \notin {"ready", "handling"}
      /\ F.want = d.want
  BY DEF PopFrame, F, Me
<1>2. /\ frames[1].kind = "host" /\ m \in Nat /\ m >= 1 /\ frames \in Seq(FrameSet)
      /\ \A i \in 1 .. m : frames[i] \in FrameSet
  BY <1>0, HostFirst DEF Stands
<1> HIDE DEF m, fs, g, gs, k1
<1>3. m >= 2 /\ m - 1 \in 1 .. m /\ m \in 1 .. m /\ m - 1 \in 1 .. m - 1 /\ m - 1 \in Nat
  <2>1. m # 1
    BY <1>1, <1>2
  <2> QED BY <1>2, <2>1
<1>4. c \in FrameSet /\ d \in FrameSet
  BY <1>2, <1>3
<1>5. Waits(k, c)
  BY <1>0, <1>3 DEF Stands, Waiting, m
<1>6. InPlace(c, d)
  <2>1. InPlace(frames[m - 1], frames[(m - 1) + 1])
    BY <1>0, <1>3 DEF Stands, Linked, m
  <2>2. (m - 1) + 1 = m
    BY <1>2
  <2> QED BY <2>1, <2>2
<1>7. to = Place(c) /\ to \in Nat
  <2>1. d.base = Place(c) + 1 + d.nvar
    BY <1>6 DEF InPlace
  <2>2. Place(c) \in Nat /\ d.nvar \in Nat
    BY <1>4 DEF Place, FrameSet
  <2> QED BY <1>1, <2>1, <2>2
<1>8. /\ Sound(k1) /\ Cap(k1) >= Cap(s)
      /\ k1.len = to + Given(d.want, n) /\ k1.top = to + Given(d.want, n)
  <2>1. F.want \in WantSet
    BY <1>1, <1>4 DEF FrameSet
  <2> QED BY <1>1, <1>7, <2>1, DeliveredStack DEF k1
<1>9. Cap(k) \in Nat /\ Cap(s) \in Nat /\ Cap(k1) \in Nat /\ Cap(k) <= Cap(k1)
  BY <1>0, <1>8 DEF Stands, Sound, Whole
<1>10. Waits(k1, c)
  BY <1>4, <1>5, <1>9, WaitsGrows
<1>11. Sound(k') /\ Cap(k') >= Cap(k1) /\ Runs(k', g)
  <2>1. GoesOn(k1, FrameFor(c, d.want), StackFor(c, k1, d.want))
    BY <1>4, <1>6, <1>7, <1>8, <1>10, CallerGoesOn
  <2> QED BY <1>1, <2>1 DEF GoesOn, g
<1>12. Cap(k') >= Cap(k)
  BY <1>9, <1>11 DEF Sound, Whole
<1>13. /\ g \in FrameSet /\ g.kind = c.kind /\ g.base = c.base /\ g.nvar = c.nvar
       /\ g.want = c.want /\ g.savedBase = c.savedBase
       /\ g.phase \notin {"ready", "handling"} /\ c.live <= g.live
  <2>1. d.want \in WantSet
    BY <1>4 DEF FrameSet
  <2> QED BY <1>4, <1>5, <2>1, FrameForKeeps DEF g
<1>14. frames' = gs
  <2>1. m - 1 \in 0 .. Len(frames) /\ (m - 1) - 1 = m - 2
    BY <1>2, <1>3 DEF m
  <2>2. SubSeq(fs, 1, (m - 1) - 1) = SubSeq(frames, 1, (m - 1) - 1) /\ Len(fs) = m - 1
    BY <1>2, <1>3, <2>1, CutTwice DEF fs
  <2> QED BY <1>1, <2>1, <2>2 DEF Caller, gs
<1>15. /\ gs \in Seq(FrameSet) /\ Len(gs) = m - 1 /\ gs[m - 1] = g
       /\ \A i \in 1 .. m - 2 : gs[i] = frames[i]
  <2> DEFINE p == m - 1
  <2>1. p \in 1 .. Len(frames) /\ p - 1 = m - 2
    BY <1>2, <1>3 DEF m
  <2> HIDE DEF p
  <2>2. LET x == Append(SubSeq(frames, 1, p - 1), g)
        IN  /\ x \in Seq(FrameSet) /\ Len(x) = p /\ x[p] = g
            /\ \A i \in 1 .. p - 1 : x[i] = frames[i]
    BY <1>2, <1>13, <2>1, PrefixAnd
  <2> QED BY <2>1, <2>2 DEF gs, p
<1>16. Stands(k', gs)
  <2>1. m - 1 \in 1 .. Len(frames) /\ (m - 1) - 1 = m - 2
    BY <1>2, <1>3 DEF m
  <2>2. Stands(k', Append(SubSeq(frames, 1, (m - 1) - 1), g))
    BY <1>0, <1>11, <1>12, <1>13, <2>1, PrefixStands
  <2> QED BY <2>1, <2>2 DEF gs
<1>17. \A i \in 1 .. m - 1 : i = m - 1 \/ i \in 1 .. m - 2
  BY <1>2
<1>18. \A i \in 1 .. m - 1 : gs[i].kind = frames[i].kind /\ gs[i].base = frames[i].base
  BY <1>13, <1>15, <1>17
<1>19. callBase' = BaseOf(gs, m - 1)
  <2>1. BaseOf(gs, m - 1) = BaseOf(frames, m - 1)
    BY <1>2, <1>3, <1>18, BaseSame
  <2>2. CASE d.kind = "lua"
    <3>1. PICK j \in 1 .. m - 1 : /\ frames[j].kind # "lua"
                                  /\ \A i \in j + 1 .. m - 1 : frames[i].kind = "lua"
                                  /\ BaseOf(frames, m - 1) = frames[j].base
      BY <1>2, <1>3, BaseFound
    <3>2. j \in 1 .. m
      BY <1>3, <3>1
    <3>3. \A i \in j + 1 .. m : frames[i].kind = "lua"
      <4> TAKE i \in j + 1 .. m
      <4>1. i = m \/ i \in j + 1 .. m - 1
        BY <1>2
      <4> QED BY <2>2, <3>1, <4>1
    <3>4. BaseOf(frames, m) = frames[j].base
      BY <1>2, <3>1, <3>2, <3>3, BaseOfIs
    <3>5. callBase = BaseOf(frames, m)
      BY <1>0 DEF Counted, m
    <3> QED BY <1>1, <2>1, <2>2, <3>1, <3>4, <3>5
  <2>3. CASE d.kind # "lua"
    <3>1. m \in 2 .. Len(frames)
      BY <1>2, <1>3 DEF m
    <3>2. d.savedBase = BaseOf(frames, m - 1)
      BY <1>0, <2>3, <3>1 DEF Stands, Saved
    <3> QED BY <1>1, <2>1, <2>3, <3>2
  <2> QED BY <2>2, <2>3
<1>20. Handlers(gs) = Handlers(frames) \ {m - 1}
  <2>1. \A i \in 1 .. m : i = m \/ i = m - 1 \/ i \in 1 .. m - 2
    BY <1>2
  <2>2. \A i \in 1 .. m - 2 : i \in 1 .. m /\ i \in 1 .. m - 1 /\ i # m - 1
    BY <1>2
  <2> QED BY <1>1, <1>3, <1>13, <1>15, <1>17, <2>1, <2>2 DEF Handlers, m
<1>21. m - 1 \in Handlers(frames) <=> c.phase = "handling"
  <2>1. c.phase # "ready"
    <3>1. c.kind \in Kinds
      BY <1>4 DEF FrameSet
    <3> QED BY <1>5, <3>1 DEF Waits, Kinds
  <2> QED BY <1>3, <2>1 DEF Handlers, m
<1>22. Quiets(gs) = Quiets(frames) \ {m}
  <2>1. \A i \in 1 .. m : i = m \/ i \in 1 .. m - 1
    BY <1>2
  <2>2. \A i \in 1 .. m - 1 : i \in 1 .. m /\ i # m
    BY <1>2
  <2> QED BY <1>15, <1>18, <2>1, <2>2 DEF Quiets, m
<1>23. m \in Quiets(frames) <=> d.kind = "quiet"
  BY <1>3 DEF Quiets, m
<1>24. Counted(gs, callBase', nonyieldable', inErrHandler')
  <2>1. /\ IsFiniteSet(Handlers(frames)) /\ Cardinality(Handlers(frames)) \in Nat
        /\ IsFiniteSet(Quiets(frames)) /\ Cardinality(Quiets(frames)) \in Nat
    BY <1>2, CountsFinite DEF m
  <2> DEFINE H == Handlers(frames)
             Q == Quiets(frames)
             quiet == IF d.kind = "quiet" THEN 1 ELSE 0
  <2>2. Cardinality(Handlers(gs)) = Cardinality(H) - handled
    <3>1. IsFiniteSet(H) /\ Cardinality(H) \in Nat
      BY <2>1
    <3> HIDE DEF H
    <3>2. Cardinality(H \ {m - 1})
            = IF m - 1 \in H THEN Cardinality(H) - 1 ELSE Cardinality(H)
      BY <3>1, FS_RemoveElement
    <3>3. Handlers(gs) = H \ {m - 1} /\ (m - 1 \in H <=> c.phase = "handling")
      BY <1>20, <1>21 DEF H
    <3>4. Cardinality(H) - 0 = Cardinality(H)
      BY <3>1
    <3> HIDE DEF c
    <3>5. CASE c.phase = "handling"
      BY <3>2, <3>3, <3>5
    <3>6. CASE c.phase # "handling"
      BY <3>2, <3>3, <3>4, <3>6
    <3> QED BY <3>5, <3>6
  <2>3. Cardinality(Quiets(gs)) = Cardinality(Q) - quiet
    <3>1. IsFiniteSet(Q) /\ Cardinality(Q) \in Nat
      BY <2>1
    <3> HIDE DEF Q
    <3>2. Cardinality(Q \ {m}) = IF m \in Q THEN Cardinality(Q) - 1 ELSE Cardinality(Q)
      BY <3>1, FS_RemoveElement
    <3>3. Quiets(gs) = Q \ {m} /\ (m \in Q <=> d.kind = "quiet")
      BY <1>22, <1>23 DEF Q
    <3>4. Cardinality(Q) - 0 = Cardinality(Q)
      BY <3>1
    <3> HIDE DEF d
    <3>5. CASE d.kind = "quiet"
      BY <3>2, <3>3, <3>5
    <3>6. CASE d.kind # "quiet"
      BY <3>2, <3>3, <3>4, <3>6
    <3> QED BY <3>5, <3>6
  <2>4. /\ inErrHandler = Cardinality(H)
        /\ nonyieldable = Cardinality(H) + Cardinality(Q)
        /\ nonyieldable' = nonyieldable - handled - quiet
        /\ inErrHandler' = inErrHandler - handled
    BY <1>0, <1>1 DEF Counted
  <2>5. handled \in Nat /\ quiet \in Nat
    OBVIOUS
  <2>6. Cardinality(H) \in Nat /\ Cardinality(Q) \in Nat
    BY <2>1
  <2> HIDE DEF H, Q, handled, quiet
  <2>7. inErrHandler' = Cardinality(Handlers(gs))
    BY <2>2, <2>4
  <2>8. nonyieldable' = Cardinality(Handlers(gs)) + Cardinality(Quiets(gs))
    BY <2>2, <2>3, <2>4, <2>5, <2>6
  <2> QED BY <1>15, <1>19, <2>7, <2>8 DEF Counted
<1>25. frames'[Len(frames')] = g
  BY <1>14, <1>15
<1>26. ASSUME NEW slot \in Nat, Owned(frames, slot)
       PROVE  \/ Owned(frames', slot)
              \/ d.kind = "lua" /\ slot - d.base \in 0 .. d.live - 1
  <2>1. PICK j \in 1 .. m : /\ frames[j].kind = "lua"
                            /\ slot - frames[j].base \in 0 .. frames[j].live - 1
    BY <1>26 DEF Owned, m
  <2>2. CASE j = m
    BY <2>1, <2>2
  <2>3. CASE j # m
    <3>1. j \in 1 .. m - 1
      BY <1>2, <2>3
    <3>2. c.live \in Nat /\ g.live \in Nat /\ c.base \in Nat
      BY <1>4, <1>13 DEF FrameSet
    <3>3. frames[j].live <= gs[j].live /\ gs[j].live \in Nat /\ frames[j].live \in Nat
          /\ gs[j].kind = "lua" /\ gs[j].base = frames[j].base /\ frames[j].base \in Nat
      <4>1. CASE j = m - 1
        BY <1>13, <1>15, <2>1, <3>2, <4>1
      <4>2. CASE j # m - 1
        <5>1. gs[j] = frames[j] /\ frames[j] \in FrameSet
          BY <1>2, <1>15, <3>1, <4>2
        <5>2. frames[j].live \in Nat /\ frames[j].base \in Nat
          BY <5>1 DEF FrameSet
        <5> QED BY <2>1, <5>1, <5>2
      <4> QED BY <4>1, <4>2
    <3>4. slot - gs[j].base \in 0 .. gs[j].live - 1
      BY <2>1, <3>3
    <3> QED BY <1>14, <1>15, <3>1, <3>3, <3>4 DEF Owned
  <2> QED BY <2>2, <2>3
<1>27. FramesInv'
  BY <1>11, <1>14, <1>16, <1>24, <1>25 DEF FramesInv
<1>28. F = d
  BY DEF F, Me, m
<1> QED BY <1>26, <1>27, <1>28
-----------------------------------------------------------------------------
(* The invariant, and the steps that stay in their function                *)

Inv == FramesInv /\ UpvalInv /\ steps \in Nat

\* What the invariant says of the function that runs.
LEMMA Facts ==
    ASSUME Inv
    PROVE  /\ Stands(k, frames) /\ Runs(k, F)
           /\ Counted(frames, callBase, nonyieldable, inErrHandler)
           /\ Sound(k) /\ Whole(k) /\ k.len \in Nat /\ k.top \in Nat /\ k.top <= k.len
           /\ k.len <= Cap(k) /\ Cap(k) \in Nat /\ Cap(k) >= Cap(k)
           /\ frames \in Seq(FrameSet) /\ Me = Len(frames) /\ Me \in Nat /\ Me >= 1
           /\ Me \in 1 .. MaxDepth /\ F = frames[Me] /\ F \in FrameSet
           /\ \A i \in 1 .. Me : frames[i] \in FrameSet
           /\ Listed(upvals, openUpvals) /\ AllOwned(frames, upvals, openUpvals)
           /\ New \in Int /\ steps \in Nat
           /\ F.base \in Nat /\ F.live \in Nat /\ F.max \in Nat /\ F.at \in Nat
           /\ F.nvar \in Nat /\ F.want \in WantSet
<1>1. Stands(k, frames) /\ frames \in Seq(FrameSet) /\ Len(frames) \in 1 .. MaxDepth
  BY DEF Inv, FramesInv, Stands
<1>2. Len(frames) \in Nat /\ Len(frames) >= 1 /\ \A i \in 1 .. Len(frames) : frames[i] \in FrameSet
  BY <1>1, HostFirst
<1>3. F \in FrameSet
  BY <1>2 DEF F, Me
<1>4. /\ F.base \in Nat /\ F.live \in Nat /\ F.max \in Nat /\ F.at \in Nat
      /\ F.nvar \in Nat /\ F.want \in WantSet
  BY <1>3 DEF FrameSet
<1>5. /\ Sound(k) /\ Whole(k) /\ k.len \in Nat /\ k.top \in Nat /\ k.top <= k.len
      /\ k.len <= Cap(k) /\ Cap(k) \in Nat /\ Cap(k) >= Cap(k)
  BY <1>1 DEF Stands, Sound, Whole
<1>6. Runs(k, F) /\ Counted(frames, callBase, nonyieldable, inErrHandler)
  BY DEF Inv, FramesInv, F, Me
<1>7. /\ Listed(upvals, openUpvals) /\ AllOwned(frames, upvals, openUpvals)
      /\ New \in Int /\ steps \in Nat
  BY DEF Inv, UpvalInv, New
<1> QED BY <1>1, <1>2, <1>3, <1>4, <1>5, <1>6, <1>7 DEF F, Me

\* What holds of a Lua frame that is about to run an instruction.
LEMMA LuaFacts ==
    ASSUME Inv, F.kind = "lua", F.phase = "run"
    PROVE  F.live <= F.max /\ F.base + F.max <= k.len
<1>1. Runs(k, F)
  BY Facts
<1> QED BY <1>1 DEF Runs

LEMMA CallerStands ==
    ASSUME Inv, NEW g \in FrameSet
    PROVE  /\ Len(Caller(frames, g)) = Me /\ Caller(frames, g)[Me] = g
           /\ \A i \in 1 .. Me - 1 : Caller(frames, g)[i] = frames[i]
<1>1. frames \in Seq(FrameSet) /\ Me = Len(frames) /\ Me # 0
  BY Facts
<1> QED BY <1>1, CallerAnd

\* The last frame changes and the stack under it too.
LEMMA Changed ==
    ASSUME Inv, NEW g \in FrameSet, g.kind = F.kind, g.base = F.base, g.nvar = F.nvar,
           g.want = F.want, g.savedBase = F.savedBase,
           g.phase \in {"ready", "handling"} <=> F.phase \in {"ready", "handling"},
           Sound(k'), Cap(k') >= Cap(k), Runs(k', g), frames' = Caller(frames, g),
           UNCHANGED <<callBase, nonyieldable, inErrHandler>>
    PROVE  FramesInv'
<1>1. Stands(k, frames) /\ Me \in 1 .. Len(frames) /\ F = frames[Len(frames)] /\ Me = Len(frames)
  BY Facts
<1>2. Stands(k', Caller(frames, g))
  BY <1>1, PrefixStands DEF Caller
<1>3. Counted(Caller(frames, g), callBase, nonyieldable, inErrHandler)
  BY <1>1, Facts, StillCounted
<1>4. frames'[Len(frames')] = g
  BY CallerStands
<1> QED BY <1>2, <1>3, <1>4 DEF FramesInv

LEMMA Unmoved ==
    ASSUME Inv, Sound(k'), Cap(k') >= Cap(k), Runs(k', F),
           UNCHANGED <<frames, callBase, nonyieldable, inErrHandler>>
    PROVE  FramesInv'
<1>1. Stands(k', frames')
  BY Facts, StandsGrows
<1> QED BY <1>1, Facts DEF FramesInv

\* A slot stays with its function when that keeps the register.
LEMMA CallerOwned ==
    ASSUME Inv, NEW g \in FrameSet, g.kind = F.kind, g.base = F.base, NEW slot \in Nat,
           Owned(frames, slot), F.kind = "lua" => F.live <= g.live \/ slot < F.base + g.live
    PROVE  Owned(Caller(frames, g), slot)
<1> DEFINE gs == Caller(frames, g)
<1>1. PICK j \in 1 .. Me : /\ frames[j].kind = "lua"
                           /\ slot - frames[j].base \in 0 .. frames[j].live - 1
  BY Facts DEF Owned
<1>2. Len(gs) = Me /\ gs[Me] = g /\ \A i \in 1 .. Me - 1 : gs[i] = frames[i]
  BY CallerStands
<1> HIDE DEF gs
<1>3. CASE j = Me
  <2>1. g.live \in Nat /\ F.live \in Nat /\ F.base \in Nat
    BY Facts DEF FrameSet
  <2>2. F.kind = "lua" /\ slot - F.base \in 0 .. F.live - 1
    BY <1>1, <1>3, Facts
  <2>3. slot - F.base \in 0 .. g.live - 1
    BY <2>1, <2>2
  <2>4. gs[j].kind = "lua" /\ gs[j].base = F.base /\ gs[j].live = g.live
    BY <1>2, <1>3, <2>2
  <2>5. j \in 1 .. Len(gs) /\ slot - gs[j].base \in 0 .. gs[j].live - 1
    BY <1>2, <2>3, <2>4
  <2> QED BY <2>4, <2>5 DEF Owned, gs
<1>4. CASE j # Me
  <2>1. j \in 1 .. Me - 1 /\ j \in 1 .. Len(gs)
    BY <1>2, <1>4, Facts
  <2> QED BY <1>1, <1>2, <2>1 DEF Owned, gs
<1> QED BY <1>3, <1>4

\* One value written to the stack.
LEMMA WrittenOne ==
    ASSUME NEW s, Sound(s), NEW at \in Nat, at + 1 <= s.len, NEW v
    PROVE  LET r == Write(s, at, <<v>>)
           IN  Sound(r) /\ Cap(r) = Cap(s) /\ Cap(r) >= Cap(s) /\ r.len = s.len /\ r.top = s.top
<1> DEFINE vals == <<v>>
<1>1. Len(vals) = 1
  OBVIOUS
<1> HIDE DEF vals
<1>2. Len(vals) \in Nat /\ at + Len(vals) <= s.len /\ Whole(s)
  BY <1>1 DEF Sound
<1>3. LET r == Write(s, at, vals)
      IN  Whole(r) /\ Cap(r) = Cap(s) /\ r.len = s.len /\ r.top = s.top
  BY <1>2, Written
<1> QED BY <1>3 DEF Sound, Whole, vals

LEMMA LoadKeeps ==
    ASSUME Inv, Load
    PROVE  Inv'
<1> DEFINE g == [F EXCEPT !.live = F.live + 1]
<1>1. /\ F.kind = "lua" /\ F.phase = "run" /\ ~F.open /\ F.live < F.max
      /\ k' = Write(k, F.base + F.live, <<New>>) /\ frames' = Caller(frames, g)
      /\ UNCHANGED <<nonyieldable, inErrHandler, upvals, openUpvals, callBase>>
      /\ steps' = steps + 1
  BY DEF Load, InLua, Running, Step, Set, Become, Calm
<1>2. /\ F \in FrameSet /\ F.live \in Nat /\ F.base \in Nat /\ F.max \in Nat
      /\ F.base + F.max <= k.len /\ k.len \in Nat /\ Sound(k)
  BY <1>1, Facts DEF Runs
<1>3. /\ g \in FrameSet /\ g.kind = F.kind /\ g.base = F.base /\ g.nvar = F.nvar
      /\ g.want = F.want /\ g.savedBase = F.savedBase /\ g.phase = F.phase
      /\ g.live = F.live + 1 /\ g.max = F.max /\ g.open = F.open
  BY <1>2 DEF FrameSet
<1> HIDE DEF g
<1>4. Sound(k') /\ Cap(k') >= Cap(k) /\ k'.len = k.len
  <2>1. F.base + F.live \in Nat /\ F.base + F.live + 1 <= k.len
    BY <1>1, <1>2
  <2> QED BY <1>1, <1>2, <2>1, WrittenOne
<1>5. Runs(k', g)
  BY <1>1, <1>2, <1>3, <1>4 DEF Runs
<1>6. FramesInv'
  BY <1>1, <1>3, <1>4, <1>5, Changed
<1>7. UpvalInv'
  <2>1. \A slot \in Nat : Owned(frames, slot) => Owned(frames', slot)
    BY <1>1, <1>2, <1>3, CallerOwned
  <2> QED BY <1>1, <2>1, Facts, OpenStill
<1> QED BY <1>1, <1>6, <1>7 DEF Inv

LEMMA AssignKeeps ==
    ASSUME Inv, NEW r \in 1 .. F.live, Assign(r)
    PROVE  Inv'
<1>1. /\ F.kind = "lua" /\ F.phase = "run" /\ ~F.open
      /\ k' = Write(k, F.base + r - 1, <<New>>)
      /\ UNCHANGED <<frames, nonyieldable, inErrHandler, upvals, openUpvals, callBase>>
      /\ steps' = steps + 1
  BY DEF Assign, InLua, Running, Step, Set, Calm
<1>2. /\ F.live \in Nat /\ F.base \in Nat /\ F.max \in Nat /\ F.live <= F.max
      /\ F.base + F.max <= k.len /\ k.len \in Nat /\ Sound(k)
  BY <1>1, Facts DEF Runs
<1>4. Sound(k') /\ Cap(k') >= Cap(k) /\ k'.len = k.len
  <2> DEFINE at == F.base + r - 1
  <2>1. at \in Nat /\ at + 1 <= k.len /\ k' = Write(k, at, <<New>>)
    BY <1>1, <1>2
  <2> HIDE DEF at
  <2> QED BY <1>2, <2>1, WrittenOne
<1>5. Runs(k', F)
  BY <1>1, <1>2, <1>4 DEF Runs
<1>6. FramesInv'
  BY <1>1, <1>4, <1>5, Unmoved
<1>7. UpvalInv'
  <2>1. \A slot \in Nat : Owned(frames, slot) => Owned(frames', slot)
    BY <1>1
  <2> QED BY <1>1, <2>1, Facts, OpenStill
<1> QED BY <1>1, <1>6, <1>7 DEF Inv

LEMMA SetListKeeps ==
    ASSUME Inv, SetList
    PROVE  Inv'
<1> DEFINE g == [F EXCEPT !.open = FALSE]
<1>1. /\ F.kind = "lua" /\ F.phase = "run"
      /\ k' = k /\ frames' = Caller(frames, g)
      /\ UNCHANGED <<nonyieldable, inErrHandler, upvals, openUpvals, callBase>>
      /\ steps' = steps + 1
  BY DEF SetList, Running, Step, Become, Calm
<1>2. /\ F \in FrameSet /\ F.live \in Nat /\ F.live <= F.max
      /\ F.base + F.max <= k.len /\ Sound(k) /\ Cap(k) >= Cap(k)
  BY <1>1, Facts DEF Runs
<1>3. /\ g \in FrameSet /\ g.kind = F.kind /\ g.base = F.base /\ g.nvar = F.nvar
      /\ g.want = F.want /\ g.savedBase = F.savedBase /\ g.phase = F.phase
      /\ g.live = F.live /\ g.max = F.max /\ ~g.open
  BY <1>2 DEF FrameSet
<1> HIDE DEF g
<1>5. Runs(k', g)
  BY <1>1, <1>2, <1>3 DEF Runs
<1>6. FramesInv'
  BY <1>1, <1>2, <1>3, <1>5, Changed
<1>7. UpvalInv'
  <2>1. \A slot \in Nat : Owned(frames, slot) => Owned(frames', slot)
    BY <1>1, <1>2, <1>3, CallerOwned
  <2> QED BY <1>1, <2>1, Facts, OpenStill
<1> QED BY <1>1, <1>6, <1>7 DEF Inv

LEMMA CloseScopeKeeps ==
    ASSUME Inv, NEW n \in 0 .. F.live, CloseScope(n)
    PROVE  Inv'
<1> DEFINE g == [F EXCEPT !.live = n]
<1>1. /\ F.kind = "lua" /\ F.phase = "run" /\ ~F.open /\ n < F.live
      /\ k' = k /\ frames' = Caller(frames, g) /\ CloseTo(F.base + n, k.slots)
      /\ UNCHANGED <<nonyieldable, inErrHandler, callBase>>
      /\ steps' = steps + 1
  BY DEF CloseScope, InLua, Running, Step, Become
<1>2. /\ F \in FrameSet /\ F.live \in Nat /\ F.live <= F.max /\ F.base \in Nat
      /\ F.base + F.max <= k.len /\ Sound(k) /\ Cap(k) >= Cap(k) /\ F.max \in Nat
  BY <1>1, Facts DEF Runs
<1>3. /\ g \in FrameSet /\ g.kind = F.kind /\ g.base = F.base /\ g.nvar = F.nvar
      /\ g.want = F.want /\ g.savedBase = F.savedBase /\ g.phase = F.phase
      /\ g.live = n /\ g.max = F.max /\ g.open = F.open
  BY <1>2 DEF FrameSet
<1> HIDE DEF g
<1>5. Runs(k', g)
  <2>1. g.live <= g.max
    BY <1>1, <1>2, <1>3
  <2> QED BY <1>1, <1>2, <1>3, <2>1 DEF Runs
<1>6. FramesInv'
  BY <1>1, <1>2, <1>3, <1>5, Changed
<1>7. UpvalInv'
  <2>1. \A slot \in Nat : slot < F.base + n /\ Owned(frames, slot) => Owned(frames', slot)
    BY <1>1, <1>2, <1>3, CallerOwned
  <2> QED BY <1>1, <1>2, <2>1, Facts, ClosedStill, F.base + n \in Int
<1> QED BY <1>1, <1>6, <1>7 DEF Inv

LEMMA CaptureKeeps ==
    ASSUME Inv, NEW r \in 1 .. F.live, Capture(r)
    PROVE  Inv'
<1> DEFINE slot == F.base + r - 1
<1>1. /\ F.kind = "lua" /\ Hits(upvals, openUpvals, slot) = {}
      /\ upvals' = Append(upvals, OpenUpval(slot))
      /\ openUpvals' = Inserted(upvals, openUpvals, slot)
      /\ UNCHANGED <<k, frames, nonyieldable, inErrHandler, callBase>>
      /\ steps' = steps + 1
  BY DEF Capture, InLua, Running, Step
<1>2. F.base \in Nat /\ F.live \in Nat /\ F = frames[Me] /\ Me = Len(frames) /\ Me \in 1 .. Me
  BY Facts
<1>3. slot \in Nat /\ slot - F.base \in 0 .. F.live - 1
  BY <1>2
<1> HIDE DEF slot
<1>4. Owned(frames, slot)
  BY <1>1, <1>2, <1>3 DEF Owned
<1>5. Listed(upvals, openUpvals) /\ AllOwned(frames, upvals, openUpvals)
  BY Facts
<1>6. UpvalInv'
  <2>1. Listed(upvals', openUpvals') /\ AllOwned(frames, upvals', openUpvals')
    BY <1>1, <1>3, <1>4, <1>5, Opening
  <2> QED BY <1>1, <2>1 DEF UpvalInv
<1>7. FramesInv'
  BY <1>1, Facts, Unmoved
<1> QED BY <1>1, <1>6, <1>7 DEF Inv

\* An open upvalue stands for a slot of the slice.
LEMMA OwnedInSlice ==
    ASSUME Inv, F.kind = "lua", NEW slot \in Nat, Owned(frames, slot)
    PROVE  slot + 1 <= k.len
<1>1. PICK j \in 1 .. Me : /\ frames[j].kind = "lua"
                           /\ slot - frames[j].base \in 0 .. frames[j].live - 1
  BY Facts DEF Owned
<1>2. /\ F.base \in Nat /\ F.max \in Nat /\ F.live \in Nat /\ F.live <= F.max /\ F.nvar \in Nat
      /\ F.base + F.max <= k.len /\ k.len \in Nat
  BY Facts DEF Runs
<1>3. CASE j = Me
  <2>1. slot - F.base \in 0 .. F.live - 1
    BY <1>1, <1>3, Facts
  <2> QED BY <1>2, <2>1
<1>4. CASE j # Me
  <2> DEFINE f == frames[j]
  <2>1. j \in 1 .. Me - 1 /\ j \in 1 .. Len(frames) /\ Me \in 1 .. Len(frames) /\ j < Me
    BY <1>4, Facts
  <2>2. Waits(k, f) /\ f \in FrameSet
    BY <2>1, Facts DEF Stands, Waiting
  <2>3. Place(f) + 1 <= F.base - F.nvar
    BY <2>1, Facts DEF Stands, Layered
  <2>4. f.base \in Nat /\ f.live \in Nat /\ f.at \in Nat /\ f.op \in {"call", "operator", "iterate"}
    BY <2>2 DEF FrameSet
  <2>5. slot - f.base \in 0 .. f.live - 1 /\ f.kind = "lua"
    BY <1>1
  <2> HIDE DEF f
  <2>6. Place(f) = f.at /\ f.base + f.live <= f.at
    BY <2>2, <2>4, <2>5 DEF Waits, Place
  <2> QED BY <1>2, <2>3, <2>4, <2>5, <2>6
<1> QED BY <1>3, <1>4

LEMMA WriteUpvalKeeps ==
    ASSUME Inv, NEW u \in DOMAIN upvals, WriteUpval(u)
    PROVE  Inv'
<1>1. /\ F.kind = "lua"
      /\ UNCHANGED <<frames, callBase, nonyieldable, inErrHandler, openUpvals>>
      /\ steps' = steps + 1
  BY DEF WriteUpval, InLua, Running, Step
<1>2. CASE upvals[u].closed
  <2>1. upvals' = [upvals EXCEPT ![u].value = New] /\ k' = k
    BY <1>2 DEF WriteUpval
  <2>2. /\ Listed(upvals', openUpvals)
        /\ \A i \in DOMAIN openUpvals :
              upvals'[openUpvals[i]].slot = upvals[openUpvals[i]].slot
    <3>1. Listed(upvals, openUpvals) /\ New \in Int
      BY Facts
    <3> DEFINE ups1 == [upvals EXCEPT ![u].value = New]
    <3>2. /\ Listed(ups1, openUpvals)
          /\ \A i \in DOMAIN openUpvals : ups1[openUpvals[i]].slot = upvals[openUpvals[i]].slot
      <4> HIDE DEF New
      <4> QED BY <3>1, Rewritten
    <3>3. upvals' = ups1
      BY <2>1
    <3> HIDE DEF ups1
    <3> QED BY <3>2, <3>3
  <2>3. UpvalInv'
    BY <1>1, <2>2, Facts DEF UpvalInv, AllOwned
  <2>4. FramesInv'
    BY <1>1, <2>1, Facts, Unmoved
  <2> QED BY <1>1, <2>3, <2>4 DEF Inv
<1>3. CASE ~upvals[u].closed
  <2> DEFINE slot == upvals[u].slot
  <2>1. k' = Write(k, slot, <<New>>) /\ upvals' = upvals
    BY <1>3 DEF WriteUpval, Set
  <2>2. PICK i \in DOMAIN openUpvals : openUpvals[i] = u
    BY <1>3, Facts DEF Listed, Exact
  <2>3. slot \in Nat /\ Owned(frames, slot)
    BY <2>2, Facts, ListedSlots DEF AllOwned
  <2> HIDE DEF slot
  <2>4. slot + 1 <= k.len
    BY <1>1, <2>3, OwnedInSlice
  <2>5. Sound(k') /\ Cap(k') >= Cap(k) /\ k'.len = k.len /\ k'.top = k.top
    BY <2>1, <2>3, <2>4, Facts, WrittenOne
  <2>6. Runs(k', F)
    BY <1>1, <2>5, Facts DEF Runs
  <2>7. FramesInv'
    BY <1>1, <2>5, <2>6, Unmoved
  <2>8. UpvalInv'
    BY <1>1, <2>1, Facts DEF UpvalInv
  <2> QED BY <1>1, <2>7, <2>8 DEF Inv
<1> QED BY <1>2, <1>3
-----------------------------------------------------------------------------
(* The steps that call                                                     *)

LEMMA FunctionsAre ==
    ASSUME Inv
    PROVE  Functions[Me] \subseteq FunctionSet /\ Wants \subseteq WantSet
<1>1. Me \in 1 .. MaxDepth
  BY Facts
<1> QED BY <1>1, CallsAssumption DEF FunctionSet, WantSet

\* The function that runs calls another one.
LEMMA CallKeeps ==
    ASSUME Inv, NEW s, Sound(s), Cap(s) >= Cap(k), NEW g \in FrameSet,
           g.kind = F.kind, g.base = F.base, g.nvar = F.nvar, g.want = F.want,
           g.savedBase = F.savedBase, Waits(s, g),
           g.phase \in {"ready", "handling"} <=> F.phase \in {"ready", "handling"},
           NEW at \in Nat, at = Place(g), NEW nargs \in Nat, at + 1 + nargs <= s.len,
           NEW want \in WantSet,
           g.phase = "handling" \/ (g.kind = "lua" /\ g.op # "call") => want = 1,
           g.kind = "lua" /\ g.op = "call" /\ want # Multi => g.live + want <= g.max,
           NEW f \in Functions[Me], CallValue(s, Caller(frames, g), at, nargs, want, f),
           F.kind = "lua" => F.live <= g.live \/ Free(g.live), steps' \in Nat
    PROVE  Inv'
<1>1. FramesInv /\ Listed(upvals, openUpvals) /\ f \in FunctionSet
  BY FunctionsAre DEF Inv, UpvalInv
<1>2. AllOwned(Caller(frames, g), upvals, openUpvals)
  <2>1. SUFFICES ASSUME NEW i \in DOMAIN openUpvals
                 PROVE  Owned(Caller(frames, g), upvals[openUpvals[i]].slot)
    BY DEF AllOwned
  <2> DEFINE slot == upvals[openUpvals[i]].slot
  <2>2. slot \in Nat
    BY <1>1, ListedSlots
  <2>3. Owned(frames, slot)
    BY DEF Inv, UpvalInv, AllOwned
  <2>4. F.kind = "lua" => F.live <= g.live \/ slot < F.base + g.live
    BY DEF Free
  <2> HIDE DEF slot
  <2>5. Owned(Caller(frames, g), slot)
    BY <2>2, <2>3, <2>4, CallerOwned
  <2> QED BY <2>5 DEF slot
<1>3. FramesInv' /\ UpvalInv'
  BY <1>1, <1>2, CallLands
<1> QED BY <1>3 DEF Inv

LEMMA OpCallKeeps ==
    ASSUME Inv, NEW n \in 0 .. F.live, NEW want \in Wants, NEW f \in Functions[Me],
           OpCall(n, want, f)
    PROVE  Inv'
<1> DEFINE at == F.base + n
           g  == [[F EXCEPT !.op = "call", !.top = k.top, !.live = n] EXCEPT !.at = at]
           nargs == F.live - n - 1
<1>1. /\ F.kind = "lua" /\ F.phase = "run" /\ ~F.open /\ n < F.live /\ Free(n)
      /\ (want # Multi => n + want <= F.max) /\ steps' = steps + 1
      /\ CallValue(k, Caller(frames, g), at, nargs, want, f)
  BY DEF OpCall, InLua, Running, Step, CallAt
<1>2. /\ F \in FrameSet /\ F.live \in Nat /\ F.base \in Nat /\ F.max \in Nat
      /\ F.base + F.max <= k.len /\ k.len \in Nat /\ Sound(k) /\ F.live <= F.max
      /\ k.top \in Nat /\ Cap(k) >= Cap(k) /\ steps \in Nat
  BY <1>1, Facts DEF Runs
<1>3. n \in Nat /\ at \in Nat /\ nargs \in Nat /\ at + 1 + nargs <= k.len /\ at = F.base + n
  BY <1>1, <1>2
<1>4. /\ g \in FrameSet /\ g.kind = F.kind /\ g.base = F.base /\ g.nvar = F.nvar
      /\ g.want = F.want /\ g.savedBase = F.savedBase /\ g.phase = F.phase
      /\ g.live = n /\ g.max = F.max /\ g.open = F.open /\ g.op = "call" /\ g.at = at
      /\ g.top = k.top
  BY <1>2, <1>3 DEF FrameSet
<1>5. want \in WantSet
  BY FunctionsAre
<1> HIDE DEF g, nargs, at
<1>6. Waits(k, g)
  BY <1>1, <1>2, <1>3, <1>4 DEF Waits
<1>7. /\ at = Place(g) 
      /\ (g.phase = "handling" \/ (g.kind = "lua" /\ g.op # "call") => want = 1)
      /\ (g.kind = "lua" /\ g.op = "call" /\ want # Multi => g.live + want <= g.max)
      /\ (F.kind = "lua" => F.live <= g.live \/ Free(g.live)) /\ steps' \in Nat
  BY <1>1, <1>2, <1>4 DEF Place
<1> QED BY <1>1, <1>2, <1>3, <1>4, <1>5, <1>6, <1>7, CallKeeps
LEMMA OpCallOpenKeeps ==
    ASSUME Inv, NEW n \in 0 .. F.live, NEW want \in Wants, NEW f \in Functions[Me],
           OpCallOpen(n, want, f)
    PROVE  Inv'
<1> DEFINE at == F.base + n
           g  == [[F EXCEPT !.op = "call", !.top = k.top, !.live = n, !.open = FALSE]
                     EXCEPT !.at = at]
           nargs == k.top - at - 1
<1>1. /\ F.kind = "lua" /\ F.phase = "run" /\ F.open /\ n < F.live /\ Free(n)
      /\ (want # Multi => n + want <= F.max) /\ steps' = steps + 1
      /\ CallValue(k, Caller(frames, g), at, nargs, want, f)
  BY DEF OpCallOpen, Running, Step, CallAt
<1>2. /\ F \in FrameSet /\ F.live \in Nat /\ F.base \in Nat /\ F.max \in Nat
      /\ F.base + F.live <= k.top /\ k.len \in Nat /\ Sound(k) /\ F.live <= F.max
      /\ k.top \in Nat /\ k.top <= k.len /\ Cap(k) >= Cap(k) /\ steps \in Nat
  BY <1>1, Facts DEF Runs
<1>3. n \in Nat /\ at \in Nat /\ nargs \in Nat /\ at + 1 + nargs <= k.len /\ at = F.base + n
  BY <1>1, <1>2
<1>4. /\ g \in FrameSet /\ g.kind = F.kind /\ g.base = F.base /\ g.nvar = F.nvar
      /\ g.want = F.want /\ g.savedBase = F.savedBase /\ g.phase = F.phase
      /\ g.live = n /\ g.max = F.max /\ ~g.open /\ g.op = "call" /\ g.at = at
      /\ g.top = k.top
  BY <1>2, <1>3 DEF FrameSet
<1>5. want \in WantSet
  BY FunctionsAre
<1> HIDE DEF g, nargs, at
<1>6. Waits(k, g)
  BY <1>1, <1>2, <1>3, <1>4 DEF Waits
<1>7. /\ at = Place(g)
      /\ (g.phase = "handling" \/ (g.kind = "lua" /\ g.op # "call") => want = 1)
      /\ (g.kind = "lua" /\ g.op = "call" /\ want # Multi => g.live + want <= g.max)
      /\ (F.kind = "lua" => F.live <= g.live \/ Free(g.live)) /\ steps' \in Nat
  BY <1>1, <1>2, <1>4 DEF Place
<1> QED BY <1>1, <1>2, <1>3, <1>4, <1>5, <1>6, <1>7, CallKeeps

\* A call by a function that is not a Lua function.
LEMMA GoCallKeeps ==
    ASSUME Inv, F.kind # "lua", F.phase = "run", NEW s, Sound(s), Cap(s) >= Cap(k),
           s.top = s.len, NEW at \in Nat, NEW nargs \in Nat, at + 1 + nargs = s.top,
           NEW g \in FrameSet, g.kind = F.kind, g.base = F.base, g.nvar = F.nvar,
           g.want = F.want, g.savedBase = F.savedBase, g.open = F.open, g.at = at,
           F.kind \in {"go", "quiet"} => g.phase = "run",
           F.kind \in {"host", "pcall", "xpcall"} => g.phase = "called",
           F.base <= at, F.kind = "pcall" => at = F.base, F.kind = "xpcall" => at = F.base + 1,
           NEW want \in WantSet, NEW f \in Functions[Me],
           CallValue(s, Caller(frames, g), at, nargs, want, f), steps' \in Nat
    PROVE  Inv'
<1>1. F \in FrameSet /\ F.kind \in Kinds /\ Runs(k, F) /\ F.base \in Nat
  BY Facts DEF FrameSet
<1>2. g.phase \in {"run", "called"}
  BY <1>1 DEF Kinds
<1>3. at + 1 + nargs <= s.len /\ at + 1 <= Cap(s)
  BY DEF Sound, Whole
<1>4. Waits(s, g)
  BY <1>1, <1>2, <1>3 DEF Waits, Runs
<1>5. /\ at = Place(g)
      /\ (g.phase = "handling" \/ (g.kind = "lua" /\ g.op # "call") => want = 1)
      /\ (g.kind = "lua" /\ g.op = "call" /\ want # Multi => g.live + want <= g.max)
      /\ (F.kind = "lua" => F.live <= g.live \/ Free(g.live))
      /\ (g.phase \in {"ready", "handling"} <=> F.phase \in {"ready", "handling"})
  BY <1>2 DEF Place
<1> QED BY <1>3, <1>4, <1>5, CallKeeps

LEMMA GoFacts ==
    ASSUME Inv, F.kind # "lua", F.phase = "run"
    PROVE  /\ F \in FrameSet /\ F.base \in Nat /\ k.top = k.len /\ F.base <= k.top
           /\ k.top \in Nat /\ Sound(k) /\ Cap(k) >= Cap(k) /\ Cap(k) \in Nat /\ steps \in Nat
           /\ Top \in Nat /\ k.top = F.base + Top
<1>1. /\ F \in FrameSet /\ F.base \in Nat /\ k.top = k.len /\ F.base <= k.top
      /\ k.top \in Nat /\ Sound(k) /\ Cap(k) >= Cap(k) /\ Cap(k) \in Nat /\ steps \in Nat
  BY Facts DEF Runs
<1> QED BY <1>1 DEF Top

LEMMA HostCallKeeps ==
    ASSUME Inv, NEW n \in 0 .. Top, NEW f \in Functions[Me], HostCall(n, f)
    PROVE  Inv'
<1> DEFINE at == F.base + n
           nargs == Top - n - 1
           g  == [[F EXCEPT !.phase = "called"] EXCEPT !.at = at]
<1>1. /\ F.kind = "host" /\ F.phase = "run" /\ n < Top /\ steps' = steps + 1
      /\ CallValue(k, Caller(frames, g), at, nargs, Multi, f)
  BY DEF HostCall, Running, Step, CallAt
<1>2. /\ F \in FrameSet /\ F.base \in Nat /\ k.top = k.len /\ F.base <= k.top
      /\ k.top \in Nat /\ Sound(k) /\ Cap(k) >= Cap(k) /\ steps \in Nat
      /\ Top \in Nat /\ k.top = F.base + Top
  BY <1>1, GoFacts
<1>3. at \in Nat /\ nargs \in Nat /\ at + 1 + nargs = k.top /\ F.base <= at
  BY <1>1, <1>2
<1>4. /\ g \in FrameSet /\ g.kind = F.kind /\ g.base = F.base /\ g.nvar = F.nvar
      /\ g.want = F.want /\ g.savedBase = F.savedBase /\ g.open = F.open /\ g.at = at
      /\ g.phase = "called"
  BY <1>2, <1>3 DEF FrameSet, Phases
<1>5. Multi \in WantSet /\ steps' \in Nat
  BY <1>1, <1>2 DEF WantSet
<1> HIDE DEF g, nargs, at
<1> QED BY <1>1, <1>2, <1>3, <1>4, <1>5, GoCallKeeps

LEMMA GoCallOfKeeps ==
    ASSUME Inv, NEW n \in 0 .. Top, NEW want \in Wants, NEW f \in Functions[Me],
           GoCall(n, want, f)
    PROVE  Inv'
<1> DEFINE at == F.base + n
           nargs == Top - n - 1
           g  == [F EXCEPT !.at = at]
<1>1. /\ F.kind \in {"go", "quiet"} /\ F.phase = "run" /\ n < Top /\ steps' = steps + 1
      /\ CallValue(k, Caller(frames, g), at, nargs, want, f)
  BY DEF GoCall, InGo, Running, Step, CallAt
<1>2. /\ F \in FrameSet /\ F.base \in Nat /\ k.top = k.len /\ F.base <= k.top
      /\ k.top \in Nat /\ Sound(k) /\ Cap(k) >= Cap(k) /\ steps \in Nat
      /\ Top \in Nat /\ k.top = F.base + Top
  BY <1>1, GoFacts
<1>3. at \in Nat /\ nargs \in Nat /\ at + 1 + nargs = k.top /\ F.base <= at
  BY <1>1, <1>2
<1>4. /\ g \in FrameSet /\ g.kind = F.kind /\ g.base = F.base /\ g.nvar = F.nvar
      /\ g.want = F.want /\ g.savedBase = F.savedBase /\ g.open = F.open /\ g.at = at
      /\ g.phase = "run"
  BY <1>1, <1>2, <1>3 DEF FrameSet
<1>5. want \in WantSet /\ steps' \in Nat
  BY <1>1, <1>2, FunctionsAre
<1> HIDE DEF g, nargs, at
<1> QED BY <1>1, <1>2, <1>3, <1>4, <1>5, GoCallKeeps
\* An error that the function that runs raises.
LEMMA ThrowKeeps ==
    ASSUME Inv, F.kind # "host", F.phase = "run", NEW err \in Int, Throw(k, frames, err),
           steps' \in Nat
    PROVE  Inv'
<1>1. /\ Stands(k, frames) /\ Counted(frames, callBase, nonyieldable, inErrHandler)
      /\ Listed(upvals, openUpvals) /\ AllOwned(frames, upvals, openUpvals)
      /\ Me = Len(frames) /\ F = frames[Me] /\ Me \in Nat /\ Me >= 1
  BY Facts
<1>2. Me # 1
  BY <1>1 DEF Stands, OneHost
<1>3. Raises(k, frames)
  BY <1>1, <1>2 DEF Raises
<1>4. FramesInv'
  BY <1>1, <1>3, Unwinds
<1>5. UpvalInv'
  BY <1>1, <1>3, UnwindsUpvals
<1> QED BY <1>4, <1>5 DEF Inv

LEMMA RaiseErrorKeeps ==
    ASSUME Inv, RaiseError
    PROVE  Inv'
<1>1. F.kind # "host" /\ F.phase = "run" /\ Throw(k, frames, New) /\ steps' = steps + 1
  BY DEF RaiseError, InLua, InGo, Running, Step
<1>2. New \in Int /\ steps' \in Nat
  BY <1>1, Facts
<1> HIDE DEF New
<1> QED BY <1>1, <1>2, ThrowKeeps

LEMMA StartPCallKeeps ==
    ASSUME Inv, NEW f \in Functions[Me], StartPCall(f)
    PROVE  Inv'
<1> DEFINE nargs == Top - 1
           at == F.base
           g  == [[F EXCEPT !.phase = "called"] EXCEPT !.at = at]
<1>1. F.kind = "pcall" /\ F.phase = "run" /\ steps' = steps
  BY DEF StartPCall, Running
<1>2. /\ F \in FrameSet /\ F.base \in Nat /\ k.top = k.len /\ F.base <= k.top
      /\ k.top \in Nat /\ Sound(k) /\ Cap(k) >= Cap(k) /\ steps \in Nat
      /\ Top \in Nat /\ k.top = F.base + Top
  BY <1>1, GoFacts
<1>3. CASE Top < 1
  <2>1. Throw(k, frames, MissingArgument) /\ MissingArgument \in Int
    BY <1>3 DEF StartPCall, MissingArgument
  <2> HIDE DEF g
  <2> QED BY <1>1, <1>2, <2>1, ThrowKeeps
<1>4. CASE ~(Top < 1)
  <2>1. CallValue(k, Caller(frames, g), at, nargs, Multi, f)
    BY <1>4 DEF StartPCall, CallAt
  <2>2. at \in Nat /\ nargs \in Nat /\ at + 1 + nargs = k.top /\ F.base <= at /\ at = F.base
    BY <1>2, <1>4
  <2>3. /\ g \in FrameSet /\ g.kind = F.kind /\ g.base = F.base /\ g.nvar = F.nvar
        /\ g.want = F.want /\ g.savedBase = F.savedBase /\ g.open = F.open /\ g.at = at
        /\ g.phase = "called"
    BY <1>2 DEF FrameSet, Phases
  <2>4. Multi \in WantSet
    BY DEF WantSet
  <2> HIDE DEF g, nargs, at
  <2> QED BY <1>1, <1>2, <2>1, <2>2, <2>3, <2>4, GoCallKeeps
<1> QED BY <1>3, <1>4

LEMMA PushedTwo ==
    ASSUME NEW s, Whole(s), NEW u, NEW v
    PROVE  LET r == Push(Push(s, u), v)
           IN  /\ Whole(r) /\ Cap(r) >= Cap(s)
               /\ r.len = Larger(s.len, s.top + 2) /\ r.top = s.top + 2
<1> DEFINE a == Push(s, u)
           r == Push(a, v)
<1>1. Whole(a) /\ Cap(a) >= Cap(s) /\ a.len = Larger(s.len, s.top + 1) /\ a.top = s.top + 1
  BY Pushed
<1> HIDE DEF a
<1>2. Whole(r) /\ Cap(r) >= Cap(a) /\ r.len = Larger(a.len, a.top + 1) /\ r.top = a.top + 1
  BY <1>1, Pushed
<1> HIDE DEF r
<1>3. Whole(r) /\ Cap(r) >= Cap(s) /\ r.len = Larger(s.len, s.top + 2) /\ r.top = s.top + 2
  BY <1>1, <1>2 DEF Whole, Larger
<1> QED BY <1>3 DEF r, a

LEMMA PushedThree ==
    ASSUME NEW s, Whole(s), NEW u, NEW v, NEW w
    PROVE  LET r == Push(Push(Push(s, u), v), w)
           IN  /\ Whole(r) /\ Cap(r) >= Cap(s)
               /\ r.len = Larger(s.len, s.top + 3) /\ r.top = s.top + 3
<1> DEFINE a == Push(Push(s, u), v)
           r == Push(a, w)
<1>1. Whole(a) /\ Cap(a) >= Cap(s) /\ a.len = Larger(s.len, s.top + 2) /\ a.top = s.top + 2
  BY PushedTwo
<1> HIDE DEF a
<1>2. Whole(r) /\ Cap(r) >= Cap(a) /\ r.len = Larger(a.len, a.top + 1) /\ r.top = a.top + 1
  BY <1>1, Pushed
<1> HIDE DEF r
<1>3. Whole(r) /\ Cap(r) >= Cap(s) /\ r.len = Larger(s.len, s.top + 3) /\ r.top = s.top + 3
  BY <1>1, <1>2 DEF Whole, Larger
<1> QED BY <1>3 DEF r, a

LEMMA StartXPCallKeeps ==
    ASSUME Inv, NEW f \in Functions[Me], StartXPCall(f)
    PROVE  Inv'
<1> DEFINE nargs == Top - 2
           at == F.base + 1
           g  == [[F EXCEPT !.phase = "called"] EXCEPT !.at = at]
           pair == <<k.slots[F.base + 1], k.slots[F.base]>>
           a == Push(Push(k, k.slots[F.base]), k.slots[F.base + 1])
           w == Write(a, F.base, pair)
           s == Cut(w, k.top)
<1>1. F.kind = "xpcall" /\ F.phase = "run" /\ steps' = steps
  BY DEF StartXPCall, Running
<1>2. /\ F \in FrameSet /\ F.base \in Nat /\ k.top = k.len /\ F.base <= k.top
      /\ k.top \in Nat /\ Sound(k) /\ Cap(k) \in Nat /\ steps \in Nat
      /\ Top \in Nat /\ k.top = F.base + Top
  BY <1>1, GoFacts
<1>3. CASE Top < 2
  <2>1. Throw(k, frames, MissingArgument) /\ MissingArgument \in Int
    BY <1>3 DEF StartXPCall, MissingArgument
  <2> HIDE DEF g, s
  <2> QED BY <1>1, <1>2, <2>1, ThrowKeeps
<1>4. CASE ~(Top < 2)
  <2>1. CallValue(s, Caller(frames, g), at, nargs, Multi, f)
    BY <1>4 DEF StartXPCall, CallAt
  <2>2. at \in Nat /\ nargs \in Nat /\ at + 1 + nargs = k.top /\ F.base <= at /\ at = F.base + 1
    BY <1>2, <1>4
  <2>3. /\ g \in FrameSet /\ g.kind = F.kind /\ g.base = F.base /\ g.nvar = F.nvar
        /\ g.want = F.want /\ g.savedBase = F.savedBase /\ g.open = F.open /\ g.at = at
        /\ g.phase = "called"
    BY <1>2, <2>2 DEF FrameSet, Phases
  <2>4. Multi \in WantSet /\ Len(pair) = 2 /\ Whole(k)
    BY <1>2 DEF WantSet, Sound
  <2> HIDE DEF g, nargs, at, pair
  <2>5. Whole(a) /\ Cap(a) >= Cap(k) /\ a.top = k.top + 2 /\ a.len = Larger(k.len, k.top + 2)
    BY <2>4, PushedTwo
  <2> HIDE DEF a
  <2>6. F.base + 2 <= a.len /\ k.top \in 0 .. Cap(a)
    BY <1>2, <1>4, <2>5 DEF Larger, Whole
  <2>7. Whole(w) /\ Cap(w) = Cap(a)
    <3>1. F.base \in Nat /\ Len(pair) \in Nat /\ F.base + Len(pair) <= a.len
      BY <1>2, <2>4, <2>6
    <3> QED BY <2>5, <3>1, Written
  <2> HIDE DEF w
  <2>8. k.top \in 0 .. Cap(w)
    BY <2>6, <2>7
  <2>9. Sound(s) /\ Cap(s) = Cap(w) /\ s.top = k.top /\ s.len = k.top
    BY <2>7, <2>8, CutShort
  <2> HIDE DEF s
  <2>10. Cap(s) >= Cap(k) /\ s.top = s.len /\ at + 1 + nargs = s.top /\ Sound(s)
    BY <2>2, <2>5, <2>7, <2>9
  <2> QED BY <1>1, <1>2, <2>1, <2>2, <2>3, <2>4, <2>10, GoCallKeeps
<1> QED BY <1>3, <1>4
LEMMA CallHandlerKeeps ==
    ASSUME Inv, NEW f \in Functions[Me], CallHandler(f)
    PROVE  Inv'
<1> DEFINE s == Push(Push(k, k.slots[F.base]), F.err)
           g == [F EXCEPT !.phase = "handling"]
           at == k.top
<1>1. F.phase = "ready" /\ steps' = steps /\ CallValue(s, Caller(frames, g), at, 1, 1, f)
  BY DEF CallHandler
<1>2. F \in FrameSet /\ F.kind \in Kinds /\ Runs(k, F) /\ Whole(k) /\ steps \in Nat
  BY Facts DEF FrameSet
<1>3. F.kind = "xpcall"
  BY <1>1, <1>2 DEF Runs, Kinds
<1>4. /\ F.at = F.base + 1 /\ k.top = F.at + 1 /\ k.top = k.len /\ ~F.open
      /\ F.at \in Nat /\ F.base \in Nat /\ k.top \in Nat
  BY <1>1, <1>2, <1>3, Facts DEF Runs
<1>5. /\ g \in FrameSet /\ g.kind = F.kind /\ g.base = F.base /\ g.nvar = F.nvar
      /\ g.want = F.want /\ g.savedBase = F.savedBase /\ g.open = F.open /\ g.at = F.at
      /\ g.phase = "handling"
  BY <1>2 DEF FrameSet, Phases
<1> HIDE DEF g
<1>6. /\ Whole(s) /\ Cap(s) >= Cap(k) /\ s.len = Larger(k.len, k.top + 2)
      /\ s.top = k.top + 2
  BY <1>2, PushedTwo
<1> HIDE DEF s
<1>7. Sound(s) /\ at + 1 + 1 <= s.len /\ at \in Nat
  BY <1>4, <1>6 DEF Sound, Larger
<1>8. at = Place(g) /\ 1 \in Nat /\ 1 \in WantSet /\ F.at + 1 <= Cap(s)
  BY <1>4, <1>5, <1>7 DEF Place, WantSet, Sound, Whole
<1> HIDE DEF at
<1>9. Waits(s, g)
  BY <1>3, <1>4, <1>5, <1>8 DEF Waits
<1>10. /\ (g.phase = "handling" \/ (g.kind = "lua" /\ g.op # "call") => 1 = 1)
       /\ (g.kind = "lua" /\ g.op = "call" /\ 1 # Multi => g.live + 1 <= g.max)
       /\ (F.kind = "lua" => F.live <= g.live \/ Free(g.live))
       /\ (g.phase \in {"ready", "handling"} <=> F.phase \in {"ready", "handling"})
       /\ steps' \in Nat
  BY <1>1, <1>2, <1>3, <1>5
<1> QED BY <1>1, <1>5, <1>6, <1>7, <1>8, <1>9, <1>10, CallKeeps

LEMMA OperatorKeeps ==
    ASSUME Inv, NEW f \in Functions[Me], Operator(f)
    PROVE  Inv'
<1> DEFINE end == F.base + F.max
           at == IF end > k.top THEN end ELSE k.top
           roomy == IF at + 3 > k.len THEN ReserveTo(k, at + 3) ELSE k
           s1 == IF at > k.top THEN [roomy EXCEPT !.top = at] ELSE k
           s  == Push(Push(Push(s1, Metamethod), k.slots[F.base]),
                      k.slots[F.base + F.live - 1])
           g  == [[F EXCEPT !.op = "operator", !.top = k.top, !.len = k.len] EXCEPT !.at = at]
<1>1. /\ F.kind = "lua" /\ F.phase = "run" /\ ~F.open /\ F.live \in 1 .. F.max - 1
      /\ steps' = steps + 1 /\ CallValue(s, Caller(frames, g), at, 2, 1, f)
  BY DEF Operator, InLua, Running, Step, CallAt
<1>2. /\ F \in FrameSet /\ F.live \in Nat /\ F.base \in Nat /\ F.max \in Nat
      /\ end \in Nat /\ end <= k.len /\ k.len \in Nat /\ Whole(k) /\ k.top <= k.len
      /\ k.top \in Nat /\ Cap(k) >= Cap(k) /\ steps \in Nat /\ k.len <= Cap(k)
  <2> HIDE DEF at, roomy, s1, s, g
  <2>1. /\ F \in FrameSet /\ F.live \in Nat /\ F.base \in Nat /\ F.max \in Nat
        /\ k.len \in Nat /\ Whole(k) /\ k.top <= k.len /\ k.top \in Nat
        /\ Cap(k) >= Cap(k) /\ steps \in Nat /\ k.len <= Cap(k)
    BY Facts
  <2>2. F.base + F.max <= k.len
    BY <1>1, LuaFacts
  <2> QED BY <2>1, <2>2
<1>3. at \in Nat /\ end <= at /\ k.top <= at /\ end = F.base + F.max
  BY <1>2
<1>4. /\ g \in FrameSet /\ g.kind = F.kind /\ g.base = F.base /\ g.nvar = F.nvar
      /\ g.want = F.want /\ g.savedBase = F.savedBase /\ g.phase = F.phase
      /\ g.live = F.live /\ g.max = F.max /\ g.open = F.open /\ g.op = "operator"
      /\ g.at = at /\ g.top = k.top /\ g.len = k.len
  BY <1>2, <1>3 DEF FrameSet
<1> HIDE DEF g
<1>5. Whole(s1) /\ Cap(s1) >= Cap(k) /\ s1.top = at
  <2>1. CASE at > k.top
    <3>1. at + 3 \in Nat
      BY <1>3
    <3>2. Whole(roomy) /\ Cap(roomy) >= Cap(k)
      <4>1. CASE at + 3 > k.len
        <5>1. roomy = ReserveTo(k, at + 3)
          BY <4>1
        <5> HIDE DEF roomy
        <5> QED BY <1>2, <3>1, <5>1, Reserved
      <4>2. CASE ~(at + 3 > k.len)
        BY <1>2, <4>2
      <4> QED BY <4>1, <4>2
    <3>3. s1 = [roomy EXCEPT !.top = at]
      BY <2>1
    <3> HIDE DEF roomy, s1, at
    <3>4. Whole(s1) /\ Cap(s1) = Cap(roomy) /\ s1.top = at
      BY <1>3, <3>2, <3>3, TopMoved
    <3> QED BY <3>2, <3>4
  <2>2. CASE ~(at > k.top)
    <3>1. s1 = k /\ at = k.top
      BY <1>2, <1>3, <2>2
    <3> HIDE DEF s1, at
    <3> QED BY <1>2, <3>1
  <2> QED BY <2>1, <2>2
<1> HIDE DEF s1
<1>6. /\ Whole(s) /\ Cap(s) >= Cap(s1) /\ s.len = Larger(s1.len, s1.top + 3)
      /\ s.top = s1.top + 3
  BY <1>5, PushedThree
<1> HIDE DEF s, at
<1>7. Sound(s) /\ Cap(s) >= Cap(k) /\ at + 1 + 2 <= s.len
  BY <1>2, <1>3, <1>5, <1>6 DEF Sound, Larger, Whole
<1>8. Cap(s) \in Nat /\ Cap(k) \in Nat /\ k.len <= Cap(s)
  BY <1>2, <1>7 DEF Sound, Whole
<1>9. F.base <= at /\ F.live < F.max /\ F.base + F.live + 1 <= at /\ end <= k.len
  BY <1>1, <1>2, <1>3
<1>10. Waits(s, g)
  BY <1>1, <1>2, <1>3, <1>4, <1>8, <1>9 DEF Waits
<1>11. /\ at = Place(g) /\ 2 \in Nat /\ 1 \in WantSet
       /\ (g.phase = "handling" \/ (g.kind = "lua" /\ g.op # "call") => 1 = 1)
       /\ (g.kind = "lua" /\ g.op = "call" /\ 1 # Multi => g.live + 1 <= g.max)
       /\ (F.kind = "lua" => F.live <= g.live \/ Free(g.live)) /\ steps' \in Nat
  BY <1>1, <1>2, <1>4 DEF Place, WantSet
<1> QED BY <1>1, <1>3, <1>4, <1>7, <1>10, <1>11, CallKeeps

LEMMA IterateKeeps ==
    ASSUME Inv, NEW f \in Functions[Me], Iterate(f)
    PROVE  Inv'
<1> DEFINE window == F.base + 4
           s1 == IF k.top >= window THEN k
                 ELSE Cut(IF window > k.len THEN Reframe(k, F.base + F.max) ELSE k, window)
           at == s1.top
           s  == Push(Push(Push(s1, k.slots[F.base]), k.slots[F.base + 1]), k.slots[F.base + 2])
           g  == [[F EXCEPT !.op = "iterate"] EXCEPT !.at = at]
<1>1. /\ F.kind = "lua" /\ F.phase = "run" /\ ~F.open /\ F.live = 3 /\ F.max > 3
      /\ steps' = steps + 1 /\ CallValue(s, Caller(frames, g), at, 2, 1, f)
  BY DEF Iterate, InLua, Running, Step, CallAt
<1>2. /\ F \in FrameSet /\ F.base \in Nat /\ F.max \in Nat /\ F.base + F.max <= k.len
      /\ k.len \in Nat /\ Whole(k) /\ k.top <= k.len /\ k.len <= Cap(k) /\ Cap(k) \in Nat
      /\ k.top \in Nat /\ Cap(k) >= Cap(k) /\ steps \in Nat
  <2> HIDE DEF window, s1, at, s, g
  <2> QED BY <1>1, Facts, LuaFacts
<1>3. window \in Nat /\ window <= k.len /\ window \in 0 .. Cap(k) /\ window = F.base + 4
  BY <1>1, <1>2
<1> HIDE DEF window
<1>4. Whole(s1) /\ Cap(s1) >= Cap(k) /\ window <= s1.top /\ s1.top \in Nat
  <2>1. CASE k.top >= window
    <3>1. s1 = k
      BY <2>1
    <3> HIDE DEF s1
    <3> QED BY <1>2, <2>1, <3>1
  <2>2. CASE ~(k.top >= window)
    <3>1. s1 = Cut(k, window)
      BY <1>2, <1>3, <2>2
    <3> HIDE DEF s1
    <3>2. Sound(s1) /\ Cap(s1) = Cap(k) /\ s1.top = window
      BY <1>2, <1>3, <3>1, CutShort
    <3> QED BY <1>2, <1>3, <3>2 DEF Sound
  <2> QED BY <2>1, <2>2
<1> HIDE DEF s1
<1>5. /\ Whole(s) /\ Cap(s) >= Cap(s1) /\ s.len = Larger(s1.len, s1.top + 3)
      /\ s.top = s1.top + 3
  BY <1>4, PushedThree
<1> HIDE DEF s
<1>6. /\ g \in FrameSet /\ g.kind = F.kind /\ g.base = F.base /\ g.nvar = F.nvar
      /\ g.want = F.want /\ g.savedBase = F.savedBase /\ g.phase = F.phase
      /\ g.live = F.live /\ g.max = F.max /\ g.open = F.open /\ g.op = "iterate"
      /\ g.at = at
  BY <1>2, <1>4 DEF FrameSet
<1> HIDE DEF g
<1>7. Sound(s) /\ Cap(s) >= Cap(k) /\ at + 1 + 2 <= s.len /\ at \in Nat
  BY <1>2, <1>4, <1>5, SMTT(30) DEF Sound, Larger, Whole
<1>8. F.base <= at /\ F.live < F.max /\ F.base + F.live + 1 <= at
  BY <1>1, <1>2, <1>3, <1>4
<1> HIDE DEF at
<1>9. Waits(s, g)
  BY <1>1, <1>2, <1>6, <1>8 DEF Waits
<1>10. /\ at = Place(g) /\ 2 \in Nat /\ 1 \in WantSet
       /\ (g.phase = "handling" \/ (g.kind = "lua" /\ g.op # "call") => 1 = 1)
       /\ (g.kind = "lua" /\ g.op = "call" /\ 1 # Multi => g.live + 1 <= g.max)
       /\ (F.kind = "lua" => F.live <= g.live \/ Free(g.live)) /\ steps' \in Nat
  BY <1>1, <1>2, <1>6 DEF Place, WantSet
<1> QED BY <1>1, <1>6, <1>7, <1>9, <1>10, CallKeeps
-----------------------------------------------------------------------------
(* The steps that return                                                   *)

LEMMA LuaReturns ==
    ASSUME Inv, F.kind = "lua", F.phase = "run", NEW from \in Nat, NEW n \in Nat,
           F.base <= from, from + n <= k.len, ReturnFromFrame(from, n), steps' \in Nat
    PROVE  Inv'
<1> DEFINE to == F.base - 1 - F.nvar
           level == F.base - F.nvar
<1>1. CloseTo(level, k.slots) /\ PopFrame(k, from, n, to)
  BY DEF ReturnFromFrame
<1>2. /\ F.base \in Nat /\ F.nvar \in Nat /\ F.live \in Nat /\ Sound(k) /\ Cap(k) >= Cap(k)
      /\ Listed(upvals, openUpvals) /\ AllOwned(frames, upvals, openUpvals) /\ FramesInv
  BY Facts DEF Inv
<1>3. to <= from /\ level \in Int /\ to = F.base - 1 - F.nvar /\ level <= F.base
  BY <1>2
<1> HIDE DEF to, level
<1>4. /\ FramesInv'
      /\ \A slot \in Nat :
            Owned(frames, slot) => \/ Owned(frames', slot)
                                   \/ F.kind = "lua" /\ slot - F.base \in 0 .. F.live - 1
  BY <1>1, <1>2, <1>3, Pops
<1>5. \A slot \in Nat : slot < level /\ Owned(frames, slot) => Owned(frames', slot)
  BY <1>2, <1>3, <1>4
<1>6. UpvalInv'
  BY <1>1, <1>2, <1>3, <1>5, ClosedStill
<1> QED BY <1>4, <1>6 DEF Inv

LEMMA OpReturnKeeps ==
    ASSUME Inv, NEW n \in 0 .. F.live, OpReturn(n)
    PROVE  Inv'
<1> DEFINE from == F.base + n
           count == F.live - n
<1>1. F.kind = "lua" /\ F.phase = "run" /\ steps' = steps + 1 /\ ReturnFromFrame(from, count)
  BY DEF OpReturn, InLua, Running, Step
<1>2. /\ F.live \in Nat /\ F.base \in Nat /\ F.max \in Nat /\ F.live <= F.max /\ steps \in Nat
      /\ F.base + F.max <= k.len /\ k.len \in Nat
  BY <1>1, Facts DEF Runs
<1>3. from \in Nat /\ count \in Nat /\ F.base <= from /\ from + count <= k.len /\ steps' \in Nat
  BY <1>1, <1>2
<1> HIDE DEF from, count
<1> QED BY <1>1, <1>3, LuaReturns

LEMMA OpReturnOpenKeeps ==
    ASSUME Inv, NEW n \in 0 .. F.live, OpReturnOpen(n)
    PROVE  Inv'
<1> DEFINE from == F.base + n
           count == k.top - from
<1>1. F.kind = "lua" /\ F.phase = "run" /\ F.open /\ steps' = steps + 1
      /\ ReturnFromFrame(from, count)
  BY DEF OpReturnOpen, Running, Step
<1>2. /\ F.live \in Nat /\ F.base \in Nat /\ F.base + F.live <= k.top /\ steps \in Nat
      /\ k.top <= k.len /\ k.len \in Nat /\ k.top \in Nat
  BY <1>1, Facts DEF Runs
<1>3. from \in Nat /\ count \in Nat /\ F.base <= from /\ from + count <= k.len /\ steps' \in Nat
  BY <1>1, <1>2
<1> HIDE DEF from, count
<1> QED BY <1>1, <1>3, LuaReturns

LEMMA GoReturns ==
    ASSUME Inv, F.kind \notin {"lua", "host"}, F.phase \notin {"ready", "handling"},
           NEW s, Sound(s), Cap(s) >= Cap(k), NEW n \in Nat, F.base - 1 <= s.top - n,
           n <= s.top, GoExit(s, n), steps' \in Nat
    PROVE  Inv'
<1> DEFINE to == F.base - 1
           from == s.top - n
<1>1. PopFrame(s, from, n, to) /\ UNCHANGED <<upvals, openUpvals>>
  BY DEF GoExit
<1>2. /\ F.base \in Nat /\ FramesInv /\ OneHost(frames) /\ Me \in 1 .. Len(frames) /\ F = frames[Me]
      /\ Listed(upvals, openUpvals) /\ AllOwned(frames, upvals, openUpvals)
  BY Facts DEF Inv, Stands
<1>3. F.nvar = 0
  BY <1>2 DEF OneHost
<1>4. /\ from \in Nat /\ from + n <= s.len /\ to <= from /\ to = F.base - 1 - F.nvar
  BY <1>2, <1>3 DEF Sound, Whole
<1> HIDE DEF to, from
<1>5. /\ FramesInv'
      /\ \A slot \in Nat :
            Owned(frames, slot) => \/ Owned(frames', slot)
                                   \/ F.kind = "lua" /\ slot - F.base \in 0 .. F.live - 1
  BY <1>1, <1>2, <1>4, Pops
<1>6. UpvalInv'
  BY <1>1, <1>2, <1>5, OpenStill
<1> QED BY <1>5, <1>6 DEF Inv

LEMMA GoReturnKeeps ==
    ASSUME Inv, NEW n \in 0 .. Top, GoReturn(n)
    PROVE  Inv'
<1> DEFINE count == Top - n
<1>1. F.kind \in {"go", "quiet"} /\ F.phase = "run" /\ steps' = steps + 1 /\ GoExit(k, count)
  BY DEF GoReturn, InGo, Running, Step
<1>2. /\ F.base \in Nat /\ k.top \in Nat /\ Sound(k) /\ Cap(k) >= Cap(k) /\ steps \in Nat
      /\ Top \in Nat /\ k.top = F.base + Top
  BY <1>1, GoFacts
<1>3. count \in Nat /\ F.base - 1 <= k.top - count /\ count <= k.top /\ steps' \in Nat
  BY <1>1, <1>2
<1> HIDE DEF count
<1> QED BY <1>1, <1>2, <1>3, GoReturns

LEMMA FinishPCallKeeps ==
    ASSUME Inv, FinishPCall
    PROVE  Inv'
<1> DEFINE s1 == Push(k, IF F.phase = "ok" THEN True ELSE False)
           vals == Values(s1, s1.top - 1, 1) \o Values(s1, F.base, Top)
           s == Write(s1, F.base, vals)
           n == Top + 1
<1>1. F.kind = "pcall" /\ F.phase \in {"ok", "failed"} /\ steps' = steps /\ GoExit(s, n)
  BY DEF FinishPCall
<1>2. /\ F.base \in Nat /\ k.top = k.len /\ F.base <= k.top /\ k.top \in Nat /\ Whole(k)
      /\ steps \in Nat
  BY <1>1, Facts DEF Runs
<1>3. Top \in Nat /\ k.top = F.base + Top
  BY <1>2 DEF Top
<1>4. Whole(s1) /\ Cap(s1) >= Cap(k) /\ s1.len = Larger(k.len, k.top + 1) /\ s1.top = k.top + 1
  <2> DEFINE v == IF F.phase = "ok" THEN True ELSE False
  <2> HIDE DEF v
  <2>1. LET r == Push(k, v)
        IN  /\ Whole(r) /\ Cap(r) >= Cap(k)
            /\ r.len = Larger(k.len, k.top + 1) /\ r.top = k.top + 1
    BY <1>2, Pushed
  <2> QED BY <2>1 DEF v
<1> HIDE DEF s1
<1>5. Len(vals) = Top + 1
  <2> DEFINE one == Values(s1, s1.top - 1, 1)
             rest == Values(s1, F.base, Top)
  <2>1. s1.top - 1 \in Int /\ F.base \in Int /\ 1 \in Nat /\ Top \in Nat
    BY <1>2, <1>3, <1>4
  <2>2. Len(one) = 1 /\ one \in Seq({s1.slots[j] : j \in Int})
    BY <2>1, ValuesLen, ZenonT(60)
  <2>3. Len(rest) = Top /\ rest \in Seq({s1.slots[j] : j \in Int})
    BY <2>1, ValuesLen
  <2> HIDE DEF one, rest
  <2>4. Len(one \o rest) = Len(one) + Len(rest)
    BY <2>2, <2>3, Appends, ZenonT(60)
  <2>5. Len(one \o rest) = Top + 1
    <3>1. Len(one \o rest) = 1 + Top
      BY <2>2, <2>3, <2>4
    <3> QED BY <1>3, <3>1
  <2> QED BY <2>5 DEF one, rest
<1> HIDE DEF vals
<1>6. s1.len = k.top + 1 /\ Sound(s1)
  BY <1>2, <1>4 DEF Sound, Larger
<1>7. Whole(s) /\ Cap(s) = Cap(s1) /\ s.len = s1.len /\ s.top = s1.top
  <2>1. F.base \in Nat /\ Len(vals) \in Nat /\ F.base + Len(vals) <= s1.len
    BY <1>2, <1>3, <1>5, <1>6
  <2> QED BY <1>4, <2>1, Written
<1> HIDE DEF s
<1>8. Sound(s) /\ Cap(s) >= Cap(k) /\ s.top = k.top + 1
  BY <1>4, <1>6, <1>7 DEF Sound
<1>9. n \in Nat /\ F.base - 1 <= s.top - n /\ n <= s.top
  BY <1>2, <1>3, <1>8
<1> HIDE DEF n
<1> QED BY <1>1, <1>2, <1>8, <1>9, GoReturns

LEMMA FinishXPCallKeeps ==
    ASSUME Inv, FinishXPCall
    PROVE  Inv'
<1> DEFINE s1 == IF F.phase = "ok" THEN k ELSE Cut(k, F.base + 2)
           s2 == IF F.phase = "errerr" THEN Write(s1, F.base + 1, <<ErrorInHandling>>) ELSE s1
           a  == Push(s2, Nil)
           s3 == Write(a, F.base, <<IF F.phase = "ok" THEN True ELSE False>>)
           s  == Cut(s3, s2.top)
           n  == s2.top - F.base
<1>1. F.kind = "xpcall" /\ F.phase \in {"ok", "failed", "errerr"} /\ steps' = steps
      /\ GoExit(s, n)
  BY DEF FinishXPCall
<1>2. /\ F.base \in Nat /\ k.top = k.len /\ F.base + 1 <= k.top /\ k.top \in Nat /\ Sound(k)
      /\ steps \in Nat /\ Cap(k) \in Nat /\ k.top <= Cap(k)
      /\ (F.phase # "ok" => k.top = F.base + 2)
  BY <1>1, Facts DEF Runs
<1>3. /\ Sound(s1) /\ Cap(s1) >= Cap(k) /\ s1.top = k.top /\ s1.len = k.top
  <2>1. CASE F.phase = "ok"
    BY <1>2, <2>1
  <2>2. CASE F.phase # "ok"
    <3>1. s1 = Cut(k, k.top) /\ k.top \in 0 .. Cap(k) /\ Whole(k)
      BY <1>2, <2>2 DEF Sound
    <3> HIDE DEF s1
    <3>2. Sound(s1) /\ Cap(s1) = Cap(k) /\ s1.top = k.top /\ s1.len = k.top
      BY <3>1, CutShort
    <3> QED BY <1>2, <3>2
  <2> QED BY <2>1, <2>2
<1> HIDE DEF s1
<1>4. /\ Sound(s2) /\ Cap(s2) = Cap(s1) /\ s2.top = k.top /\ s2.len = k.top
  <2>1. CASE F.phase = "errerr"
    <3>1. F.base + 1 \in Nat /\ F.base + 1 + 1 <= s1.len /\ s2 = Write(s1, F.base + 1, <<ErrorInHandling>>)
      BY <1>2, <1>3, <2>1
    <3> HIDE DEF s2
    <3> QED BY <1>3, <3>1, WrittenOne
  <2>2. CASE F.phase # "errerr"
    BY <1>3, <2>2
  <2> QED BY <2>1, <2>2
<1> HIDE DEF s2
<1>5. Whole(s2)
  BY <1>4 DEF Sound
<1>6. Whole(a) /\ Cap(a) >= Cap(s2) /\ a.len = Larger(s2.len, s2.top + 1) /\ a.top = s2.top + 1
  BY <1>5, Pushed
<1> HIDE DEF a
<1>7. Sound(a) /\ a.len = k.top + 1
  BY <1>2, <1>4, <1>6 DEF Sound, Larger
<1>8. Sound(s3) /\ Cap(s3) = Cap(a)
  <2> DEFINE v == IF F.phase = "ok" THEN True ELSE False
  <2>1. F.base \in Nat /\ F.base + 1 <= a.len
    BY <1>2, <1>7
  <2> HIDE DEF v
  <2>2. LET r == Write(a, F.base, <<v>>)
        IN  Sound(r) /\ Cap(r) = Cap(a)
    BY <1>7, <2>1, WrittenOne
  <2> QED BY <2>2 DEF v
<1> HIDE DEF s3
<1>9. Whole(s3) /\ s2.top \in 0 .. Cap(s3)
  BY <1>2, <1>4, <1>6, <1>7, <1>8 DEF Sound, Whole
<1>10. Sound(s) /\ Cap(s) = Cap(s3) /\ s.top = s2.top
  BY <1>9, CutShort
<1> HIDE DEF s
<1>11. Cap(s) >= Cap(k)
  <2>1. Cap(s2) \in Nat /\ Cap(a) \in Nat /\ Cap(s1) \in Nat
    BY <1>3, <1>4, <1>6 DEF Sound, Whole
  <2> QED BY <1>2, <1>3, <1>4, <1>6, <1>8, <1>10, <2>1
<1>12. n \in Nat /\ F.base - 1 <= s.top - n /\ n <= s.top
  BY <1>2, <1>4, <1>10
<1> HIDE DEF n
<1> QED BY <1>1, <1>2, <1>10, <1>11, <1>12, GoReturns
-----------------------------------------------------------------------------
(* The other steps, and all of them                                        *)

LEMMA GoPushKeeps ==
    ASSUME Inv, GoPush
    PROVE  Inv'
<1>1. /\ F.kind \in {"go", "quiet"} /\ F.phase = "run" /\ steps' = steps + 1
      /\ k' = Push(k, New)
      /\ UNCHANGED <<frames, callBase, nonyieldable, inErrHandler, upvals, openUpvals>>
  BY DEF GoPush, InGo, Running, Step, Calm
<1>2. /\ k.top = k.len /\ F.base <= k.top /\ k.top \in Nat /\ Whole(k) /\ F.base \in Nat
      /\ steps \in Nat /\ ~F.open
  BY <1>1, Facts DEF Runs
<1> HIDE DEF New
<1>3. /\ Whole(k') /\ Cap(k') >= Cap(k) /\ k'.len = Larger(k.len, k.top + 1)
      /\ k'.top = k.top + 1
  <2>1. LET r == Push(k, New)
        IN  /\ Whole(r) /\ Cap(r) >= Cap(k)
            /\ r.len = Larger(k.len, k.top + 1) /\ r.top = k.top + 1
    BY <1>2, Pushed
  <2> QED BY <1>1, <2>1
<1>4. Sound(k') /\ k'.top = k'.len /\ F.base <= k'.top
  BY <1>2, <1>3 DEF Sound, Larger
<1>5. Runs(k', F)
  BY <1>1, <1>2, <1>4 DEF Runs
<1>6. FramesInv'
  BY <1>1, <1>3, <1>4, <1>5, Unmoved
<1>7. UpvalInv'
  <2>1. \A slot \in Nat : Owned(frames, slot) => Owned(frames', slot)
    BY <1>1
  <2> QED BY <1>1, <2>1, Facts, OpenStill
<1> QED BY <1>1, <1>2, <1>6, <1>7 DEF Inv

LEMMA BeginHandlingKeeps ==
    ASSUME Inv, BeginHandling
    PROVE  Inv'
<1> DEFINE g  == [F EXCEPT !.phase = "ready"]
           gs == Caller(frames, g)
<1>1. /\ F.phase = "caught" /\ nonyieldable' = nonyieldable + 1
      /\ inErrHandler' = inErrHandler + 1 /\ frames' = gs
      /\ UNCHANGED <<k, callBase, upvals, openUpvals, steps>>
  BY DEF BeginHandling, Become
<1>2. /\ F \in FrameSet /\ Stands(k, frames) /\ Me = Len(frames) /\ F = frames[Me]
      /\ Me \in 1 .. Len(frames) /\ Runs(k, F) /\ Me \in Nat /\ Sound(k) /\ Cap(k) >= Cap(k)
      /\ Counted(frames, callBase, nonyieldable, inErrHandler)
      /\ F.kind \in Kinds
  BY Facts DEF FrameSet
<1>3. F.kind = "xpcall"
  BY <1>1, <1>2 DEF Runs, Kinds
<1>4. /\ g \in FrameSet /\ g.kind = F.kind /\ g.base = F.base /\ g.nvar = F.nvar
      /\ g.want = F.want /\ g.savedBase = F.savedBase /\ g.phase = "ready"
      /\ g.at = F.at /\ g.open = F.open
  BY <1>2 DEF FrameSet, Phases
<1> HIDE DEF g
<1>5. Len(gs) = Me /\ gs[Me] = g /\ \A i \in 1 .. Me - 1 : gs[i] = frames[i]
  BY <1>4, CallerStands
<1>6. Stands(k, gs)
  BY <1>2, <1>4, PrefixStands DEF Caller
<1>7. Runs(k, g)
  BY <1>1, <1>2, <1>3, <1>4 DEF Runs
<1> HIDE DEF gs
<1>8. Quiets(gs) = Quiets(frames) /\ Handlers(gs) = Handlers(frames) \cup {Me}
      /\ Me \notin Handlers(frames)
  <2>1. \A i \in 1 .. Me : i = Me \/ i \in 1 .. Me - 1
    BY <1>2
  <2>2. \A i \in 1 .. Me : gs[i].kind = frames[i].kind
    BY <1>2, <1>4, <1>5, <2>1
  <2>3. \A i \in 1 .. Me : i # Me => gs[i].phase = frames[i].phase
    BY <1>5, <2>1
  <2>4. gs[Me].phase = "ready" /\ frames[Me].phase = "caught"
    BY <1>1, <1>2, <1>4, <1>5
  <2> QED BY <1>2, <1>5, <2>2, <2>3, <2>4 DEF Quiets, Handlers
<1>9. Cardinality(Handlers(gs)) = Cardinality(Handlers(frames)) + 1
  <2>1. IsFiniteSet(Handlers(frames))
    BY <1>2, CountsFinite
  <2> QED BY <1>8, <2>1, FS_AddElement
<1>10. BaseOf(gs, Me) = BaseOf(frames, Me)
  <2>1. \A i \in 1 .. Me : gs[i].kind = frames[i].kind /\ gs[i].base = frames[i].base
    <3>1. \A i \in 1 .. Me : i = Me \/ i \in 1 .. Me - 1
      BY <1>2
    <3> QED BY <1>2, <1>4, <1>5, <3>1
  <2>2. frames[1].kind # "lua" /\ Me \in Nat /\ Me >= 1
    BY <1>2, HostFirst DEF Stands
  <2> QED BY <2>1, <2>2, BaseSame
<1>11. Counted(gs, callBase, nonyieldable', inErrHandler')
  <2>1. Cardinality(Handlers(frames)) \in Nat /\ Cardinality(Quiets(frames)) \in Nat
    BY <1>2, CountsFinite, FS_CardinalityType
  <2> DEFINE h == Cardinality(Handlers(frames))
             q == Cardinality(Quiets(frames))
  <2>2. inErrHandler = h /\ nonyieldable = h + q /\ callBase = BaseOf(frames, Me)
    BY <1>2 DEF Counted
  <2>3. Cardinality(Handlers(gs)) = h + 1 /\ Cardinality(Quiets(gs)) = q
    BY <1>8, <1>9
  <2> HIDE DEF h, q
  <2>4. inErrHandler' = Cardinality(Handlers(gs))
    BY <1>1, <2>2, <2>3
  <2>5. nonyieldable' = Cardinality(Handlers(gs)) + Cardinality(Quiets(gs))
    <3>1. h \in Nat /\ q \in Nat
      BY <2>1 DEF h, q
    <3> QED BY <1>1, <2>2, <2>3, <3>1
  <2>6. callBase = BaseOf(gs, Len(gs))
    BY <1>5, <1>10, <2>2
  <2> QED BY <2>4, <2>5, <2>6 DEF Counted
<1>12. FramesInv'
  BY <1>1, <1>5, <1>6, <1>7, <1>11 DEF FramesInv
<1>13. UpvalInv'
  <2>1. \A slot \in Nat : Owned(frames, slot) => Owned(frames', slot)
    BY <1>1, <1>3, <1>4, CallerOwned DEF gs
  <2> QED BY <1>1, <2>1, Facts, OpenStill
<1> QED BY <1>1, <1>12, <1>13 DEF Inv
\* The stack is as long as the values that VARARG puts there.
RoomFor(s, end) ==
    LET s1 == [s EXCEPT !.top = end]
    IN  Reslice(IF s1.top > s.len THEN ReserveTo(s1, 2 * s1.top - s.len) ELSE s1, end)

LEMMA RoomMade ==
    ASSUME NEW s, Sound(s), NEW end \in Nat
    PROVE  LET r == RoomFor(s, end)
           IN  Whole(r) /\ Cap(r) >= Cap(s) /\ r.len = end /\ r.top = end
<1> DEFINE s1 == [s EXCEPT !.top = end]
           a  == IF s1.top > s.len THEN ReserveTo(s1, 2 * s1.top - s.len) ELSE s1
           r  == RoomFor(s, end)
<1>1. Whole(s) /\ s.len \in Nat /\ s.len <= Cap(s) /\ Cap(s) \in Nat
  BY DEF Sound, Whole
<1>2. r = Reslice(a, end)
  BY DEF RoomFor
<1> HIDE DEF r
<1>3. Whole(s1) /\ Cap(s1) = Cap(s) /\ s1.len = s.len /\ s1.top = end
  BY <1>1, TopMoved
<1> HIDE DEF s1
<1>4. Whole(a) /\ Cap(a) >= Cap(s) /\ end <= a.len /\ a.top = end
  <2>1. CASE s1.top > s.len
    <3> DEFINE room == 2 * s1.top - s.len
    <3>1. room \in Nat /\ a = ReserveTo(s1, room) /\ end <= room
      BY <1>1, <1>3, <2>1
    <3> HIDE DEF room, a
    <3>2. Whole(a) /\ Cap(a) >= Cap(s1) /\ a.len = Larger(s1.len, room) /\ a.top = s1.top
      BY <1>3, <3>1, Reserved
    <3>3. end <= a.len
      BY <1>1, <1>3, <3>1, <3>2 DEF Larger
    <3> QED BY <1>3, <3>2, <3>3
  <2>2. CASE ~(s1.top > s.len)
    <3>1. a = s1
      BY <2>2
    <3> HIDE DEF a
    <3> QED BY <1>1, <1>3, <2>2, <3>1
  <2> QED BY <2>1, <2>2
<1> HIDE DEF a
<1>5. end \in 0 .. Cap(a)
  BY <1>1, <1>4 DEF Whole
<1>6. Whole(r) /\ Cap(r) = Cap(a) /\ r.len = end /\ r.top = a.top
  BY <1>2, <1>4, <1>5, Resliced
<1>7. Whole(r) /\ Cap(r) >= Cap(s) /\ r.len = end /\ r.top = end
  BY <1>4, <1>6
<1> QED BY <1>7 DEF r

LEMMA GetVarargsKeeps ==
    ASSUME Inv, NEW want \in Wants, GetVarargs(want)
    PROVE  Inv'
<1> DEFINE at == F.base + F.live
           all == want = Multi
           n == IF all THEN F.nvar ELSE want
           from == F.base - F.nvar
           s1 == [k EXCEPT !.top = at + n]
           s2 == IF ~all THEN k
                 ELSE Reslice(IF s1.top > k.len THEN ReserveTo(s1, 2 * s1.top - k.len) ELSE s1,
                              at + n)
           given == IF n < F.nvar THEN n ELSE F.nvar
           r == Reframe(s2, F.base + F.max)
           vals == Values(s2, from, given) \o Nils(n - given)
           more == IF all THEN 0 ELSE want
           g == [F EXCEPT !.open = all, !.live = F.live + more]
<1>1. /\ F.kind = "lua" /\ F.phase = "run" /\ ~F.open /\ steps' = steps + 1
      /\ F.live + more <= F.max
      /\ k' = Write(r, at, vals) /\ frames' = Caller(frames, g)
      /\ UNCHANGED <<callBase, nonyieldable, inErrHandler, upvals, openUpvals>>
  BY DEF GetVarargs, InLua, Running, Step, Become, Calm
<1>2. /\ F \in FrameSet /\ F.base \in Nat /\ F.max \in Nat /\ F.live \in Nat /\ F.nvar \in Nat
      /\ Sound(k) /\ steps \in Nat /\ F.base + F.max <= k.len
  BY <1>1, Facts DEF Runs
<1>3. /\ n \in Nat /\ more \in Nat /\ at \in Nat /\ F.base + F.max \in Nat /\ all \in BOOLEAN
      /\ at = F.base + F.live /\ (~all => n = more) /\ (all => more = 0)
  <2>1. want \in WantSet
    BY FunctionsAre
  <2> QED BY <1>2, <2>1 DEF WantSet
<1>4. ~all => at + n <= F.base + F.max
  BY <1>1, <1>2, <1>3
<1>5. /\ given \in Nat /\ n - given \in Nat /\ from \in Int
  BY <1>2, <1>3
<1>6. /\ g \in FrameSet /\ g.kind = F.kind /\ g.base = F.base /\ g.nvar = F.nvar
      /\ g.want = F.want /\ g.savedBase = F.savedBase /\ g.phase = F.phase
      /\ g.live = F.live + more /\ g.max = F.max
  <2>1. all \in BOOLEAN /\ F.live + more \in Nat
    BY <1>2, <1>3
  <2> HIDE DEF all, more
  <2> QED BY <1>2, <2>1 DEF FrameSet
<1>7. g.open = all
  BY <1>2 DEF FrameSet
<1> HIDE DEF g, more
<1>8. /\ Sound(r) /\ Cap(r) >= Cap(k) /\ at + n <= r.len /\ F.base + F.max <= r.len
      /\ all => r.top = at + n
  <2> DEFINE need == F.base + F.max
             end == at + n
  <2>1. need \in Nat /\ (want # Multi => end <= need) /\ end \in Nat
    BY <1>3, <1>4
  <2>2. want # Multi => s2 = k
    OBVIOUS
  <2>3. want = Multi => s2 = RoomFor(k, end)
    BY DEF RoomFor
  <2>4. r = Reframe(s2, need)
    OBVIOUS
  <2> HIDE DEF need, end, s2, r
  <2>5. Whole(k) /\ k.top <= k.len /\ Cap(k) >= Cap(k)
    BY <1>2 DEF Sound, Whole
  <2>6. /\ Whole(s2) /\ Cap(s2) >= Cap(k) /\ s2.top <= s2.len
        /\ want = Multi => s2.top = end /\ s2.len = end
    <3>1. CASE want = Multi
      <4>1. Whole(s2) /\ Cap(s2) >= Cap(k) /\ s2.len = end /\ s2.top = end
        BY <1>2, <2>1, <2>3, <3>1, RoomMade
      <4> QED BY <2>1, <4>1
    <3>2. CASE want # Multi
      BY <2>2, <2>5, <3>2
    <3> QED BY <3>1, <3>2
  <2>7. Whole(r) /\ Cap(r) >= Cap(s2) /\ r.len = Larger(s2.len, need) /\ r.top = s2.top
    BY <2>1, <2>4, <2>6, Reframed
  <2>8. /\ s2.len \in Nat /\ s2.top \in Nat /\ Cap(s2) \in Nat /\ Cap(r) \in Nat /\ r.len \in Nat
        /\ Cap(k) \in Nat
    BY <2>5, <2>6, <2>7 DEF Whole
  <2>9. need <= r.len /\ s2.len <= r.len /\ Cap(r) >= Cap(k) /\ r.top <= r.len
    BY <2>1, <2>6, <2>7, <2>8 DEF Larger
  <2>10. Sound(r) /\ end <= r.len /\ (want = Multi => r.top = end)
    BY <2>1, <2>6, <2>7, <2>8, <2>9 DEF Sound
  <2> QED BY <2>9, <2>10 DEF need, end
<1>9. Len(vals) = n
  <2> DEFINE one == Values(s2, from, given)
             rest == Nils(n - given)
             S == {s2.slots[j] : j \in Int}
             T == Int
  <2> HIDE DEF s2, from, given, n
  <2>1. Len(one) = given /\ one \in Seq(S)
    BY <1>5, ValuesLen
  <2>2. Len(rest) = n - given /\ rest \in Seq(T)
    BY <1>5, NilsLen
  <2> HIDE DEF one, rest, S, T
  <2>3. Len(one \o rest) = Len(one) + Len(rest)
    BY <2>1, <2>2, Appends
  <2>4. Len(one \o rest) = n
    <3>1. Len(one \o rest) = given + (n - given)
      BY <2>1, <2>2, <2>3
    <3> QED BY <1>3, <1>5, <3>1
  <2> QED BY <2>4 DEF one, rest
<1> HIDE DEF vals, r, s2, s1, given, from
<1>10. Sound(k') /\ Cap(k') >= Cap(k) /\ k'.len = r.len /\ k'.top = r.top
  <2>1. Whole(r) /\ Len(vals) \in Nat /\ at + Len(vals) <= r.len
    BY <1>3, <1>8, <1>9 DEF Sound
  <2> HIDE DEF at
  <2>2. Whole(k') /\ Cap(k') = Cap(r) /\ k'.len = r.len /\ k'.top = r.top
    <3>1. LET w == Write(r, at, vals)
          IN  Whole(w) /\ Cap(w) = Cap(r) /\ w.len = r.len /\ w.top = r.top
      BY <1>3, <2>1, Written
    <3> QED BY <1>1, <3>1
  <2> QED BY <1>8, <2>2 DEF Sound
<1>11. Runs(k', g)
  <2>1. g.open => g.base + g.live <= k'.top
    <3> HIDE DEF all, n, at
    <3>1. g.open => /\ k'.top = at + n /\ g.live = F.live + 0 /\ at = F.base + F.live
                    /\ g.base = F.base
      BY <1>3, <1>6, <1>7, <1>8, <1>10
    <3>2. n \in Nat /\ F.base \in Nat /\ F.live \in Nat
      BY <1>2, <1>3
    <3> QED BY <3>1, <3>2
  <2> QED BY <1>1, <1>2, <1>6, <1>8, <1>10, <2>1 DEF Runs
<1>12. FramesInv'
  BY <1>1, <1>6, <1>10, <1>11, Changed
<1>13. UpvalInv'
  <2>1. F.live <= g.live
    BY <1>2, <1>3, <1>6
  <2>2. \A slot \in Nat : Owned(frames, slot) => Owned(frames', slot)
    BY <1>1, <1>6, <2>1, CallerOwned
  <2> QED BY <1>1, <2>2, Facts, OpenStill
<1> QED BY <1>1, <1>2, <1>12, <1>13 DEF Inv
LEMMA InitInv ==
    ASSUME Init
    PROVE  Inv
<1> DEFINE g == [Frame(Host, 0, 0, 0) EXCEPT !.savedBase = 0]
<1>1. /\ k = Push(Push(Push(NewStack, 1), 2), 3) /\ callBase = 0 /\ frames = <<g>>
      /\ nonyieldable = 0 /\ inErrHandler = 0 /\ upvals = <<>> /\ openUpvals = <<>> /\ steps = 3
  BY DEF Init
<1>2. /\ g \in FrameSet /\ g.kind = "host" /\ g.base = 0 /\ g.nvar = 0 /\ g.phase = "run"
      /\ ~g.open
  <2> DEFINE f == Frame(Host, 0, 0, 0)
  <2>1. /\ f = [kind |-> "host", base |-> 0, want |-> 0, nvar |-> 0, max |-> 0,
                vararg |-> FALSE, live |-> 0, open |-> FALSE, phase |-> "run", op |-> "call",
                at |-> 0, top |-> 0, len |-> 0, savedBase |-> 0, err |-> 0]
    BY <1>1 DEF Frame, Host, Nil
  <2> HIDE DEF f
  <2>2. f \in FrameSet
    BY <2>1 DEF FrameSet, Kinds, Phases, WantSet
  <2>3. /\ g.kind = "host" /\ g.base = 0 /\ g.nvar = 0 /\ g.phase = "run" /\ ~g.open
    BY <2>1 DEF f
  <2>4. g \in FrameSet
    BY <2>2 DEF FrameSet, f
  <2> QED BY <2>3, <2>4
<1> HIDE DEF g
<1>3. Sound(k) /\ k.top = k.len /\ k.top = 3
  <2>1. MinCap \in Nat /\ DOMAIN NewStack.slots = 0 .. MinCap - 1
    BY CapAssumption DEF NewStack
  <2>2. Cap(NewStack) = MinCap
    BY <2>1, CapIs
  <2>3. Whole(NewStack) /\ NewStack.len = 0 /\ NewStack.top = 0
    BY <2>1, <2>2 DEF Whole, NewStack
  <2> HIDE DEF NewStack
  <2>4. Whole(k) /\ k.len = Larger(NewStack.len, NewStack.top + 3) /\ k.top = NewStack.top + 3
    BY <1>1, <2>3, PushedThree
  <2> QED BY <2>3, <2>4 DEF Sound, Larger
<1>4. /\ frames \in Seq(FrameSet) /\ Len(frames) = 1 /\ frames[1] = g
      /\ \A i \in 1 .. Len(frames) : i = 1
  BY <1>1, <1>2
<1>5. MaxDepth >= 1 /\ MaxDepth \in Nat
  BY CallsAssumption
<1>6. Stands(k, frames)
  BY <1>2, <1>3, <1>4, <1>5 DEF Stands, OneHost, Waiting, Linked, Layered, Saved
<1>7. Runs(k, frames[Len(frames)])
  BY <1>2, <1>3, <1>4 DEF Runs
<1>8. Counted(frames, callBase, nonyieldable, inErrHandler)
  <2>1. Handlers(frames) = {} /\ Quiets(frames) = {}
    BY <1>2, <1>4 DEF Handlers, Quiets
  <2>2. BaseOf(frames, 1) = g.base
    BY <1>2, <1>4, BaseOfIs
  <2>3. Cardinality({}) = 0
    BY FS_EmptySet
  <2>4. Cardinality(Handlers(frames)) = 0 /\ Cardinality(Quiets(frames)) = 0
    BY <2>1, <2>3
  <2> QED BY <1>1, <1>2, <1>4, <2>2, <2>4 DEF Counted
<1>9. UpvalInv
  <2>1. Listed(upvals, openUpvals)
    <3> DEFINE values == {0}
    <3>1. 0 \in values /\ upvals \in Seq(Upval(Nat, values)) /\ openUpvals \in Seq(DOMAIN upvals)
          /\ DOMAIN upvals = {} /\ DOMAIN openUpvals = {} /\ Len(openUpvals) = 0
      BY <1>1
    <3>2. Descending(upvals, openUpvals) /\ Exact(upvals, openUpvals)
      BY <3>1 DEF Descending, Exact
    <3> HIDE DEF values
    <3> QED BY <3>1, <3>2 DEF Listed
  <2>2. AllOwned(frames, upvals, openUpvals)
    BY <1>1 DEF AllOwned
  <2> QED BY <2>1, <2>2 DEF UpvalInv
<1> QED BY <1>1, <1>6, <1>7, <1>8, <1>9 DEF Inv, FramesInv

LEMMA LuaNextKeeps ==
    ASSUME Inv, LuaNext
    PROVE  Inv'
<1>1. CASE Load
  BY <1>1, LoadKeeps
<1>2. ASSUME NEW r \in 1 .. F.live, Assign(r) PROVE Inv'
  BY <1>2, AssignKeeps
<1>3. ASSUME NEW r \in 1 .. F.live, Capture(r) PROVE Inv'
  BY <1>3, CaptureKeeps
<1>4. ASSUME NEW u \in DOMAIN upvals, WriteUpval(u) PROVE Inv'
  BY <1>4, WriteUpvalKeeps
<1>5. ASSUME NEW n \in 0 .. F.live, CloseScope(n) PROVE Inv'
  BY <1>5, CloseScopeKeeps
<1>6. ASSUME NEW n \in 0 .. F.live, OpReturn(n) PROVE Inv'
  BY <1>6, OpReturnKeeps
<1>7. ASSUME NEW want \in Wants, GetVarargs(want) PROVE Inv'
  BY <1>7, GetVarargsKeeps
<1>8. ASSUME NEW want \in Wants, NEW n \in 0 .. F.live, NEW f \in Functions[Me],
             OpCall(n, want, f)
      PROVE  Inv'
  BY <1>8, OpCallKeeps
<1>9. ASSUME NEW f \in Functions[Me], Operator(f) PROVE Inv'
  BY <1>9, OperatorKeeps
<1>10. ASSUME NEW f \in Functions[Me], Iterate(f) PROVE Inv'
  BY <1>10, IterateKeeps
<1> QED
  BY <1>1, <1>2, <1>3, <1>4, <1>5, <1>6, <1>7, <1>8, <1>9, <1>10 DEF LuaNext

LEMMA LuaOpenNextKeeps ==
    ASSUME Inv, LuaOpenNext
    PROVE  Inv'
<1>1. CASE SetList
  BY <1>1, SetListKeeps
<1>2. ASSUME NEW n \in 0 .. F.live, OpReturnOpen(n) PROVE Inv'
  BY <1>2, OpReturnOpenKeeps
<1>3. ASSUME NEW n \in 0 .. F.live, NEW f \in Functions[Me], NEW want \in Wants,
             OpCallOpen(n, want, f)
      PROVE  Inv'
  BY <1>3, OpCallOpenKeeps
<1> QED BY <1>1, <1>2, <1>3 DEF LuaOpenNext

LEMMA GoNextKeeps ==
    ASSUME Inv, GoNext
    PROVE  Inv'
<1>1. CASE GoPush
  BY <1>1, GoPushKeeps
<1>2. CASE BeginHandling
  BY <1>2, BeginHandlingKeeps
<1>3. CASE FinishPCall
  BY <1>3, FinishPCallKeeps
<1>4. CASE FinishXPCall
  BY <1>4, FinishXPCallKeeps
<1>5. ASSUME NEW n \in 0 .. Top, GoReturn(n) PROVE Inv'
  BY <1>5, GoReturnKeeps
<1>6. ASSUME NEW n \in 0 .. Top, NEW f \in Functions[Me], HostCall(n, f) PROVE Inv'
  BY <1>6, HostCallKeeps
<1>7. ASSUME NEW n \in 0 .. Top, NEW f \in Functions[Me], NEW want \in Wants,
             GoCall(n, want, f)
      PROVE  Inv'
  BY <1>7, GoCallOfKeeps
<1>8. ASSUME NEW f \in Functions[Me], StartPCall(f) PROVE Inv'
  BY <1>8, StartPCallKeeps
<1>9. ASSUME NEW f \in Functions[Me], StartXPCall(f) PROVE Inv'
  BY <1>9, StartXPCallKeeps
<1>10. ASSUME NEW f \in Functions[Me], CallHandler(f) PROVE Inv'
  BY <1>10, CallHandlerKeeps
<1> QED
  BY <1>1, <1>2, <1>3, <1>4, <1>5, <1>6, <1>7, <1>8, <1>9, <1>10 DEF GoNext

LEMMA NextInv ==
    ASSUME Inv, [Next]_vars
    PROVE  Inv'
<1>1. CASE UNCHANGED vars
  BY <1>1 DEF vars, Inv, FramesInv, UpvalInv
<1>2. CASE RaiseError
  BY <1>2, RaiseErrorKeeps
<1>3. CASE LuaNext
  BY <1>3, LuaNextKeeps
<1>4. CASE LuaOpenNext
  BY <1>4, LuaOpenNextKeeps
<1>5. CASE GoNext
  BY <1>5, GoNextKeeps
<1> QED BY <1>1, <1>2, <1>3, <1>4, <1>5 DEF Next

LEMMA AlwaysInv == Spec => []Inv
<1>1. Init => Inv
  BY InitInv
<1>2. Inv /\ [Next]_vars => Inv'
  BY NextInv
<1> QED BY <1>1, <1>2, PTL DEF Spec

-----------------------------------------------------------------------------
(* What the invariant says of the system                                   *)

LEMMA InvStackInRange ==
    ASSUME Inv
    PROVE  StackInRange
<1>1. k.ok /\ k.len <= Cap(k)
  BY Facts DEF Sound, Whole
<1>2. ASSUME NEW i \in DOMAIN frames PROVE Window(i) >= 0
  <2> DEFINE f == frames[i]
  <2>1. i \in 1 .. Me /\ f \in FrameSet /\ (i < Me => Waits(k, f)) /\ (i = Me => f = F)
    <3>1. /\ frames \in Seq(FrameSet) /\ Me = Len(frames) /\ Me \in Nat
          /\ \A j \in 1 .. Me : frames[j] \in FrameSet
      BY Facts
    <3>2. DOMAIN frames = 1 .. Me
      BY <3>1
    <3>3. Waiting(k, frames)
      BY Facts DEF Stands
    <3> QED BY <3>1, <3>2, <3>3 DEF Waiting, F
  <2>2. f.base \in Nat /\ f.live \in Nat /\ f.at \in Nat /\ f.kind \in Kinds /\ Me \in Nat
    BY <2>1, Facts DEF FrameSet
  <2>3. Runs(k, F) /\ k.top \in Nat
    BY Facts
  <2>4. Window(i) = IF f.kind = "lua" THEN (IF f.open THEN k.top - f.base ELSE f.live)
                    ELSE (IF i < Me \/ f.phase \in {"caught", "ready"} THEN f.at ELSE k.top)
                         - f.base
    BY DEF Window
  <2> HIDE DEF f
  <2>5. CASE i < Me
    <3>1. f.base <= f.at /\ ~f.open
      BY <2>1, <2>5 DEF Waits
    <3> QED BY <2>2, <2>4, <2>5, <3>1
  <2>6. CASE i = Me
    <3>1. f = F /\ Runs(k, f)
      BY <2>1, <2>3, <2>6
    <3>2. CASE f.kind = "lua"
      <4>1. f.open => f.base + f.live <= k.top
        BY <3>1, <3>2 DEF Runs
      <4> QED BY <2>2, <2>3, <2>4, <3>2, <4>1
    <3>3. CASE f.kind # "lua"
      <4>1. f.base <= k.top
        BY <3>1, <3>3 DEF Runs
      <4>2. f.phase \in {"caught", "ready"} => f.at = f.base + 1
        BY <2>2, <3>1, <3>3 DEF Runs, Kinds
      <4> QED BY <2>2, <2>3, <2>4, <2>6, <3>3, <4>1, <4>2
    <3> QED BY <3>2, <3>3
  <2> QED BY <2>1, <2>2, <2>5, <2>6
<1>3. IF F.kind = "lua" THEN F.base + F.max <= k.len ELSE k.top = k.len
  BY Facts DEF Runs
<1> QED BY <1>1, <1>2, <1>3 DEF StackInRange

LEMMA InvCountersBalanced ==
    ASSUME Inv
    PROVE  CountersBalanced
<1> DEFINE ready    == {i \in DOMAIN frames : frames[i].phase = "ready"}
           handling == {i \in DOMAIN frames : frames[i].phase = "handling"}
           gos      == {i \in DOMAIN frames : frames[i].kind # "lua"}
           quiets   == {i \in gos : frames[i].kind = "quiet"}
<1>1. DOMAIN frames = 1 .. Len(frames) /\ Len(frames) \in Nat
  BY Facts
<1>2. ready \cup handling = Handlers(frames) /\ ready \cap handling = {}
  BY <1>1 DEF Handlers
<1>3. quiets = Quiets(frames)
  BY <1>1 DEF Quiets
<1>4. gos = {j \in 1 .. Len(frames) : frames[j].kind # "lua"}
  BY <1>1
<1>5. IsFiniteSet(ready) /\ IsFiniteSet(handling)
  <2>1. IsFiniteSet(Handlers(frames)) /\ ready \subseteq Handlers(frames)
        /\ handling \subseteq Handlers(frames)
    BY <1>1, <1>2, CountsFinite
  <2> HIDE DEF ready, handling
  <2> QED BY <2>1, FS_Subset
<1>6. Counted(frames, callBase, nonyieldable, inErrHandler)
  BY Facts
<1>7. Cardinality(Handlers(frames)) = Cardinality(ready) + Cardinality(handling)
  <2> HIDE DEF ready, handling
  <2>1. /\ Cardinality(ready \cup handling)
             = Cardinality(ready) + Cardinality(handling) - Cardinality(ready \cap handling)
        /\ Cardinality(ready) \in Nat /\ Cardinality(handling) \in Nat
    BY <1>5, FS_Union, FS_CardinalityType
  <2>2. Cardinality({}) = 0
    BY FS_EmptySet
  <2>3. Cardinality(ready \cap handling) = 0
    BY <1>2, <2>2
  <2>4. Cardinality(ready \cup handling) = Cardinality(Handlers(frames))
    BY <1>2
  <2> DEFINE r == Cardinality(ready)
             h == Cardinality(handling)
             both == Cardinality(Handlers(frames))
             none == Cardinality(ready \cap handling)
  <2>5. both = r + h - none /\ none = 0 /\ r \in Nat /\ h \in Nat
    BY <2>1, <2>3, <2>4
  <2> HIDE DEF r, h, both, none
  <2>6. both = r + h
    BY <2>5
  <2> QED BY <2>6 DEF r, h, both
<1>8. callBase = frames[Largest(gos)].base
  BY <1>4, <1>6 DEF Counted, BaseOf
<1>9. /\ inErrHandler = Cardinality(ready) + Cardinality(handling)
      /\ nonyieldable = Cardinality(ready) + Cardinality(handling) + Cardinality(quiets)
  <2> HIDE DEF ready, handling, quiets
  <2> QED BY <1>3, <1>6, <1>7 DEF Counted
<1> QED BY <1>8, <1>9 DEF CountersBalanced

LEMMA InvOpenUpvalsLive ==
    ASSUME Inv
    PROVE  OpenUpvalsLive
<1>1. /\ Listed(upvals, openUpvals) /\ AllOwned(frames, upvals, openUpvals)
      /\ Runs(k, F) /\ k.top \in Nat /\ Me = Len(frames) /\ Me \in Nat /\ F = frames[Me]
      /\ \A j \in 1 .. Me : frames[j] \in FrameSet
  BY Facts
<1>2. DOMAIN frames = 1 .. Me /\ Waiting(k, frames)
  <2>1. frames \in Seq(FrameSet) /\ Stands(k, frames)
    BY Facts
  <2> QED BY <1>1, <2>1 DEF Stands
<1>3. \A u \in DOMAIN upvals :
         upvals[u].closed <=> \A i \in DOMAIN openUpvals : openUpvals[i] # u
  BY <1>1 DEF Listed, Exact
<1>4. \A i, j \in DOMAIN openUpvals :
         i < j => upvals[openUpvals[i]].slot > upvals[openUpvals[j]].slot
  BY <1>1 DEF Listed, Descending
<1>5. ASSUME NEW i \in DOMAIN openUpvals
      PROVE  \E j \in DOMAIN frames :
                /\ frames[j].kind = "lua"
                /\ upvals[openUpvals[i]].slot - frames[j].base \in 0 .. Window(j) - 1
  <2> DEFINE slot == upvals[openUpvals[i]].slot
  <2>1. slot \in Nat /\ Owned(frames, slot)
    BY <1>1, ListedSlots DEF AllOwned
  <2> HIDE DEF slot
  <2>2. PICK j \in 1 .. Me : /\ frames[j].kind = "lua"
                             /\ slot - frames[j].base \in 0 .. frames[j].live - 1
    BY <1>1, <2>1 DEF Owned
  <2>3. frames[j].base \in Nat /\ frames[j].live \in Nat
    BY <1>1, <2>2 DEF FrameSet
  <2>4. Window(j) = IF frames[j].open THEN k.top - frames[j].base ELSE frames[j].live
    BY <2>2 DEF Window
  <2>5. frames[j].open => frames[j].base + frames[j].live <= k.top
    <3>1. CASE j = Me
      BY <1>1, <2>2, <3>1 DEF Runs
    <3>2. CASE j # Me
      <4>1. j \in 1 .. Len(frames) - 1
        BY <1>1, <3>2
      <4> QED BY <1>2, <4>1 DEF Waiting, Waits
    <3> QED BY <3>1, <3>2
  <2>6. slot - frames[j].base \in 0 .. Window(j) - 1
    BY <1>1, <2>1, <2>2, <2>3, <2>4, <2>5
  <2> QED BY <1>2, <2>2, <2>6 DEF slot
<1> QED BY <1>3, <1>4, <1>5 DEF OpenUpvalsLive

\* Whatever is called, returned from, raised and caught, the interpreter uses
\* no slot outside the slice, the Lua function that runs has room for all its
\* registers, and top is where the Go function that runs expects it
\* (growTo, reframeStack and the truncations of do.go and execute.go agree).
THEOREM StackAlwaysInRange == Spec => []StackInRange
<1>1. Inv => StackInRange
  BY InvStackInRange
<1> QED BY <1>1, AlwaysInv, PTL

\* An error gives back all that the calls it unwinds have taken: the
\* deferred functions restore callBase to that of the innermost Go function
\* left, and no handler or quiet call stays counted.
THEOREM CountersAlwaysBalanced == Spec => []CountersBalanced
<1>1. Inv => CountersBalanced
  BY InvCountersBalanced
<1> QED BY <1>1, AlwaysInv, PTL

\* The list of open upvalues is in order and complete, and each belongs to a
\* local of a Lua function that has not ended: returns and errors close what
\* they leave behind (closeUpvals), however they were reached.
THEOREM OpenUpvalsAlwaysLive == Spec => []OpenUpvalsLive
<1>1. Inv => OpenUpvalsLive
  BY InvOpenUpvalsLive
<1> QED BY <1>1, AlwaysInv, PTL
=============================================================================
