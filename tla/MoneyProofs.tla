------------------------------- MODULE MoneyProofs -------------------------------
(***************************************************************************)
(* The arithmetic of amounts, proved for every width of the integers, every *)
(* text, every currency and every column: an amount is the integer it      *)
(* stands for, an operation is refused as an overflow exactly when its     *)
(* result does not fit, and what is written reads back.                    *)
(*                                                                         *)
(* Modulus and MaxInt are never expanded: all that is used of them is      *)
(* WidthAssumption.                                                        *)
(***************************************************************************)
EXTENDS Money, SequenceTheorems, TLAPS

--------------------------------------------------------------------------------
(* Machine integers.                                                         *)

\* Go's arithmetic (money.go:301, 309): an integer of the type is itself.
LEMMA WrapInside ==
    ASSUME NEW n \in Int64 PROVE Wrap(n) = n
BY WidthAssumption DEF Wrap, Int64, MinInt

\* One that passes the upper end of the range comes out at the lower one.
LEMMA WrapAbove ==
    ASSUME NEW n \in Int, MaxInt < n, n <= 2 * MaxInt PROVE Wrap(n) = n - Modulus
BY WidthAssumption DEF Wrap, Int64, MinInt

\* One that passes the lower end comes out at the upper one.
LEMMA WrapBelow ==
    ASSUME NEW n \in Int, n < MinInt, 2 * MinInt <= n PROVE Wrap(n) = n + Modulus
BY WidthAssumption DEF Wrap, Int64, MinInt

\* Looking at the wrapped sum is enough to tell whether it fits (money.go:300-306).
LEMMA AddIsExact ==
    ASSUME NEW a \in Int64, NEW b \in Int64
    PROVE  /\ AddInt64(a, b).ok <=> a + b \in Int64
           /\ AddInt64(a, b).ok => AddInt64(a, b).value = a + b
<1>1. /\ AddInt64(a, b).value = Wrap(a + b)
      /\ AddInt64(a, b).ok <=> ~ ((b > 0 /\ Wrap(a + b) < a) \/ (b < 0 /\ Wrap(a + b) > a))
  BY DEF AddInt64
<1>2. CASE a + b \in Int64
  BY <1>1, <1>2, WrapInside, WidthAssumption DEF Int64, MinInt
<1>3. CASE a + b > MaxInt
  <2>1. Wrap(a + b) = a + b - Modulus
    BY <1>3, WrapAbove, WidthAssumption DEF Int64, MinInt
  <2> QED BY <1>1, <1>3, <2>1, WidthAssumption DEF Int64, MinInt
<1>4. CASE a + b < MinInt
  <2>1. Wrap(a + b) = a + b + Modulus
    BY <1>4, WrapBelow, WidthAssumption DEF Int64, MinInt
  <2> QED BY <1>1, <1>4, <2>1, WidthAssumption DEF Int64, MinInt
<1> QED BY <1>2, <1>3, <1>4, WidthAssumption DEF Int64, MinInt

\* The same of a difference, the smallest integer subtracted included
\* (money.go:308-314).
LEMMA SubIsExact ==
    ASSUME NEW a \in Int64, NEW b \in Int64
    PROVE  /\ SubInt64(a, b).ok <=> a - b \in Int64
           /\ SubInt64(a, b).ok => SubInt64(a, b).value = a - b
<1>1. /\ SubInt64(a, b).value = Wrap(a - b)
      /\ SubInt64(a, b).ok <=> ~ ((b < 0 /\ Wrap(a - b) < a) \/ (b > 0 /\ Wrap(a - b) > a))
  BY DEF SubInt64
<1>2. CASE a - b \in Int64
  BY <1>1, <1>2, WrapInside, WidthAssumption DEF Int64, MinInt
<1>3. CASE a - b > MaxInt
  <2>1. Wrap(a - b) = a - b - Modulus
    <3>1. CASE a - b <= 2 * MaxInt
      BY <1>3, <3>1, WrapAbove, WidthAssumption DEF Int64, MinInt
    <3>2. CASE a - b = 2 * MaxInt + 1
      BY <3>2, WidthAssumption DEF Wrap, MinInt
    <3> QED BY <3>1, <3>2, WidthAssumption DEF Int64, MinInt
  <2> QED BY <1>1, <1>3, <2>1, WidthAssumption DEF Int64, MinInt
<1>4. CASE a - b < MinInt
  <2>1. Wrap(a - b) = a - b + Modulus
    BY <1>4, WrapBelow, WidthAssumption DEF Int64, MinInt
  <2> QED BY <1>1, <1>4, <2>1, WidthAssumption DEF Int64, MinInt
<1> QED BY <1>2, <1>3, <1>4, WidthAssumption DEF Int64, MinInt

--------------------------------------------------------------------------------
(* Text.                                                                     *)

\* What TextsAssumption says of a text, and the texts the parser accepts if they fit.
Text(t) ==
    /\ t.stray \in BOOLEAN /\ t.sign \in {"none", "plus", "minus"}
    /\ t.int \in Nat \cup {None}
    /\ t.frac \in Seq(0..9)

\* A text that the parser accepts as far as its form goes.
WellFormed(t) == ~ t.stray /\ t.int # None /\ Len(t.frac) <= 2

\* The padded fraction is the hundredths the digits write (money.go:96-111).
LEMMA CentsAreTheFraction ==
    ASSUME NEW t, Text(t), WellFormed(t)
    PROVE  /\ Cents(t.frac) \in 0..99
           /\ t.int \in Nat
           /\ Value(t) = t.int * 100 + Cents(t.frac)
<1> DEFINE f == t.frac
<1>1. t.int \in Nat /\ t.int # None
  BY DEF Text, WellFormed
<1>2. f \in Seq(0..9) /\ Len(f) \in {0, 1, 2}
  <2>1. f \in Seq(0..9)
    BY DEF Text
  <2>2. Len(f) \in Nat
    BY <2>1
  <2>3. Len(f) <= 2
    BY DEF WellFormed
  <2>4. \A n \in Nat : n <= 2 => n \in {0, 1, 2}
    OBVIOUS
  <2> QED BY <2>1, <2>2, <2>3, <2>4, Zenon
<1>3. ASSUME NEW i \in 1..Len(f) PROVE f[i] \in 0..9
  BY <1>2, ElementOfSeq
<1>4. CASE Len(f) = 0
  <2>1. Cents(f) = 0
    BY <1>4 DEF Cents
  <2>2. Value(t) = t.int * 100
    BY <1>1, <1>4 DEF Value
  <2> QED BY <1>1, <2>1, <2>2
<1>5. CASE Len(f) = 1
  <2>1. Cents(f) = 10 * f[1]
    BY <1>5 DEF Cents
  <2>2. Value(t) = t.int * 100 + f[1] * 10 + 0
    BY <1>1, <1>5 DEF Value
  <2> QED BY <1>1, <1>3, <1>5, <2>1, <2>2
<1>6. CASE Len(f) = 2
  <2>1. Cents(f) = 10 * f[1] + f[2]
    BY <1>6 DEF Cents
  <2>2. Value(t) = t.int * 100 + f[1] * 10 + f[2]
    BY <1>1, <1>6 DEF Value
  <2> QED BY <1>1, <1>3, <1>6, <2>1, <2>2
<1> QED BY <1>2, <1>4, <1>5, <1>6

\* The check before the multiplication is that of the product (money.go:104-117).
LEMMA TooLargeIsExact ==
    ASSUME NEW i \in Nat, NEW c \in 0..99
    PROVE  TooLarge(i, c) <=> i * 100 + c > MaxInt
BY WidthAssumption DEF TooLarge

\* A well-formed text is refused only if what it writes does not fit, and
\* else becomes exactly that (money.go:54-122).
LEMMA ParseIsExact ==
    ASSUME NEW t, Text(t)
    PROVE  /\ Parse(t).err = "none" =>
                 /\ Parse(t).m.units = IF t.sign = "minus" THEN - Value(t) ELSE Value(t)
                 /\ Value(t) \in 0..MaxInt
           /\ Parse(t).err = "overflow" => Value(t) \in Int /\ Value(t) > MaxInt
           /\ WellFormed(t) => Parse(t).err = IF Value(t) > MaxInt THEN "overflow" ELSE "none"
<1> DEFINE c == Cents(t.frac)
           total == Wrap(t.int * 100 + c)
<1>1. CASE ~ WellFormed(t)
  <2>1. Parse(t).err \in {"format", "scale"}
    BY <1>1 DEF Parse, WellFormed, Error, Text
  <2> QED BY <1>1, <2>1
<1>2. CASE WellFormed(t)
  <2>1. c \in 0..99 /\ t.int \in Nat /\ Value(t) = t.int * 100 + c
    BY <1>2, CentsAreTheFraction
  <2>2. Parse(t) = IF TooLarge(t.int, c) THEN Error("overflow")
                   ELSE Result(IF t.sign = "minus" THEN - total ELSE total, None)
    BY <1>2, <2>1 DEF Parse, WellFormed, Text
  <2>3. TooLarge(t.int, c) <=> Value(t) > MaxInt
    BY <2>1, TooLargeIsExact
  <2>4. CASE Value(t) > MaxInt
    <3>1. Parse(t).err = "overflow"
      BY <2>2, <2>3, <2>4 DEF Error
    <3> QED BY <2>1, <2>4, <3>1
  <2>5. CASE ~ (Value(t) > MaxInt)
    <3>1. Value(t) \in 0..MaxInt /\ Value(t) \in Int64
      BY <2>1, <2>5, WidthAssumption DEF Int64, MinInt
    <3>2. total = Value(t)
      BY <2>1, <3>1, WrapInside
    <3>3. /\ Parse(t).err = "none"
          /\ Parse(t).m.units = IF t.sign = "minus" THEN - total ELSE total
      BY <2>2, <2>3, <2>5 DEF Result
    <3> QED BY <2>5, <3>1, <3>2, <3>3
  <2> QED BY <2>4, <2>5
<1> QED BY <1>1, <1>2

--------------------------------------------------------------------------------
(* An amount through any sequence of operations.                             *)

\* What an operation may return when its true result is n.
Sound(r, n) ==
    /\ r.err = "none" => r.m.units = n /\ n \in Int64
    /\ r.err = "overflow" => n \notin Int64

\* The inductive invariant: the amount is an integer of the type besides.
Exact == money.units \in Int64 /\ ArithmeticIsExact

\* A sound result leaves the amount exact, whether the operation fails or not.
LEMMA YieldsKeepsExact ==
    ASSUME NEW r, NEW n, Sound(r, n), Exact, Yields(r, n) PROVE Exact'
<1>1. CASE r.err = "none"
  BY <1>1 DEF Sound, Exact, ArithmeticIsExact, Yields
<1>2. CASE r.err # "none"
  BY <1>2 DEF Sound, Exact, ArithmeticIsExact, Yields
<1> QED BY <1>1, <1>2

\* FromDecimalString refuses a negative amount, and never one that fits as an
\* overflow (money.go:36-52).
LEMMA FromDecimalStringSound ==
    ASSUME NEW t, Text(t), NEW code
    PROVE  Sound(FromDecimalString(t, code), Value(t))
<1> DEFINE p == Parse(t)
           c == NormalizeCurrency(code)
           r == FromDecimalString(t, code)
<1>1. CASE c.err # "none"
  <2>1. c.err \in {"emptyCurrency", "invalidCurrency"}
    BY <1>1 DEF NormalizeCurrency, Error, Result
  <2>2. r = c
    BY <1>1 DEF FromDecimalString
  <2> QED BY <2>1, <2>2 DEF Sound
<1>2. CASE c.err = "none" /\ p.err # "none"
  <2>1. r = p
    BY <1>2 DEF FromDecimalString
  <2>2. p.err = "overflow" => Value(t) \in Int /\ Value(t) > MaxInt
    BY ParseIsExact
  <2> QED BY <1>2, <2>1, <2>2, WidthAssumption DEF Sound, Int64
<1>3. CASE c.err = "none" /\ p.err = "none"
  <2>1. /\ p.m.units = IF t.sign = "minus" THEN - Value(t) ELSE Value(t)
        /\ Value(t) \in 0..MaxInt
    BY <1>3, ParseIsExact
  <2>2. Value(t) \in Int64
    BY <2>1, WidthAssumption DEF Int64, MinInt
  <2>3. CASE p.m.units < 0
    <3>1. r = Error("negative")
      BY <1>3, <2>3 DEF FromDecimalString
    <3> QED BY <3>1 DEF Sound, Error
  <2>4. CASE ~ (p.m.units < 0)
    <3>1. r = Result(p.m.units, c.m.cur)
      BY <1>3, <2>4 DEF FromDecimalString
    <3>2. p.m.units = Value(t)
      BY <2>1, <2>4
    <3>3. r.err = "none" /\ r.m.units = Value(t)
      BY <3>1, <3>2 DEF Result
    <3> QED BY <2>2, <3>3 DEF Sound
  <2> QED BY <2>3, <2>4
<1> QED BY <1>1, <1>2, <1>3

\* What DecimalString writes is well formed and the amount without its sign
\* (money.go:257-270).
LEMMA DecimalStringWritesTheAmount ==
    ASSUME NEW u \in Int64
    PROVE  LET t == DecimalString(u) IN
           /\ Text(t) /\ WellFormed(t)
           /\ t.sign = "minus" <=> u < 0
           /\ Value(t) = IF u < 0 THEN - u ELSE u
           /\ t.int \in Nat /\ Len(t.frac) = 2
<1> DEFINE t == DecimalString(u)
           abs == Magnitude(u)
           x == (abs % 100) \div 10
           y == abs % 10
<1>1. abs \in Nat /\ abs = IF u < 0 THEN - u ELSE u
  BY WidthAssumption DEF Magnitude, Int64, MinInt
<1>2. /\ t.stray = FALSE /\ t.sign = IF u < 0 THEN "minus" ELSE "none"
      /\ t.int = abs \div 100
      /\ t.frac = << x, y >>
  BY DEF DecimalString
<1> HIDE DEF t, abs, x, y
<1>3. /\ t.int \in Nat
      /\ x \in 0..9 /\ y \in 0..9
  BY <1>1, <1>2 DEF x, y
<1>4. /\ t.frac \in Seq(0..9) /\ Len(t.frac) = 2
      /\ t.frac[1] = x /\ t.frac[2] = y
  <2>1. \A a, b \in 0..9 :
           /\ << a, b >> \in Seq(0..9) /\ Len(<< a, b >>) = 2
           /\ << a, b >>[1] = a /\ << a, b >>[2] = b
    OBVIOUS
  <2>2. /\ << x, y >> \in Seq(0..9) /\ Len(<< x, y >>) = 2
        /\ << x, y >>[1] = x /\ << x, y >>[2] = y
    BY <1>3, <2>1
  <2> QED BY <1>2, <2>2, Zenon
<1>5. Text(t) /\ WellFormed(t)
  <2>1. t.stray \in BOOLEAN /\ ~ t.stray /\ t.sign \in {"none", "plus", "minus"}
    BY <1>2
  <2>2. t.int \in Nat \cup {None} /\ t.int # None
    BY <1>3, NoneAssumption
  <2>3. Len(t.frac) <= 2
    BY <1>4
  <2> QED BY <1>4, <2>1, <2>2, <2>3, Zenon DEF Text, WellFormed
<1>6. Cents(t.frac) = 10 * x + y
  <2>1. Len(t.frac) = 2 => Cents(t.frac) = 10 * t.frac[1] + t.frac[2]
    BY DEF Cents
  <2> QED BY <1>4, <2>1
<1>7. Value(t) = t.int * 100 + Cents(t.frac)
  BY <1>5, CentsAreTheFraction
<1>8. abs = (abs \div 100) * 100 + (10 * x + y)
  <2>1. \A n \in Nat : n = (n \div 100) * 100 + (n % 100) /\ n % 100 \in Nat
    OBVIOUS
  <2>2. \A n \in Nat : n = 10 * (n \div 10) + (n % 10)
    OBVIOUS
  <2>3. \A n \in Nat : (n % 100) % 10 = n % 10
    OBVIOUS
  <2>4. abs % 100 = 10 * x + y
    BY <1>1, <2>1, <2>2, <2>3 DEF x, y
  <2> QED BY <1>1, <2>1, <2>4
<1>9. Value(t) = abs
  BY <1>2, <1>6, <1>7, <1>8
<1>10. t.sign = "minus" <=> u < 0
  BY <1>2
<1> QED BY <1>1, <1>3, <1>4, <1>5, <1>9, <1>10 DEF t

\* Add of an amount read from the database (money.go:190-202).
LEMMA AddSound ==
    ASSUME Exact, NEW o, o.units \in Int64 PROVE Sound(Add(money, o), exact + o.units)
<1> DEFINE s == AddInt64(money.units, o.units)
<1>1. money.units = exact /\ money.units \in Int64
  BY DEF Exact, ArithmeticIsExact
<1>2. /\ s.ok <=> exact + o.units \in Int64
      /\ s.ok => s.value = exact + o.units
  BY <1>1, AddIsExact
<1> HIDE DEF s
<1>3. Sound(Combined(money, o, s), exact + o.units)
  BY <1>2 DEF Sound, Combined, Error, Result
<1> QED BY <1>3 DEF Add, s

\* Sub of an amount read from the database (money.go:207-219).
LEMMA SubSound ==
    ASSUME Exact, NEW o, o.units \in Int64 PROVE Sound(Sub(money, o), exact - o.units)
<1> DEFINE s == SubInt64(money.units, o.units)
<1>1. money.units = exact /\ money.units \in Int64
  BY DEF Exact, ArithmeticIsExact
<1>2. /\ s.ok <=> exact - o.units \in Int64
      /\ s.ok => s.value = exact - o.units
  BY <1>1, SubIsExact
<1> HIDE DEF s
<1>3. Sound(Combined(money, o, s), exact - o.units)
  BY <1>2 DEF Sound, Combined, Error, Result
<1> QED BY <1>3 DEF Sub, s

\* The smallest integer is the only one without a negation (money.go:222-230).
LEMMA NegateSound ==
    ASSUME Exact PROVE Sound(Negate(money), - exact)
<1>1. money.units = exact /\ exact \in Int64
  BY DEF Exact, ArithmeticIsExact
<1>2. exact # MinInt => - exact \in Int64
  BY <1>1, WidthAssumption DEF Int64, MinInt
<1>3. exact = MinInt => - exact \notin Int64
  BY <1>1, WidthAssumption DEF Int64, MinInt
<1> QED BY <1>1, <1>2, <1>3 DEF Sound, Negate, Error, Result

\* FromMinorUnits takes any int64, negative ones included (money.go:318-324).
LEMMA FromMinorUnitsKeeps ==
    ASSUME NEW n, NEW code, FromMinorUnits(n, code).err = "none"
    PROVE  FromMinorUnits(n, code).m.units = n
BY DEF FromMinorUnits, Result, NormalizeCurrency, Error

--------------------------------------------------------------------------------
(* The theorems.                                                             *)

\* Every operation keeps the amount exact.
LEMMA Invariant == Spec => []Exact
<1>1. Init => Exact
  BY WidthAssumption DEF Init, Exact, ArithmeticIsExact, NoMoney, Int64, MinInt
<1>2. Exact /\ [Next]_vars => Exact'
  <2> SUFFICES ASSUME Exact, [Next]_vars PROVE Exact'
    OBVIOUS
  <2>1. ASSUME NEW t \in Texts, NEW code \in Codes, Read(t, code) PROVE Exact'
    <3>1. Text(t)
      BY TextsAssumption DEF Text
    <3>2. Sound(FromDecimalString(t, code), Value(t))
      BY <3>1, FromDecimalStringSound
    <3> QED BY <2>1, <3>2, YieldsKeepsExact DEF Read
  <2>2. ASSUME NEW n \in Columns, NEW code \in Codes, AddStored(n, code) PROVE Exact'
    <3> DEFINE o == FromMinorUnits(n, code)
    <3>1. o.m.units = n /\ n \in Int64
      BY <2>2, FromMinorUnitsKeeps, ColumnsAssumption DEF AddStored
    <3>2. Sound(Add(money, o.m), exact + n)
      BY <3>1, AddSound
    <3> QED BY <2>2, <3>2, YieldsKeepsExact DEF AddStored
  <2>3. ASSUME NEW n \in Columns, NEW code \in Codes, SubStored(n, code) PROVE Exact'
    <3> DEFINE o == FromMinorUnits(n, code)
    <3>1. o.m.units = n /\ n \in Int64
      BY <2>3, FromMinorUnitsKeeps, ColumnsAssumption DEF SubStored
    <3>2. Sound(Sub(money, o.m), exact - n)
      BY <3>1, SubSound
    <3> QED BY <2>3, <3>2, YieldsKeepsExact DEF SubStored
  <2>4. CASE Negation
    BY <2>4, NegateSound, YieldsKeepsExact DEF Negation
  <2>5. CASE Reread
    <3> DEFINE t == DecimalString(money.units)
    <3>1. money.units = exact /\ money.units \in Int64
      BY DEF Exact, ArithmeticIsExact
    <3>2. Text(t) /\ Value(t) = IF exact < 0 THEN - exact ELSE exact
      BY <3>1, DecimalStringWritesTheAmount
    <3>3. Sound(FromDecimalString(t, money.cur), IF exact < 0 THEN - exact ELSE exact)
      BY <3>2, FromDecimalStringSound
    <3> QED BY <2>5, <3>3, YieldsKeepsExact DEF Reread
  <2>6. CASE Fail \/ GoOut \/ UNCHANGED vars
    BY <2>6 DEF Fail, GoOut, vars, amount, Exact, ArithmeticIsExact
  <2> QED BY <2>1, <2>2, <2>3, <2>4, <2>5, <2>6 DEF Next, Operate
<1> QED BY <1>1, <1>2, PTL DEF Spec

\* Whatever is read, added, subtracted, negated and read again, at any width, no
\* amount ever differs from the integer it stands for, and an operation fails with
\* an overflow exactly when its result does not fit (money.go:113-116, 300-314).
THEOREM AmountsAreExact == Spec => []ArithmeticIsExact
<1>1. Exact => ArithmeticIsExact
  BY DEF Exact
<1> QED BY <1>1, Invariant, PTL

\* Every amount the code holds but the smallest integer is written as a text with
\* two decimals that the parser reads back as the same amount (money.go:54-122,
\* 257-270).
THEOREM AmountsReadBack == Spec => []TextRoundTrips
<1>1. Exact => TextRoundTrips
  <2> DEFINE u == money.units
             t == DecimalString(u)
  <2> SUFFICES ASSUME Exact PROVE TextRoundTrips
    OBVIOUS
  <2>1. u \in Int64
    BY DEF Exact
  <2>2. /\ Text(t) /\ WellFormed(t)
        /\ t.sign = "minus" <=> u < 0
        /\ Value(t) = IF u < 0 THEN - u ELSE u
        /\ t.int \in Nat /\ Len(t.frac) = 2
    BY <2>1, DecimalStringWritesTheAmount
  <2>3. /\ Parse(t).err = "none" =>
              Parse(t).m.units = IF t.sign = "minus" THEN - Value(t) ELSE Value(t)
        /\ Parse(t).err = IF Value(t) > MaxInt THEN "overflow" ELSE "none"
    BY <2>2, ParseIsExact
  <2>4. Value(t) > MaxInt <=> u = MinInt
    BY <2>1, <2>2, WidthAssumption DEF Int64, MinInt
  <2>5. u # MinInt => Parse(t).m.units = u
    BY <2>1, <2>2, <2>3, <2>4 DEF Int64, MinInt
  <2> QED BY <2>2, <2>3, <2>4, <2>5 DEF TextRoundTrips
<1> QED BY <1>1, Invariant, PTL
================================================================================
