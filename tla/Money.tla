---------------------------------- MODULE Money ----------------------------------
(***************************************************************************)
(* Amounts of money as int64 counts of minor units, at a width of Bits:    *)
(* how decimal text becomes an amount and back, and what Add, Sub and      *)
(* Negate do at the ends of the range.  An amount goes through any         *)
(* sequence of operations; beside it runs the integer it stands for.  The  *)
(* other product the code computes in int64, the backoff of the outbox     *)
(* publisher, runs along.                                                  *)
(*                                                                         *)
(* A text is a record of what the parser looks at: stray (blanks, capital  *)
(* letters, an exponent, NaN, anything else that is no digit), sign, int   *)
(* (the number its integer digits write, None when there are none) and     *)
(* frac (the digits after the point).                                      *)
(***************************************************************************)
EXTENDS Integers, Sequences

(* An operator whose name ends in Bug is a mistake the code could contain.  *)
(* No specification uses it: each shows that a property notices it.         *)

CONSTANTS
    Bits,               \* width of an integer (64)
    Texts, Codes,       \* what a caller may send as an amount, as a currency
    Canonical,          \* the ISO code that a well-formed code means
    Columns,            \* amounts that a column of the database may hold
    BaseBackoff, MaxBackoff,   \* of the publisher
    MaxAttempts,        \* BOUND: failed attempts of one event
    None

Modulus == 2 ^ Bits
MaxInt  == Modulus \div 2 - 1
MinInt  == - MaxInt - 1
Int64   == MinInt..MaxInt

ASSUME WidthAssumption ==
    /\ Bits \in Nat /\ MaxInt \in Nat /\ MaxInt > 100 /\ Modulus = 2 * MaxInt + 2
ASSUME NoneAssumption == None \notin Nat
ASSUME TextsAssumption ==
    \A t \in Texts :
        /\ DOMAIN t = {"stray", "sign", "int", "frac"}
        /\ t.stray \in BOOLEAN /\ t.sign \in {"none", "plus", "minus"}
        /\ t.int \in Nat \cup {None}
        /\ t.frac \in Seq(0..9)
ASSUME CodesAssumption == DOMAIN Canonical \subseteq Codes \ {None}
ASSUME ColumnsAssumption == Columns \subseteq Int64
ASSUME BackoffAssumption ==
    /\ {BaseBackoff, MaxBackoff} \subseteq 1..MaxInt /\ MaxAttempts \in Nat

VARIABLES
    money,              \* an amount the code holds
    exact,              \* the integer it stands for
    answer, wanted,     \* of the last operation: its error, its true result
    attempts, delay     \* of an event: failed attempts, the last backoff

amount == << money, exact, answer, wanted >>
retry  == << attempts, delay >>
vars   == << amount, retry >>

--------------------------------------------------------------------------------
(* Machine integers.                                                         *)

Wrap(n) == ((n - MinInt) % Modulus) + MinInt

AddInt64_OneSidedBug(a, b) ==
    [value |-> Wrap(a + b), ok |-> ~ (b > 0 /\ Wrap(a + b) < a)]
AddInt64(a, b) ==
    LET sum == Wrap(a + b)
    IN [value |-> sum, ok |-> ~ ((b > 0 /\ sum < a) \/ (b < 0 /\ sum > a))]

SubInt64(a, b) ==
    LET diff == Wrap(a - b)
    IN [value |-> diff, ok |-> ~ ((b < 0 /\ diff < a) \/ (b > 0 /\ diff > a))]

--------------------------------------------------------------------------------
(* Amounts.                                                                  *)

NoMoney == [units |-> 0, cur |-> None]     \* the zero value of the struct
Result(units, cur) == [err |-> "none", m |-> [units |-> units, cur |-> cur]]
Error(e) == [err |-> e, m |-> NoMoney]

NormalizeCurrency(code) ==
    IF code = None THEN Error("emptyCurrency")
    ELSE IF code \notin DOMAIN Canonical THEN Error("invalidCurrency")
    ELSE Result(0, Canonical[code])

\* The fraction, padded to two digits.
Cents_UnpaddedBug(frac) ==
    CASE Len(frac) = 0 -> 0 [] Len(frac) = 1 -> frac[1] [] OTHER -> 10 * frac[1] + frac[2]
Cents(frac) ==
    CASE Len(frac) = 0 -> 0 [] Len(frac) = 1 -> 10 * frac[1] [] OTHER -> 10 * frac[1] + frac[2]

TooLarge_NoCentsBug(int, cents) == int > MaxInt \div 100
TooLarge(int, cents) == int > MaxInt \/ int > (MaxInt - cents) \div 100

\* parseDecimalToMinorUnits: ParseInt refuses what does not fit, and so does the
\* check before the multiplication.
Parse(t) ==
    LET cents == Cents(t.frac)
        total == Wrap(t.int * 100 + cents)
    IN IF t.stray \/ t.int = None THEN Error("format")
       ELSE IF Len(t.frac) > 2 THEN Error("scale")
       ELSE IF TooLarge(t.int, cents) THEN Error("overflow")
       ELSE Result(IF t.sign = "minus" THEN - total ELSE total, None)

FromDecimalString(t, code) ==
    LET c == NormalizeCurrency(code)
        p == Parse(t)
    IN IF c.err # "none" THEN c
       ELSE IF p.err # "none" THEN p
       ELSE IF p.m.units < 0 THEN Error("negative")
       ELSE Result(p.m.units, c.m.cur)

FromMinorUnits(n, code) ==
    LET c == NormalizeCurrency(code)
    IN IF c.err # "none" THEN c ELSE Result(n, c.m.cur)

Combined(m, other, r) ==
    IF m.cur = None \/ other.cur = None THEN Error("emptyCurrency")
    ELSE IF m.cur # other.cur THEN Error("currencyMismatch")
    ELSE IF ~ r.ok THEN Error("overflow")
    ELSE Result(r.value, m.cur)

Add(m, other) == Combined(m, other, AddInt64(m.units, other.units))
Sub(m, other) == Combined(m, other, SubInt64(m.units, other.units))

Negate(m) ==
    IF m.cur = None THEN Error("emptyCurrency")
    ELSE IF m.units = MinInt THEN Error("overflow")
    ELSE Result(- m.units, m.cur)

\* DecimalString takes the absolute value as an unsigned integer, which has room
\* for that of the smallest one.
Magnitude_SignedBug(n) == IF n < 0 THEN Wrap(- n) ELSE n
Magnitude(n) == IF n < 0 THEN (-(n + 1) + 1) % Modulus ELSE n

DecimalString(n) ==
    LET abs == Magnitude(n)
    IN [stray |-> FALSE, sign |-> IF n < 0 THEN "minus" ELSE "none",
        int |-> abs \div 100, frac |-> << (abs % 100) \div 10, abs % 10 >>]

--------------------------------------------------------------------------------
(* backoff of the publisher.                                                 *)

\* The conversion of a power beyond the range is up to the processor: amd64 gives
\* the smallest integer, arm64 the largest.
Powers(n) == IF 2 ^ n <= MaxInt THEN {2 ^ n} ELSE {MinInt, MaxInt}

Capped_SignlessBug(d) == IF d > MaxBackoff THEN MaxBackoff ELSE d
Capped(d) == IF d > MaxBackoff \/ d <= 0 THEN MaxBackoff ELSE d

Backoffs(n) == {Capped(Wrap(p * BaseBackoff)) : p \in Powers(n)}

--------------------------------------------------------------------------------
Init ==
    /\ money = NoMoney /\ exact = 0
    /\ answer = "none" /\ wanted = 0
    /\ attempts = 0 /\ delay = 0

\* What comes of an operation whose true result is n.
Yields(r, n) ==
    /\ answer' = r.err /\ wanted' = n
    /\ IF r.err = "none" THEN money' = r.m /\ exact' = n ELSE UNCHANGED << money, exact >>
    /\ UNCHANGED retry

\* The hundredths a text writes.
Value(t) ==
    IF t.int = None THEN 0
    ELSE LET Digit(i) == IF i <= Len(t.frac) THEN t.frac[i] ELSE 0
         IN t.int * 100 + Digit(1) * 10 + Digit(2)

Read(t, code)   == Yields(FromDecimalString(t, code), Value(t))
AddStored(n, c) == LET o == FromMinorUnits(n, c)
                   IN o.err = "none" /\ Yields(Add(money, o.m), exact + n)
SubStored(n, c) == LET o == FromMinorUnits(n, c)
                   IN o.err = "none" /\ Yields(Sub(money, o.m), exact - n)
Negation        == Yields(Negate(money), - exact)

\* UnmarshalJSON of what MarshalJSON wrote.
Reread ==
    /\ money.cur # None
    /\ Yields(FromDecimalString(DecimalString(money.units), money.cur),
              IF exact < 0 THEN - exact ELSE exact)

\* markFailed: the delay follows from the attempts before this one.
Fail ==
    /\ attempts < MaxAttempts
    /\ attempts' = attempts + 1
    /\ delay' \in Backoffs(attempts)
    /\ UNCHANGED amount

Operate ==
    \/ \E t \in Texts, code \in Codes : Read(t, code)
    \/ \E n \in Columns, code \in Codes : AddStored(n, code) \/ SubStored(n, code)
    \/ Negation \/ Reread

\* The event goes out; the next one has failed no attempt yet.
GoOut == attempts > 0 /\ attempts' = 0 /\ delay' = 0 /\ UNCHANGED amount

\* Amounts and backoffs do not meet: a behaviour is of one kind or of the other.
Next ==
    \/ attempts = 0 /\ Operate
    \/ money = NoMoney /\ (Fail \/ GoOut)

Spec == Init /\ [][Next]_vars

--------------------------------------------------------------------------------
(* Properties.                                                               *)

\* However many operations an amount goes through, it is what integers without a
\* limit would make of it: no sum wraps unnoticed.  And an operation is refused as
\* an overflow exactly when its result does not fit: no check sees too little or
\* refuses the last amounts of the range (money.go:113-116, 300-314).
ArithmeticIsExact ==
    /\ money.units = exact
    /\ answer = "overflow" => wanted \notin Int64
    /\ answer = "none" => wanted \in Int64

\* What is written reads back as the same amount, with two decimals, whatever its
\* sign: the payload hash and the JSON of events and answers stand for the amount.
\* Only the smallest int64, which no balance is, writes a text that the parser
\* refuses (money.go:257-270).
TextRoundTrips ==
    LET t == DecimalString(money.units) IN
    /\ Len(t.frac) = 2 /\ t.int \in Nat
    /\ IF money.units = MinInt THEN Parse(t).err = "overflow"
       ELSE Parse(t).err = "none" /\ Parse(t).m.units = money.units

\* The delay doubles from the base up to its limit and stays there, although the
\* power and the product overflow on the way (publisher.go:175-181).
BackoffDoubles ==
    attempts > 0 =>
        delay = LET ideal == 2 ^ (attempts - 1) * BaseBackoff
                IN IF ideal > MaxBackoff THEN MaxBackoff ELSE ideal
================================================================================
