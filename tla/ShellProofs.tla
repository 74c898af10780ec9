---------------------------- MODULE ShellProofs ----------------------------
(***************************************************************************)
(* Theorems about Shell, for whatever is typed, numbers of any width and   *)
(* any room for digits that is enough for them.                            *)
(***************************************************************************)
EXTENDS Shell, Recursion, TLAPS

-----------------------------------------------------------------------------
(* Digits, and what a sequence of them stands for.                         *)

IsDigit(c) == \E d \in 0 .. 9 : Stands(c, d)

DigitOf(c) == CHOOSE d \in 0 .. 9 : Stands(c, d)

AllDigits(s) == \A k \in 1 .. Len(s) : IsDigit(s[k])

LEMMA SymbolsDiffer ==
  ASSUME NEW d \in 0 .. 10, NEW e \in 0 .. 10, Symbols[d + 1] = Symbols[e + 1]
  PROVE  d = e
BY SMT DEF Symbols

LEMMA DigitIsOne ==
  ASSUME NEW c, NEW d \in 0 .. 9, Stands(c, d)
  PROVE  IsDigit(c) /\ DigitOf(c) = d
<1>1. \A e \in 0 .. 9 : Stands(c, e) => e = d
  <2> SUFFICES ASSUME NEW e \in 0 .. 9, Stands(c, e) PROVE e = d
    OBVIOUS
  <2>1. e \in 0 .. 10 /\ d \in 0 .. 10 /\ Symbols[d + 1] = Symbols[e + 1]
    BY DEF Stands
  <2> QED
    BY <2>1, SymbolsDiffer
<1> QED
  BY <1>1 DEF IsDigit, DigitOf

LEMMA DigitType ==
  ASSUME NEW c, IsDigit(c)
  PROVE  DigitOf(c) \in 0 .. 9 /\ Stands(c, DigitOf(c))
BY DEF IsDigit, DigitOf

LEMMA DigitsStand ==
  ASSUME NEW d \in 0 .. 9
  PROVE  Stands(Symbols[d + 1], d)
BY DEF Stands

LEMMA SpaceIsNoDigit == ~IsDigit(Space)
<1> DEFINE All == {"0", "1", "2", "3", "4", "5", "6", "7", "8", "9", "A"}
<1>1. \A d \in 0 .. 10 : Symbols[d + 1] \in All
  BY SMT DEF Symbols
<1>2. Space \notin All
  BY Zenon DEF Space
<1> HIDE DEF All
<1> QED
  BY <1>1, <1>2 DEF IsDigit, Stands

LEMMA NumberIsDigits ==
  ASSUME NEW S, NEW s \in Seq(S)
  PROVE  IsNumber(s) <=> s # <<>> /\ AllDigits(s)
BY DEF IsNumber, AllDigits, IsDigit

(* The digits of s, one after the other, put behind x.                     *)
Fold(x, s) ==
  LET fold[k \in 0 .. Len(s)] ==
        IF k = 0 THEN x ELSE 10 * fold[k - 1] + DigitOf(s[k])
  IN  fold[Len(s)]

Folds(f, x, s) ==
  f[0] = x /\ \A k \in 1 .. Len(s) : f[k] = 10 * f[k - 1] + DigitOf(s[k])

LEMMA ValueIsFold ==
  ASSUME NEW s PROVE Value(s) = Fold(0, s)
BY DEF Value, Fold, DigitOf

LEMMA FoldsAgree ==
  ASSUME NEW S, NEW s \in Seq(S), NEW x, NEW f, NEW g,
         Folds(f, x, s), Folds(g, x, s)
  PROVE  \A k \in 0 .. Len(s) : f[k] = g[k]
<1> DEFINE T == {k \in Nat : k <= Len(s) => f[k] = g[k]}
<1>1. 0 \in T
  BY DEF Folds
<1>2. ASSUME NEW k \in Nat, k \in T
      PROVE  k + 1 \in T
  <2> SUFFICES ASSUME k + 1 <= Len(s) PROVE f[k + 1] = g[k + 1]
    OBVIOUS
  <2>1. k + 1 \in 1 .. Len(s) /\ (k + 1) - 1 = k /\ f[k] = g[k]
    BY <1>2
  <2> QED
    BY <2>1 DEF Folds
<1> HIDE DEF T
<1>3. \A k \in Nat : k \in T
  BY <1>1, <1>2, NatSetInduction
<1> QED
  BY <1>3 DEF T

LEMMA FoldExists ==
  ASSUME NEW S, NEW s \in Seq(S), AllDigits(s), NEW x \in Nat
  PROVE  \E f \in [0 .. Len(s) -> Nat] : Folds(f, x, s) /\ Fold(x, s) = f[Len(s)]
<1> DEFINE n == Len(s)
           c(k) == DigitOf(s[k])
           step == [a \in (1 .. n) \X Nat |-> 10 * a[2] + c(a[1])]
           fold == CHOOSE f : f = [k \in 0 .. n |-> IF k = 0 THEN x
                                                    ELSE 10 * f[k - 1] + c(k)]
<1>1. n \in Nat /\ \A k \in 1 .. n : c(k) \in Nat
  BY DigitType DEF AllDigits
<1> HIDE DEF n, c
<1>2. \A k \in 1 .. n, v \in Nat : step[<<k, v>>] = 10 * v + c(k)
  OBVIOUS
<1> HIDE DEF step
<1>3. ASSUME NEW k \in 1 .. n, NEW v \in Nat
      PROVE  step[<<k, v>>] \in Nat
  BY <1>1, <1>2
<1>4. PICK f \in [0 .. n -> Nat] : Course(f, n, x, step)
  BY <1>1, <1>3, CourseExists
<1>5. f[0] = x /\ \A k \in 1 .. n : f[k] = 10 * f[k - 1] + c(k)
  <2>1. \A k \in 1 .. n : f[k - 1] \in Nat /\ f[k] = step[<<k, f[k - 1]>>]
    BY <1>1, <1>4 DEF Course
  <2> QED
    BY <1>2, <1>4, <2>1 DEF Course
<1>6. f = [k \in 0 .. n |-> IF k = 0 THEN x ELSE 10 * f[k - 1] + c(k)]
  BY <1>1, <1>4, <1>5
<1>7. fold = [k \in 0 .. n |-> IF k = 0 THEN x ELSE 10 * fold[k - 1] + c(k)]
  BY <1>6
<1>8. Fold(x, s) = fold[n]
  BY Zenon DEF Fold, n, c
<1> HIDE DEF fold
<1>9. fold[0] = x /\ \A k \in 1 .. n : fold[k] = 10 * fold[k - 1] + c(k)
  BY <1>1, <1>7
<1>10. \A k \in 0 .. n : fold[k] = f[k]
  <2>1. Folds(fold, x, s) /\ Folds(f, x, s)
    BY <1>5, <1>9 DEF Folds, n, c
  <2> QED
    BY <2>1, FoldsAgree DEF n
<1>11. Fold(x, s) = f[n]
  BY <1>1, <1>8, <1>10
<1> QED
  BY <1>4, <1>5, <1>11 DEF Folds, n, c

(* Whatever follows the recursion tells the number.                        *)
LEMMA FoldIs ==
  ASSUME NEW S, NEW s \in Seq(S), AllDigits(s), NEW x \in Nat,
         NEW g, Folds(g, x, s)
  PROVE  Fold(x, s) = g[Len(s)]
<1>1. PICK f \in [0 .. Len(s) -> Nat] :
        Folds(f, x, s) /\ Fold(x, s) = f[Len(s)]
  BY FoldExists
<1> QED
  BY <1>1, FoldsAgree

LEMMA FoldType ==
  ASSUME NEW S, NEW s \in Seq(S), AllDigits(s), NEW x \in Nat
  PROVE  Fold(x, s) \in Nat
BY FoldExists

LEMMA FoldEmpty ==
  ASSUME NEW x \in Nat
  PROVE  Fold(x, <<>>) = x
<1>1. <<>> \in Seq(Nat) /\ Len(<<>>) = 0 /\ AllDigits(<<>>)
  BY DEF AllDigits
<1>2. PICK f \in [0 .. Len(<<>>) -> Nat] :
        Folds(f, x, <<>>) /\ Fold(x, <<>>) = f[Len(<<>>)]
  BY <1>1, FoldExists
<1> QED
  BY <1>1, <1>2 DEF Folds

(* One more digit behind.                                                  *)
LEMMA FoldAppend ==
  ASSUME NEW S, NEW s \in Seq(S), AllDigits(s), NEW x \in Nat,
         NEW c \in S, IsDigit(c)
  PROVE  /\ AllDigits(Append(s, c))
         /\ Fold(x, Append(s, c)) = 10 * Fold(x, s) + DigitOf(c)
<1> DEFINE t == Append(s, c)
<1>1. /\ t \in Seq(S) /\ Len(t) = Len(s) + 1 /\ t[Len(t)] = c
      /\ \A k \in 1 .. Len(s) : t[k] = s[k]
  OBVIOUS
<1> HIDE DEF t
<1>2. AllDigits(t)
  BY <1>1 DEF AllDigits
<1>3. PICK f \in [0 .. Len(t) -> Nat] : Folds(f, x, t) /\ Fold(x, t) = f[Len(t)]
  BY <1>1, <1>2, FoldExists
<1>4. Folds(f, x, s)
  BY <1>1, <1>3 DEF Folds
<1>5. Fold(x, s) = f[Len(s)]
  BY <1>4, FoldIs
<1>6. Len(t) \in 1 .. Len(t) /\ Len(t) - 1 = Len(s)
  BY <1>1
<1>7. f[Len(t)] = 10 * f[Len(s)] + DigitOf(c)
  BY <1>1, <1>3, <1>6 DEF Folds
<1> QED
  BY <1>2, <1>3, <1>5, <1>7 DEF t

(* One more digit in front.                                                *)
LEMMA FoldCons ==
  ASSUME NEW S, NEW s \in Seq(S), AllDigits(s), NEW x \in Nat,
         NEW c \in S, IsDigit(c)
  PROVE  /\ AllDigits(<<c>> \o s)
         /\ Fold(x, <<c>> \o s) = Fold(10 * x + DigitOf(c), s)
<1> DEFINE t == <<c>> \o s
<1>1. /\ t \in Seq(S) /\ Len(t) = Len(s) + 1 /\ t[1] = c
      /\ \A k \in 1 .. Len(s) : t[k + 1] = s[k]
  OBVIOUS
<1> HIDE DEF t
<1>2. AllDigits(t)
  <2> SUFFICES ASSUME NEW k \in 1 .. Len(t) PROVE IsDigit(t[k])
    BY DEF AllDigits
  <2>1. CASE k = 1
    BY <1>1, <2>1
  <2>2. CASE k # 1
    <3>1. k - 1 \in 1 .. Len(s) /\ (k - 1) + 1 = k
      BY <1>1, <2>2
    <3>2. t[k] = s[k - 1]
      BY <1>1, <3>1
    <3> QED
      BY <3>1, <3>2 DEF AllDigits
  <2> QED
    BY <2>1, <2>2
<1>3. PICK f \in [0 .. Len(t) -> Nat] : Folds(f, x, t) /\ Fold(x, t) = f[Len(t)]
  BY <1>1, <1>2, FoldExists
<1> DEFINE g == [k \in 0 .. Len(s) |-> f[k + 1]]
<1>4. DigitOf(c) \in 0 .. 9 /\ 10 * x + DigitOf(c) \in Nat
  BY DigitType
<1>5. f[1] = 10 * x + DigitOf(c)
  BY <1>1, <1>3 DEF Folds
<1>6. ASSUME NEW k \in 1 .. Len(s)
      PROVE  g[k] = 10 * g[k - 1] + DigitOf(s[k])
  <2>1. k + 1 \in 1 .. Len(t) /\ (k + 1) - 1 = k /\ t[k + 1] = s[k]
    BY <1>1
  <2>2. f[k + 1] = 10 * f[k] + DigitOf(s[k])
    BY <1>3, <2>1 DEF Folds
  <2>3. g[k] = f[k + 1] /\ g[k - 1] = f[k]
    OBVIOUS
  <2> QED
    BY <2>2, <2>3
<1>7. g[0] = 10 * x + DigitOf(c) /\ g[Len(s)] = f[Len(t)]
  BY <1>1, <1>5
<1> HIDE DEF g
<1>8. Folds(g, 10 * x + DigitOf(c), s)
  BY <1>6, <1>7 DEF Folds
<1>9. Fold(10 * x + DigitOf(c), s) = g[Len(s)]
  BY <1>4, <1>8, FoldIs
<1> QED
  BY <1>2, <1>3, <1>7, <1>9 DEF t

-----------------------------------------------------------------------------
(* Numbers that wrap around.                                               *)

LEMMA DivMod ==
  ASSUME NEW m \in Nat \ {0}, NEW x \in Int
  PROVE  x \div m \in Int /\ x % m \in 0 .. m - 1 /\ x = m * (x \div m) + (x % m)
OBVIOUS
LEMMA ModUnique ==
  ASSUME NEW m \in Nat \ {0}, NEW p \in Int, NEW q \in Int,
         NEW r \in 0 .. m - 1, NEW s \in 0 .. m - 1, m * p + r = m * q + s
  PROVE  r = s
<1>1. p < q => m * (q - p) >= m
  OBVIOUS
<1>2. p > q => m * (p - q) >= m
  OBVIOUS
<1>3. m * (q - p) = r - s /\ m * (p - q) = s - r
  OBVIOUS
<1> QED
  BY <1>1, <1>2, <1>3

(* Nothing is lost by cutting off before the next digit is added.          *)
LEMMA ModStep ==
  ASSUME NEW m \in Nat \ {0}, NEW v \in Nat, NEW d \in Nat
  PROVE  (10 * (v % m) + d) % m = (10 * v + d) % m
<1> DEFINE x == 10 * (v % m) + d
           y == 10 * v + d
           p == 10 * (v \div m) + (x \div m)
           q == y \div m
<1>1. v \div m \in Int /\ v % m \in Nat /\ v = m * (v \div m) + (v % m)
  BY DivMod
<1>2. x \in Int /\ y \in Int
  BY <1>1
<1>3. /\ x \div m \in Int /\ x % m \in 0 .. m - 1 /\ x = m * (x \div m) + (x % m)
      /\ y \div m \in Int /\ y % m \in 0 .. m - 1 /\ y = m * (y \div m) + (y % m)
  BY <1>2, DivMod
<1>4. y = m * (10 * (v \div m)) + x
  <2>1. 10 * (m * (v \div m)) = m * (10 * (v \div m))
    BY <1>1
  <2> QED
    BY <1>1, <2>1
<1>5. m * p = m * (10 * (v \div m)) + m * (x \div m)
  BY <1>1, <1>3
<1>6. p \in Int /\ q \in Int /\ m * p + (x % m) = m * q + (y % m)
  BY <1>1, <1>2, <1>3, <1>4, <1>5
<1> HIDE DEF x, y, p, q
<1>7. x % m = y % m
  BY <1>3, <1>6, ModUnique
<1> QED
  BY <1>7 DEF x, y

LEMMA WrappedType ==
  ASSUME NEW v \in Nat
  PROVE  v % MODULUS \in 0 .. MODULUS - 1
<1>1. MODULUS \in Nat \ {0} /\ v \in Int
  BY ShellAssumption
<1> QED
  BY <1>1, DivMod

-----------------------------------------------------------------------------
(* The invariant.                                                          *)

(* What the line l says after its first word and space.                    *)
ArgumentOf(l) == SubSeq(l, 3, Len(l))

BeginsWith(l, word) == Len(l) > 1 /\ l[1] = word /\ l[2] = Space

(* The part of it that a number is looked for in.                          *)
Text(l, f) ==
  LET s == ArgumentOf(l)
      k == FirstSpace(s)
  IN  IF f = "create_partition_mb" /\ k # 0 THEN SubSeq(s, 1, k - 1) ELSE s

TypedNumber(l) == Value(Numeral(ArgumentOf(l))) % MODULUS

TypedFs(l) ==
  LET s == ArgumentOf(l)
      k == FirstSpace(s)
  IN  IF k = 0 THEN "FS_FAT32" ELSE parse_fs_type(SubSeq(s, k + 1, Len(s)))

(* The first k symbols of s have been taken for digits: n is what they     *)
(* come to, r what is left.                                                *)
Taken(s, k, n, r) ==
  /\ AllDigits(SubSeq(s, 1, k))
  /\ n = Value(SubSeq(s, 1, k)) % MODULUS
  /\ r = SubSeq(s, k + 1, Len(s))

Calls(which, f, word, fs) ==
  prompt = which /\ call.f = f /\ BeginsWith(line, word) /\ fs_type = fs

ParseInv ==
  pc = "strtoul" =>
    /\ \E k \in 0 .. Len(Text(line, call.f)) :
         Taken(Text(line, call.f), k, number, rest)
    /\ \/ Calls("kernel", "setcolor", "setcolor", "none")
       \/ Calls("disktool", "select_disk", "selectdisk", "none")
       \/ Calls("disktool", "delete_partition", "delpart", "none")
       \/ Calls("disktool", "create_partition_mb", "newpart", TypedFs(line))

DispatchInv == pc = "dispatch" => call = NoCall /\ digits = <<>>

DoneInv ==
  pc = "prompt" =>
    /\ prompt = "disktool" =>
         /\ line = <<"format">> =>
              call = [f |-> "format_disk", n |-> 0, fs |-> "FS_EXT4"]
         /\ BeginsWith(line, "format") =>
              call = [f |-> "format_disk", n |-> 0,
                      fs |-> parse_fs_type(ArgumentOf(line))]
         /\ BeginsWith(line, "selectdisk") =>
              call = [f |-> "select_disk", n |-> ToInt(TypedNumber(line)),
                      fs |-> "none"]
         /\ BeginsWith(line, "delpart") =>
              call = [f |-> "delete_partition", n |-> ToInt(TypedNumber(line)),
                      fs |-> "none"]
         /\ BeginsWith(line, "newpart") =>
              call = [f |-> "create_partition_mb", n |-> TypedNumber(line),
                      fs |-> TypedFs(line)]
    /\ prompt = "kernel" /\ BeginsWith(line, "setcolor") =>
         color = ToInt(TypedNumber(line))
    /\ call.f \in WithNumber \union {"format_disk"} => prompt = "disktool"
    /\ call.f = "format_disk" => line = <<"format">> \/ BeginsWith(line, "format")
    /\ call.f = "select_disk" => BeginsWith(line, "selectdisk")
    /\ call.f = "delete_partition" => BeginsWith(line, "delpart")
    /\ call.f = "create_partition_mb" => BeginsWith(line, "newpart")

Reversed(s) == [k \in 1 .. Len(s) |-> s[Len(s) + 1 - k]]

(* Of the number m the last digits s have been found, and n is left.       *)
Shows(s, n, m) ==
  /\ AllDigits(s) /\ Fold(n, s) = m
  /\ n = 0 /\ s # <<>> /\ s[1] = "0" => s = <<"0">>

Power[k \in 0 .. DIGITS] == IF k = 0 THEN 1 ELSE 10 * Power[k - 1]

(* The room left is enough for what is left of the number.                 *)
Fitting(s, n) ==
  Len(s) <= DIGITS /\ (n = 0 \/ n < Power[DIGITS - Len(s)])

ShowInv ==
  /\ pc \in {"list", "print_int", "print_dec"} =>
       prompt = "disktool" /\ line \in {<<"listdisks">>, <<"update">>}
       /\ call.f \in {"list_disks", "init_disktool"}
  /\ pc = "list" /\ digits # <<>> => number = 0 /\ Shows(digits, 0, call.n)
  /\ pc = "print_int" => Shows(digits, number, call.n)
  /\ pc = "print_dec" => Shows(Reversed(digits), number, call.n)
  /\ pc \in {"print_int", "print_dec"} => Fitting(digits, number)

IInv == TypeOK /\ ParseInv /\ DispatchInv /\ DoneInv /\ ShowInv

-----------------------------------------------------------------------------
(* Numerals and spaces.                                                    *)

LEMMA LenEmpty == Len(<<>>) = 0
OBVIOUS

LEMMA PrefixIs ==
  ASSUME NEW S, NEW s \in Seq(S), NEW n \in 0 .. Len(s)
  PROVE  /\ SubSeq(s, 1, n) \in Seq(S) /\ Len(SubSeq(s, 1, n)) = n
         /\ \A k \in 1 .. n : SubSeq(s, 1, n)[k] = s[k]
OBVIOUS

LEMMA SuffixIs ==
  ASSUME NEW S, NEW s \in Seq(S), NEW n \in 0 .. Len(s)
  PROVE  /\ SubSeq(s, n + 1, Len(s)) \in Seq(S)
         /\ Len(SubSeq(s, n + 1, Len(s))) = Len(s) - n
         /\ \A k \in 1 .. Len(s) - n : SubSeq(s, n + 1, Len(s))[k] = s[n + k]
OBVIOUS

LEMMA OneSymbol ==
  ASSUME NEW S, NEW s \in Seq(S), NEW k \in 1 .. Len(s)
  PROVE  SubSeq(s, k, k) = <<s[k]>>
<1> DEFINE t == SubSeq(s, k, k)
           u == <<s[k]>>
<1>1. t \in Seq(S) /\ Len(t) = 1 /\ t[1] = s[k]
  OBVIOUS
<1>2. u \in Seq(S) /\ Len(u) = 1 /\ u[1] = s[k]
  OBVIOUS
<1> HIDE DEF t, u
<1>3. \A i \in 1 .. Len(t) : t[i] = u[i]
  BY <1>1, <1>2
<1>4. t = u
  BY <1>1, <1>2, <1>3
<1> QED
  BY <1>4 DEF t, u

LEMMA SymbolIs ==
  ASSUME NEW S, NEW s \in Seq(S), NEW k \in 1 .. Len(s)
  PROVE  IsNumber(SubSeq(s, k, k)) <=> IsDigit(s[k])
<1> DEFINE t == SubSeq(s, k, k)
<1>1. t \in Seq(S) /\ Len(t) = 1 /\ t[1] = s[k]
  OBVIOUS
<1> HIDE DEF t
<1>2. IsNumber(t) <=> t # <<>> /\ AllDigits(t)
  BY <1>1, NumberIsDigits
<1>3. t # <<>>
  <2>1. Len(t) # 0
    BY <1>1
  <2> QED
    BY <2>1, LenEmpty, Zenon
<1>4. AllDigits(t) <=> IsDigit(t[1])
  <2>1. Len(t) \in Nat /\ \A j \in Nat : j \in 1 .. Len(t) <=> j = 1
    BY <1>1
  <2> QED
    BY <1>1, <2>1 DEF AllDigits
<1> QED
  BY <1>1, <1>2, <1>3, <1>4 DEF t

(* The numeral is what has been taken when the next symbol is no digit.    *)
LEMMA NumeralIs ==
  ASSUME NEW S, NEW s \in Seq(S), NEW n \in 0 .. Len(s),
         AllDigits(SubSeq(s, 1, n)), n = Len(s) \/ ~IsDigit(s[n + 1])
  PROVE  Numeral(s) = SubSeq(s, 1, n)
<1> DEFINE P(m) == /\ m = 0 \/ IsNumber(SubSeq(s, 1, m))
                   /\ m = Len(s) \/ ~IsNumber(SubSeq(s, m + 1, m + 1))
<1>1. P(n)
  <2>1. n = 0 \/ SubSeq(s, 1, n) # <<>>
    BY PrefixIs
  <2>2. n = 0 \/ IsNumber(SubSeq(s, 1, n))
    BY <2>1, PrefixIs, NumberIsDigits
  <2>3. n = Len(s) \/ ~IsNumber(SubSeq(s, n + 1, n + 1))
    <3>1. n = Len(s) \/ n + 1 \in 1 .. Len(s)
      OBVIOUS
    <3> QED
      BY <3>1, SymbolIs
  <2> QED
    BY <2>2, <2>3
<1>2. ASSUME NEW m \in 0 .. Len(s), P(m)
      PROVE  m = n
  <2>1. \A k \in 1 .. n : IsDigit(s[k])
    BY PrefixIs DEF AllDigits
  <2>2. \A k \in 1 .. m : IsDigit(s[k])
    <3>1. m = 0 \/ AllDigits(SubSeq(s, 1, m))
      BY <1>2, PrefixIs, NumberIsDigits
    <3> QED
      BY <3>1, PrefixIs DEF AllDigits
  <2>3. m = Len(s) \/ ~IsDigit(s[m + 1])
    <3>1. m = Len(s) \/ m + 1 \in 1 .. Len(s)
      OBVIOUS
    <3> QED
      BY <1>2, <3>1, SymbolIs
  <2>4. ~(m < n)
    BY <2>1, <2>3
  <2>5. ~(n < m)
    BY <2>2
  <2> QED
    BY <2>4, <2>5
<1> DEFINE chosen == CHOOSE m \in 0 .. Len(s) : P(m)
<1>3. chosen \in 0 .. Len(s) /\ P(chosen)
  BY <1>1
<1>4. chosen = n
  BY <1>2, <1>3
<1>5. Numeral(s) = SubSeq(s, 1, chosen)
  BY Zenon DEF Numeral
<1> QED
  BY <1>4, <1>5

(* A space that has none before it is the first.                           *)
LEMMA FirstSpaceIs ==
  ASSUME NEW S, NEW s \in Seq(S), NEW k \in 1 .. Len(s), s[k] = Space,
         \A l \in 1 .. k - 1 : s[l] # Space
  PROVE  FirstSpace(s) = k
<1> DEFINE P(m) == s[m] = Space /\ \A l \in 1 .. m - 1 : s[l] # Space
<1>1. k \in DOMAIN s /\ P(k)
  OBVIOUS
<1>2. ASSUME NEW m \in DOMAIN s, P(m)
      PROVE  m = k
  <2>1. m \in 1 .. Len(s)
    OBVIOUS
  <2>2. ~(m < k) /\ ~(k < m)
    BY <1>2, <2>1
  <2> QED
    BY <2>1, <2>2
<1> DEFINE chosen == CHOOSE m \in DOMAIN s : P(m)
<1>3. chosen \in DOMAIN s /\ P(chosen)
  BY <1>1
<1>4. chosen = k
  BY <1>2, <1>3
<1>5. FirstSpace(s) = chosen
  BY <1>1, Zenon DEF FirstSpace
<1> QED
  BY <1>4, <1>5

LEMMA FirstSpaceType ==
  ASSUME NEW S, NEW s \in Seq(S)
  PROVE  \/ FirstSpace(s) = 0 /\ \A k \in 1 .. Len(s) : s[k] # Space
         \/ FirstSpace(s) \in 1 .. Len(s) /\ s[FirstSpace(s)] = Space
<1> DEFINE T == {k \in 1 .. Len(s) : s[k] = Space}
<1>1. CASE T = {}
  <2>1. \A k \in DOMAIN s : s[k] # Space
    BY <1>1
  <2>2. FirstSpace(s) = 0
    BY <2>1, Zenon DEF FirstSpace
  <2> QED
    BY <2>1, <2>2
<1>2. CASE T # {}
  <2>1. T \subseteq Nat
    OBVIOUS
  <2>2. PICK k \in T : \A l \in T : k <= l
    BY <1>2, <2>1, LeastExists
  <2>3. k \in 1 .. Len(s) /\ s[k] = Space /\ \A l \in 1 .. k - 1 : s[l] # Space
    BY <2>2
  <2>4. FirstSpace(s) = k
    BY <2>3, FirstSpaceIs
  <2> QED
    BY <2>3, <2>4
<1> QED
  BY <1>1, <1>2

(* What is cut off behind the number does not change it.                   *)
LEMMA TextIs ==
  ASSUME NEW S, NEW l \in Seq(S), NEW f
  PROVE  /\ ArgumentOf(l) \in Seq(S) /\ Text(l, f) \in Seq(S)
         /\ Len(Text(l, f)) <= Len(ArgumentOf(l))
         /\ \A k \in 1 .. Len(Text(l, f)) : Text(l, f)[k] = ArgumentOf(l)[k]
         /\ Len(Text(l, f)) < Len(ArgumentOf(l)) =>
              ArgumentOf(l)[Len(Text(l, f)) + 1] = Space
<1> DEFINE s == ArgumentOf(l)
           k == FirstSpace(s)
<1>1. s \in Seq(S)
  BY DEF ArgumentOf
<1> HIDE DEF s
<1>2. k = 0 \/ (k \in 1 .. Len(s) /\ s[k] = Space)
  BY <1>1, FirstSpaceType
<1>3. Text(l, f) = IF f = "create_partition_mb" /\ k # 0 THEN SubSeq(s, 1, k - 1) ELSE s
  BY DEF Text, s
<1> HIDE DEF k
<1>4. CASE f = "create_partition_mb" /\ k # 0
  <2>1. Text(l, f) = SubSeq(s, 1, k - 1) /\ k - 1 \in 0 .. Len(s)
    BY <1>2, <1>3, <1>4
  <2>2. /\ Text(l, f) \in Seq(S) /\ Len(Text(l, f)) = k - 1
        /\ \A j \in 1 .. k - 1 : Text(l, f)[j] = s[j]
    BY <1>1, <2>1, PrefixIs
  <2> QED
    BY <1>1, <1>2, <1>4, <2>2 DEF s
<1>5. CASE ~(f = "create_partition_mb" /\ k # 0)
  BY <1>1, <1>3, <1>5 DEF s
<1> QED
  BY <1>4, <1>5

-----------------------------------------------------------------------------
(* strtoul.                                                                *)

LEMMA TakenFirst ==
  ASSUME NEW S, NEW s \in Seq(S)
  PROVE  0 \in 0 .. Len(s) /\ Taken(s, 0, 0, s)
<1>1. SubSeq(s, 1, 0) = <<>> /\ SubSeq(s, 0 + 1, Len(s)) = s /\ 0 \in 0 .. Len(s)
  OBVIOUS
<1>2. AllDigits(<<>>)
  BY DEF AllDigits
<1>3. Value(<<>>) = 0
  BY ValueIsFold, FoldEmpty
<1>4. 0 = 0 % MODULUS
  BY ShellAssumption
<1> QED
  BY <1>1, <1>2, <1>3, <1>4 DEF Taken

LEMMA TakenNext ==
  ASSUME NEW S, NEW s \in Seq(S), NEW k \in 0 .. Len(s), NEW n, NEW r,
         Taken(s, k, n, r), r # <<>>, NEW d \in 0 .. 9, Stands(Head(r), d)
  PROVE  k + 1 \in 0 .. Len(s) /\ Taken(s, k + 1, (n * 10 + d) % MODULUS, Tail(r))
<1>1. /\ AllDigits(SubSeq(s, 1, k)) /\ n = Value(SubSeq(s, 1, k)) % MODULUS
      /\ r = SubSeq(s, k + 1, Len(s))
  BY DEF Taken
<1>2. k + 1 \in 1 .. Len(s) /\ k < Len(s)
  <2>1. k # Len(s)
    BY <1>1
  <2> QED
    BY <2>1
<1>3. Head(r) = s[k + 1] /\ Tail(r) = SubSeq(s, k + 2, Len(s))
  BY <1>1, <1>2
<1>4. SubSeq(s, 1, k + 1) = Append(SubSeq(s, 1, k), s[k + 1]) /\ s[k + 1] \in S
  BY <1>2
<1>5. IsDigit(s[k + 1]) /\ DigitOf(s[k + 1]) = d
  BY <1>3, DigitIsOne
<1>6. SubSeq(s, 1, k) \in Seq(S)
  BY PrefixIs
<1> DEFINE v == Fold(0, SubSeq(s, 1, k))
<1>7. v \in Nat
  BY <1>1, <1>6, FoldType
<1>8. /\ AllDigits(SubSeq(s, 1, k + 1))
      /\ Value(SubSeq(s, 1, k + 1)) = 10 * v + d
  BY <1>1, <1>4, <1>5, <1>6, FoldAppend, ValueIsFold
<1>9. (n * 10 + d) % MODULUS = (10 * v + d) % MODULUS
  <2>1. n = v % MODULUS
    BY <1>1, ValueIsFold
  <2> HIDE DEF v
  <2>2. (10 * (v % MODULUS) + d) % MODULUS = (10 * v + d) % MODULUS
    <3>1. MODULUS \in Nat \ {0} /\ d \in Nat
      BY ShellAssumption
    <3> QED
      BY <1>7, <3>1, ModStep
  <2>3. v % MODULUS \in Nat
    BY <1>7, DivMod, ShellAssumption
  <2>4. n * 10 = 10 * (v % MODULUS)
    BY <2>1, <2>3
  <2> QED
    BY <2>2, <2>4
<1>10. (k + 1) + 1 = k + 2 /\ k + 1 \in 0 .. Len(s)
  BY <1>2
<1> QED
  BY <1>3, <1>8, <1>9, <1>10 DEF Taken

LEMMA TakenLast ==
  ASSUME NEW S, NEW l \in Seq(S), NEW f, NEW k \in 0 .. Len(Text(l, f)),
         NEW n, NEW r, Taken(Text(l, f), k, n, r),
         r = <<>> \/ ~IsDigit(Head(r))
  PROVE  n = TypedNumber(l)
<1> DEFINE s == ArgumentOf(l)
           t == Text(l, f)
<1>1. /\ s \in Seq(S) /\ t \in Seq(S) /\ Len(t) <= Len(s)
      /\ \A j \in 1 .. Len(t) : t[j] = s[j]
      /\ Len(t) < Len(s) => s[Len(t) + 1] = Space
  BY TextIs
<1>2. /\ AllDigits(SubSeq(t, 1, k)) /\ n = Value(SubSeq(t, 1, k)) % MODULUS
      /\ r = SubSeq(t, k + 1, Len(t)) /\ k \in 0 .. Len(t)
  BY DEF Taken
<1> HIDE DEF s, t
<1>3. SubSeq(s, 1, k) = SubSeq(t, 1, k) /\ k \in 0 .. Len(s)
  BY <1>1, <1>2
<1>4. k = Len(s) \/ ~IsDigit(s[k + 1])
  <2>1. CASE k < Len(t)
    <3>1. k + 1 \in 1 .. Len(t) /\ t[k + 1] = s[k + 1]
      BY <1>1, <1>2, <2>1
    <3>2. Len(r) = Len(t) - k /\ r[1] = t[k + 1]
      BY <1>1, <1>2, <3>1, SuffixIs
    <3>3. r # <<>>
      <4>1. Len(r) # 0
        BY <1>1, <1>2, <2>1, <3>2
      <4> QED
        BY <4>1, LenEmpty, Zenon
    <3> QED
      BY <3>1, <3>2, <3>3
  <2>2. CASE k = Len(t)
    BY <1>1, <2>2, SpaceIsNoDigit
  <2> QED
    BY <1>1, <1>2, <2>1, <2>2
<1>5. Numeral(s) = SubSeq(t, 1, k)
  BY <1>1, <1>2, <1>3, <1>4, NumeralIs
<1> QED
  BY <1>2, <1>5 DEF TypedNumber, s

LEMMA TypedNumberType ==
  ASSUME NEW S, NEW l \in Seq(S), NEW f, NEW k \in 0 .. Len(Text(l, f)),
         NEW n, NEW r, Taken(Text(l, f), k, n, r)
  PROVE  n \in 0 .. MODULUS - 1
<1>1. SubSeq(Text(l, f), 1, k) \in Seq(S) /\ AllDigits(SubSeq(Text(l, f), 1, k))
  BY TextIs, PrefixIs DEF Taken
<1>2. Value(SubSeq(Text(l, f), 1, k)) \in Nat
  BY <1>1, ValueIsFold, FoldType
<1>3. Value(SubSeq(Text(l, f), 1, k)) % MODULUS \in 0 .. MODULUS - 1
  BY <1>2, WrappedType
<1> QED
  BY <1>3 DEF Taken

-----------------------------------------------------------------------------
(* print_int and print_dec.                                                *)

LEMMA PowerOfTen ==
  /\ Power \in [0 .. DIGITS -> Nat] /\ Power[0] = 1 /\ MODULUS <= Power[DIGITS]
  /\ \A k \in 1 .. DIGITS : Power[k] = 10 * Power[k - 1]
<1> DEFINE n == DIGITS
           step == [a \in (1 .. n) \X Nat |-> 10 * a[2]]
<1>1. n \in Nat
  BY ShellAssumption
<1>2. \A k \in 1 .. n, v \in Nat : step[<<k, v>>] = 10 * v
  OBVIOUS
<1> HIDE DEF n, step
<1>3. ASSUME NEW k \in 1 .. n, NEW v \in Nat
      PROVE  step[<<k, v>>] \in Nat
  BY <1>2
<1>4. PICK f \in [0 .. n -> Nat] : Course(f, n, 1, step)
  BY <1>1, <1>3, CourseExists
<1>5. f[0] = 1 /\ \A k \in 1 .. n : f[k] = 10 * f[k - 1]
  <2>1. \A k \in 1 .. n : f[k - 1] \in Nat /\ f[k] = step[<<k, f[k - 1]>>]
    BY <1>1, <1>4 DEF Course
  <2> QED
    BY <1>2, <1>4, <2>1 DEF Course
<1>6. f = [k \in 0 .. n |-> IF k = 0 THEN 1 ELSE 10 * f[k - 1]]
  BY <1>1, <1>4, <1>5
<1>7. Power = [k \in 0 .. n |-> IF k = 0 THEN 1 ELSE 10 * Power[k - 1]]
  BY <1>6 DEF Power, n
<1>8. MODULUS <= Power[n]
  BY ShellAssumption, Zenon DEF Power, BASE, n
<1>9. Power[0] = 1 /\ \A k \in 1 .. n : Power[k] = 10 * Power[k - 1]
  BY <1>1, <1>7
<1> DEFINE T == {k \in Nat : k <= n => Power[k] \in Nat}
<1>10. 0 \in T
  BY <1>9
<1>11. ASSUME NEW k \in Nat, k \in T
       PROVE  k + 1 \in T
  <2> SUFFICES ASSUME k + 1 <= n PROVE Power[k + 1] \in Nat
    OBVIOUS
  <2>1. k + 1 \in 1 .. n /\ (k + 1) - 1 = k /\ Power[k] \in Nat
    BY <1>1, <1>11
  <2> QED
    BY <1>9, <2>1
<1> HIDE DEF T
<1>12. \A k \in Nat : k \in T
  BY <1>10, <1>11, NatSetInduction
<1>13. Power \in [0 .. n -> Nat]
  <2>1. \A k \in 0 .. n : Power[k] \in Nat
    BY <1>1, <1>12 DEF T
  <2> QED
    BY <1>7, <2>1
<1> QED
  BY <1>8, <1>9, <1>13 DEF n

LEMMA ShowsFirst ==
  ASSUME NEW n \in Nat, NEW s, s = IF n = 0 THEN <<"0">> ELSE <<>>
  PROVE  Shows(s, n, n)
<1>1. CASE n = 0
  <2>1. IsDigit("0") /\ DigitOf("0") = 0
    <3>1. Stands("0", 0)
      BY SMT DEF Stands, Symbols
    <3> QED
      BY <3>1, DigitIsOne
  <2>2. /\ <<>> \in Seq({"0"}) /\ "0" \in {"0"}
        /\ Append(<<>>, "0") = <<"0">> /\ AllDigits(<<>>)
    BY DEF AllDigits
  <2>3. AllDigits(<<"0">>) /\ Fold(0, <<"0">>) = 10 * Fold(0, <<>>) + DigitOf("0")
    <3> DEFINE e == <<>>
               c == "0"
               T == {"0"}
    <3>1. e \in Seq(T) /\ c \in T /\ AllDigits(e) /\ IsDigit(c) /\ 0 \in Nat
      BY <2>1, <2>2
    <3> HIDE DEF e, c, T
    <3>2. AllDigits(Append(e, c)) /\ Fold(0, Append(e, c)) = 10 * Fold(0, e) + DigitOf(c)
      BY <3>1, FoldAppend
    <3> QED
      BY <2>2, <3>2, Zenon DEF e, c
  <2>4. Fold(0, <<>>) = 0
    BY FoldEmpty
  <2> QED
    BY <1>1, <2>1, <2>3, <2>4 DEF Shows
<1>2. CASE n # 0
  <2>1. s = <<>> /\ AllDigits(<<>>) /\ Fold(n, <<>>) = n
    BY <1>2, FoldEmpty DEF AllDigits
  <2> QED
    BY <1>2, <2>1 DEF Shows
<1> QED
  BY <1>1, <1>2

LEMMA ShowsNext ==
  ASSUME NEW S, NEW s \in Seq(S), NEW n \in Nat, n > 0, NEW m, Shows(s, n, m),
         NEW c \in S, c = Symbols[(n % 10) + 1]
  PROVE  Shows(<<c>> \o s, n \div 10, m)
<1>1. n % 10 \in 0 .. 9 /\ n \div 10 \in Nat /\ n = 10 * (n \div 10) + (n % 10)
  OBVIOUS
<1>2. Stands(c, n % 10)
  BY <1>1, DigitsStand
<1>3. IsDigit(c) /\ DigitOf(c) = n % 10
  BY <1>1, <1>2, DigitIsOne
<1>4. AllDigits(s) /\ Fold(n, s) = m
  BY DEF Shows
<1>5. /\ AllDigits(<<c>> \o s)
      /\ Fold(n \div 10, <<c>> \o s) = Fold(10 * (n \div 10) + (n % 10), s)
  BY <1>1, <1>3, <1>4, FoldCons
<1>6. n \div 10 = 0 => (<<c>> \o s)[1] # "0"
  <2> SUFFICES ASSUME n \div 10 = 0, (<<c>> \o s)[1] = "0" PROVE FALSE
    OBVIOUS
  <2>1. c = "0"
    OBVIOUS
  <2>2. Stands("0", 0)
    BY SMT DEF Stands, Symbols
  <2>3. n % 10 = 0
    BY <1>3, <2>1, <2>2, DigitIsOne
  <2> QED
    BY <1>1, <2>3
<1> QED
  BY <1>1, <1>4, <1>5, <1>6 DEF Shows

(* The next digit has room, and those behind it.                           *)
LEMMA FittingNext ==
  ASSUME NEW S, NEW s \in Seq(S), NEW n \in Nat, n > 0, Fitting(s, n),
         NEW t \in Seq(S), Len(t) = Len(s) + 1
  PROVE  Fitting(t, n \div 10)
<1> DEFINE k == DIGITS - Len(s)
<1>1. /\ k \in 0 .. DIGITS /\ DIGITS - Len(t) = k - 1 /\ n < Power[k]
      /\ Len(t) = DIGITS - k + 1 /\ DIGITS \in Nat
  BY ShellAssumption DEF Fitting
<1> HIDE DEF k
<1>2. k # 0
  BY <1>1, PowerOfTen
<1>3. k - 1 \in 0 .. DIGITS /\ k \in 1 .. DIGITS
  BY <1>1, <1>2
<1>4. Power[k] = 10 * Power[k - 1] /\ Power[k - 1] \in Nat
  BY <1>3, PowerOfTen
<1>5. n \div 10 < Power[k - 1]
  BY <1>1, <1>4
<1> QED
  BY <1>1, <1>3, <1>5 DEF Fitting

LEMMA ReversedIs ==
  ASSUME NEW S, NEW s \in Seq(S)
  PROVE  Reversed(s) \in Seq(S) /\ Len(Reversed(s)) = Len(s)
BY DEF Reversed

LEMMA ReversedAppend ==
  ASSUME NEW S, NEW s \in Seq(S), NEW c \in S
  PROVE  Reversed(Append(s, c)) = <<c>> \o Reversed(s)
<1> DEFINE t == Append(s, c)
           u == <<c>> \o Reversed(s)
<1>1. t \in Seq(S) /\ Len(t) = Len(s) + 1 /\ t[Len(s) + 1] = c
      /\ \A k \in 1 .. Len(s) : t[k] = s[k]
  OBVIOUS
<1>2. /\ Reversed(s) \in Seq(S) /\ Len(Reversed(s)) = Len(s)
      /\ \A k \in 1 .. Len(s) : Reversed(s)[k] = s[Len(s) + 1 - k]
  BY ReversedIs DEF Reversed
<1>3. u \in Seq(S) /\ Len(u) = Len(s) + 1 /\ u[1] = c
      /\ \A k \in 2 .. Len(s) + 1 : u[k] = Reversed(s)[k - 1]
  BY <1>2
<1>4. /\ Reversed(t) \in Seq(S) /\ Len(Reversed(t)) = Len(s) + 1
      /\ \A k \in 1 .. Len(s) + 1 : Reversed(t)[k] = t[Len(s) + 2 - k]
  BY <1>1, ReversedIs DEF Reversed
<1> HIDE DEF t, u
<1>5. ASSUME NEW k \in 1 .. Len(s) + 1
      PROVE  Reversed(t)[k] = u[k]
  <2>1. CASE k = 1
    BY <1>1, <1>3, <1>4, <2>1
  <2>2. CASE k # 1
    <3>1. k - 1 \in 1 .. Len(s) /\ Len(s) + 2 - k \in 1 .. Len(s)
          /\ Len(s) + 1 - (k - 1) = Len(s) + 2 - k
      BY <2>2
    <3>2. u[k] = s[Len(s) + 2 - k]
      BY <1>2, <1>3, <2>2, <3>1
    <3> QED
      BY <1>1, <1>4, <3>1, <3>2
  <2> QED
    BY <2>1, <2>2
<1>6. Reversed(t) = u
  BY <1>3, <1>4, <1>5
<1> QED
  BY <1>6 DEF t, u

-----------------------------------------------------------------------------
(* The types.                                                              *)

LEMMA ConstantsAre ==
  /\ MODULUS \in Nat \ {0} /\ DIGITS \in Nat \ {0} /\ 14 < MODULUS \div 2
  /\ Lines \subseteq Seq(STRING) /\ Numbers \subseteq 0 .. MODULUS - 1
BY ShellAssumption

LEMMA IntsAre ==
  ASSUME NEW n \in 0 .. MODULUS - 1
  PROVE  n \in Ints /\ ToInt(n) \in Ints
BY ConstantsAre DEF Ints, ToInt

LEMMA ZeroIsInt == 0 \in 0 .. MODULUS - 1 /\ 0 \in Ints
BY ConstantsAre DEF Ints

CallTypes == [f : Callees, n : Ints, fs : {"none", "FS_EXT4", "FS_FAT32"}]

LEMMA CallIs ==
  ASSUME NEW f \in Callees, NEW n \in Ints, NEW fs \in {"none", "FS_EXT4", "FS_FAT32"}
  PROVE  [f |-> f, n |-> n, fs |-> fs] \in CallTypes
BY DEF CallTypes

LEMMA PlainIs ==
  ASSUME NEW f
  PROVE  /\ Plain(f) = [f |-> f, n |-> 0, fs |-> "none"]
         /\ f \in Callees => Plain(f) \in CallTypes
<1>1. Plain(f) = [f |-> f, n |-> 0, fs |-> "none"]
  BY DEF Plain, NoCall
<1> QED
  BY <1>1, CallIs, ZeroIsInt

LEMMA NoCallIs == NoCall \in CallTypes /\ NoCall.f = "none" /\ NoCall.n = 0
<1>1. "none" \in Callees
  BY DEF Callees
<1> QED
  BY <1>1, CallIs, ZeroIsInt DEF NoCall

LEMMA FsTypeIs ==
  ASSUME NEW s
  PROVE  parse_fs_type(s) \in {"FS_EXT4", "FS_FAT32"}
BY DEF parse_fs_type

LEMMA TypedFsIs ==
  ASSUME NEW l
  PROVE  TypedFs(l) \in {"FS_EXT4", "FS_FAT32"}
BY FsTypeIs DEF TypedFs

-----------------------------------------------------------------------------
(* Lines.                                                                  *)

LEMMA OneWord ==
  ASSUME NEW w, NEW v
  PROVE  ~BeginsWith(<<w>>, v) /\ ~BeginsWith(<<>>, v)
BY DEF BeginsWith

LEMMA BeginsOnce ==
  ASSUME NEW l, NEW v, NEW w, BeginsWith(l, v), BeginsWith(l, w)
  PROVE  v = w
BY DEF BeginsWith

LEMMA LineIs ==
  /\ Argument = ArgumentOf(line)
  /\ \A w : Begins(w) <=> BeginsWith(line, w)
BY DEF Argument, ArgumentOf, Begins, BeginsWith

(* The line asks for nothing that changes a disk or a color.               *)
Harmless(which) ==
  /\ which = "kernel" => ~BeginsWith(line, "setcolor")
  /\ which = "disktool" =>
       /\ line # <<"format">>
       /\ \A w \in {"format", "selectdisk", "delpart", "newpart"} :
            ~BeginsWith(line, w)

LEMMA HarmlessWord ==
  ASSUME NEW w, line = <<w>>, w # "format", NEW which
  PROVE  Harmless(which)
BY OneWord DEF Harmless

LEMMA DoneHarmless ==
  ASSUME pc' = "prompt", line' = line, Harmless(prompt'),
         call'.f \notin WithNumber \union {"format_disk"}
  PROVE  DoneInv'
BY DEF DoneInv, Harmless, WithNumber

(* What an invariant about another pc than the next one says.              *)
LEMMA ElsewhereTrue ==
  /\ pc' # "strtoul" => ParseInv'
  /\ pc' # "dispatch" => DispatchInv'
  /\ pc' # "prompt" => DoneInv'
  /\ pc' \notin {"list", "print_int", "print_dec"} => ShowInv'
BY DEF ParseInv, DispatchInv, DoneInv, ShowInv

(* A command that is a call, and no more.                                  *)
LEMMA MakeIInv ==
  ASSUME IInv, NEW c \in CallTypes, c.f \notin WithNumber \union {"format_disk"},
         Make(c), Harmless(prompt)
  PROVE  IInv'
<1>1. /\ pc' = "prompt" /\ line' = line /\ prompt' = prompt /\ call' = c
      /\ UNCHANGED <<color, tool_color, rest, number, fs_type, digits>>
  BY DEF Make, parsing
<1>2. TypeOK'
  BY <1>1 DEF IInv, TypeOK, CallTypes
<1>3. DoneInv'
  BY <1>1, DoneHarmless
<1> QED
  BY <1>1, <1>2, <1>3, ElsewhereTrue DEF IInv

LEMMA InitIInv == Init => IInv
<1> SUFFICES ASSUME Init PROVE IInv
  OBVIOUS
<1>1. /\ prompt = "kernel" /\ line = <<>> /\ rest = <<>> /\ number = 0
      /\ fs_type = "none" /\ digits = <<>> /\ color = 0 /\ tool_color = 0
      /\ call = NoCall /\ pc = "prompt"
  BY DEF Init
<1>2. TypeOK
  BY <1>1, NoCallIs, ZeroIsInt DEF TypeOK, CallTypes
<1>3. DoneInv
  <2>1. ~BeginsWith(line, "setcolor")
    BY <1>1, OneWord
  <2> QED
    BY <1>1, <2>1, NoCallIs DEF DoneInv, WithNumber
<1> QED
  BY <1>1, <1>2, <1>3 DEF IInv, ParseInv, DispatchInv, ShowInv

LEMMA ReadLineIInv ==
  ASSUME IInv, NEW typed \in Lines, ReadLine(typed)
  PROVE  IInv'
<1>1. /\ line' = typed /\ call' = NoCall /\ rest' = <<>> /\ number' = 0
      /\ fs_type' = "none" /\ digits' = <<>>
      /\ pc' = IF typed = <<>> THEN "prompt" ELSE "dispatch"
      /\ UNCHANGED <<prompt, color, tool_color>>
  BY DEF ReadLine
<1>2. TypeOK'
  <2>1. typed \in Seq(STRING)
    BY ConstantsAre
  <2> QED
    BY <1>1, <2>1, NoCallIs, ZeroIsInt DEF IInv, TypeOK, CallTypes
<1>3. DispatchInv'
  BY <1>1 DEF DispatchInv
<1>4. DoneInv'
  <2> SUFFICES ASSUME pc' = "prompt" PROVE DoneInv'
    BY ElsewhereTrue
  <2>1. line' = <<>> /\ \A w : ~BeginsWith(line', w)
    BY <1>1, OneWord
  <2> QED
    BY <1>1, <2>1, NoCallIs DEF DoneInv, WithNumber
<1> QED
  BY <1>1, <1>2, <1>3, <1>4, ElsewhereTrue DEF IInv

LEMMA KernelWordIInv ==
  ASSUME IInv, NEW w \in KernelWords, At("kernel"), Is(w), Make(Plain(w))
  PROVE  IInv'
<1>1. w \in Callees /\ w # "format" /\ w \notin WithNumber \union {"format_disk"}
  BY DEF Callees, KernelWords, WithNumber
<1>2. Plain(w) \in CallTypes /\ Plain(w).f = w
  BY <1>1, PlainIs
<1>3. Harmless(prompt)
  BY <1>1, HarmlessWord DEF Is
<1> QED
  BY <1>1, <1>2, <1>3, MakeIInv

LEMMA ToolWordIInv ==
  ASSUME IInv, NEW w \in ToolWords, At("disktool"), Is(w), Make(Plain(w))
  PROVE  IInv'
<1>1. w \in Callees /\ w # "format" /\ w \notin WithNumber \union {"format_disk"}
  BY DEF Callees, ToolWords, WithNumber
<1>2. Plain(w) \in CallTypes /\ Plain(w).f = w
  BY <1>1, PlainIs
<1>3. Harmless(prompt)
  BY <1>1, HarmlessWord DEF Is
<1> QED
  BY <1>1, <1>2, <1>3, MakeIInv

LEMMA EchoIInv ==
  ASSUME IInv, Echo
  PROVE  IInv'
<1>1. prompt = "kernel" /\ BeginsWith(line, "echo") /\ Make(Plain("echo"))
  BY LineIs DEF Echo, At
<1>2. "echo" \in Callees /\ "echo" \notin WithNumber \union {"format_disk"}
  BY DEF Callees, WithNumber
<1>3. Plain("echo") \in CallTypes /\ Plain("echo").f = "echo"
  BY <1>2, PlainIs
<1>4. Harmless(prompt)
  BY <1>1, BeginsOnce DEF Harmless
<1> QED
  BY <1>1, <1>2, <1>3, <1>4, MakeIInv

LEMMA UnknownIInv ==
  ASSUME IInv, KernelUnknown \/ ToolUnknown
  PROVE  IInv'
<1>1. Make(NoCall)
  BY DEF KernelUnknown, ToolUnknown
<1>2. Harmless(prompt)
  <2>1. CASE KernelUnknown
    BY <2>1, LineIs DEF KernelUnknown, At, Harmless
  <2>2. CASE ToolUnknown
    BY <2>2, LineIs DEF ToolUnknown, ToolWords, At, Is, Harmless
  <2> QED
    BY <2>1, <2>2
<1>3. NoCall.f \notin WithNumber \union {"format_disk"}
  BY NoCallIs DEF WithNumber
<1> QED
  BY <1>1, <1>2, <1>3, NoCallIs, MakeIInv

(* The tool is entered and left.                                           *)
LEMMA PromptsIInv ==
  ASSUME IInv, StartDiskTool \/ Exit
  PROVE  IInv'
<1>1. PICK w \in {"disktool", "exit"}, f \in {"start_disktool", "exit"} :
        line = <<w>> /\ call' = Plain(f)
  BY DEF StartDiskTool, Exit, Is
<1>2. /\ prompt' \in {"kernel", "disktool"} /\ pc' = "prompt" /\ line' = line
      /\ color' = color /\ tool_color' \in {0, color}
      /\ UNCHANGED <<rest, number, fs_type, digits>>
  BY DEF StartDiskTool, Exit, parsing
<1>3. f \in Callees /\ f \notin WithNumber \union {"format_disk"}
  BY DEF Callees, WithNumber
<1>4. call' \in CallTypes /\ call'.f = f
  BY <1>1, <1>3, PlainIs
<1>5. TypeOK'
  BY <1>2, <1>4, ZeroIsInt DEF IInv, TypeOK, CallTypes
<1>6. w # "format"
  OBVIOUS
<1>7. Harmless(prompt')
  BY <1>1, <1>6, HarmlessWord
<1>8. DoneInv'
  BY <1>2, <1>3, <1>4, <1>7, DoneHarmless
<1> QED
  BY <1>2, <1>5, <1>8, ElsewhereTrue DEF IInv

LEMMA FormatIInv ==
  ASSUME IInv, Format
  PROVE  IInv'
<1>1. prompt = "disktool" /\ pc' = "prompt"
      /\ UNCHANGED <<prompt, line, color, tool_color, rest, number, fs_type, digits>>
  BY DEF Format, At, Make, parsing
<1>2. \/ /\ line = <<"format">>
         /\ call' = [f |-> "format_disk", n |-> 0, fs |-> "FS_EXT4"]
      \/ /\ BeginsWith(line, "format")
         /\ call' = [f |-> "format_disk", n |-> 0,
                     fs |-> parse_fs_type(ArgumentOf(line))]
  BY LineIs DEF Format, Make, Is
<1>3. PICK fs \in {"FS_EXT4", "FS_FAT32"} :
        call' = [f |-> "format_disk", n |-> 0, fs |-> fs]
  BY <1>2, FsTypeIs
<1>4. call' \in CallTypes /\ call'.f = "format_disk"
  BY <1>3, CallIs, ZeroIsInt DEF Callees
<1>5. TypeOK'
  BY <1>1, <1>4 DEF IInv, TypeOK, CallTypes
<1>6. \A w : BeginsWith(line, w) => w = "format" /\ line # <<"format">>
  BY <1>2, OneWord, BeginsOnce
<1>7. line = <<"format">> => ~BeginsWith(line, "format")
  BY OneWord
<1>8. DoneInv'
  BY <1>1, <1>2, <1>4, <1>6, <1>7 DEF DoneInv, WithNumber
<1> QED
  BY <1>1, <1>5, <1>8, ElsewhereTrue DEF IInv

-----------------------------------------------------------------------------
(* Numbers typed.                                                          *)

LEMMA LineType ==
  ASSUME IInv
  PROVE  /\ line \in Seq(STRING) /\ ArgumentOf(line) \in Seq(STRING)
         /\ \A f : Text(line, f) \in Seq(STRING)
BY TextIs DEF IInv, TypeOK

(* strtoul starts with the text of the line that is to be the number.      *)
LEMMA ParseIInv ==
  ASSUME IInv, NEW which, NEW f, NEW word, NEW fs, Parse(f, Text(line, f), fs),
         prompt = which, BeginsWith(line, word),
         \/ which = "kernel" /\ f = "setcolor" /\ word = "setcolor" /\ fs = "none"
         \/ which = "disktool" /\ f = "select_disk" /\ word = "selectdisk"
            /\ fs = "none"
         \/ which = "disktool" /\ f = "delete_partition" /\ word = "delpart"
            /\ fs = "none"
         \/ which = "disktool" /\ f = "create_partition_mb" /\ word = "newpart"
            /\ fs = TypedFs(line)
  PROVE  IInv'
<1>1. /\ call' = Plain(f) /\ rest' = Text(line, f) /\ number' = 0
      /\ fs_type' = fs /\ pc' = "strtoul"
      /\ UNCHANGED <<prompt, line, color, tool_color, digits>>
  BY DEF Parse
<1>2. fs \in {"none", "FS_EXT4", "FS_FAT32"}
  BY TypedFsIs
<1>3. call' \in CallTypes /\ call'.f = f
  BY <1>1, PlainIs DEF Callees, WithNumber
<1>4. TypeOK'
  BY <1>1, <1>2, <1>3, LineType, ZeroIsInt DEF IInv, TypeOK, CallTypes
<1>5. ParseInv'
  <2>1. /\ 0 \in 0 .. Len(Text(line', call'.f))
        /\ Taken(Text(line', call'.f), 0, number', rest')
    <3>1. 0 \in 0 .. Len(Text(line, f)) /\ Taken(Text(line, f), 0, 0, Text(line, f))
      BY LineType, TakenFirst
    <3> QED
      BY <1>1, <1>3, <3>1
  <2>2. \/ Calls("kernel", "setcolor", "setcolor", "none")'
        \/ Calls("disktool", "select_disk", "selectdisk", "none")'
        \/ Calls("disktool", "delete_partition", "delpart", "none")'
        \/ Calls("disktool", "create_partition_mb", "newpart", TypedFs(line))'
    BY <1>1, <1>3 DEF Calls
  <2> QED
    BY <2>1, <2>2 DEF ParseInv
<1> QED
  BY <1>1, <1>4, <1>5, ElsewhereTrue DEF IInv

LEMMA OtherText ==
  ASSUME NEW l, NEW f, f # "create_partition_mb"
  PROVE  Text(l, f) = ArgumentOf(l)
BY DEF Text

LEMMA ParsesIInv ==
  ASSUME IInv, SetColor \/ SelectDisk \/ DelPart
  PROVE  IInv'
<1>1. CASE SetColor
  <2>1. /\ prompt = "kernel" /\ BeginsWith(line, "setcolor")
        /\ Parse("setcolor", Text(line, "setcolor"), "none")
    BY <1>1, LineIs, OtherText DEF SetColor, At
  <2> QED
    BY <2>1, ParseIInv
<1>2. CASE SelectDisk
  <2>1. /\ prompt = "disktool" /\ BeginsWith(line, "selectdisk")
        /\ Parse("select_disk", Text(line, "select_disk"), "none")
    BY <1>2, LineIs, OtherText DEF SelectDisk, At
  <2> QED
    BY <2>1, ParseIInv
<1>3. CASE DelPart
  <2>1. /\ prompt = "disktool" /\ BeginsWith(line, "delpart")
        /\ Parse("delete_partition", Text(line, "delete_partition"), "none")
    BY <1>3, LineIs, OtherText DEF DelPart, At
  <2> QED
    BY <2>1, ParseIInv
<1> QED
  BY <1>1, <1>2, <1>3

LEMMA NewPartIInv ==
  ASSUME IInv, NewPart
  PROVE  IInv'
<1> DEFINE f == "create_partition_mb"
<1>1. prompt = "disktool" /\ BeginsWith(line, "newpart")
  BY LineIs DEF NewPart, At
<1>2. Parse(f, Text(line, f), TypedFs(line))
  <2> DEFINE s == ArgumentOf(line)
             k == FirstSpace(s)
  <2>1. \/ k = 0 /\ Parse(f, s, "FS_FAT32")
        \/ k # 0 /\ Parse(f, SubSeq(s, 1, k - 1),
                          parse_fs_type(SubSeq(s, k + 1, Len(s))))
    BY LineIs, Zenon DEF NewPart
  <2>2. /\ Text(line, f) = IF k # 0 THEN SubSeq(s, 1, k - 1) ELSE s
        /\ TypedFs(line) = IF k = 0 THEN "FS_FAT32"
                           ELSE parse_fs_type(SubSeq(s, k + 1, Len(s)))
    BY DEF Text, TypedFs
  <2> QED
    BY <2>1, <2>2, Zenon
<1> QED
  BY <1>1, <1>2, ParseIInv

LEMMA TakeDigitIInv ==
  ASSUME IInv, TakeDigit
  PROVE  IInv'
<1> DEFINE s == Text(line, call.f)
<1>1. PICK d \in 0 .. 9 :
        Stands(Head(rest), d) /\ number' = (number * 10 + d) % MODULUS
  BY DEF TakeDigit, Digits, Wrapped, BASE
<1>2. /\ pc = "strtoul" /\ pc' = "strtoul" /\ rest # <<>> /\ rest' = Tail(rest)
      /\ UNCHANGED <<prompt, line, fs_type, color, tool_color, digits, call>>
  BY DEF TakeDigit
<1>3. PICK k \in 0 .. Len(s) : Taken(s, k, number, rest)
  BY <1>2 DEF IInv, ParseInv
<1>4. s \in Seq(STRING)
  BY LineType
<1>5. k + 1 \in 0 .. Len(s) /\ Taken(s, k + 1, number', rest')
  <2> HIDE DEF s
  <2>1. /\ k + 1 \in 0 .. Len(s)
        /\ Taken(s, k + 1, (number * 10 + d) % MODULUS, Tail(rest))
    BY <1>1, <1>2, <1>3, <1>4, TakenNext
  <2> QED
    BY <1>1, <1>2, <2>1
<1>6. rest' \in Seq(STRING) /\ number' \in 0 .. MODULUS - 1
  <2>1. rest' \in Seq(STRING)
    BY <1>2 DEF IInv, TypeOK
  <2> QED
    BY <1>4, <1>5, <2>1, LineType, TypedNumberType
<1>7. TypeOK'
  BY <1>2, <1>6 DEF IInv, TypeOK
<1>8. ParseInv'
  <2>1. \E j \in 0 .. Len(Text(line', call'.f)) :
          Taken(Text(line', call'.f), j, number', rest')
    BY <1>2, <1>5, Zenon
  <2>2. \/ Calls("kernel", "setcolor", "setcolor", "none")'
        \/ Calls("disktool", "select_disk", "selectdisk", "none")'
        \/ Calls("disktool", "delete_partition", "delpart", "none")'
        \/ Calls("disktool", "create_partition_mb", "newpart", TypedFs(line))'
    BY <1>2 DEF IInv, ParseInv, Calls
  <2> QED
    BY <2>1, <2>2 DEF ParseInv
<1> QED
  BY <1>2, <1>7, <1>8, ElsewhereTrue DEF IInv

(* The number is complete.                                                 *)
LEMMA NumberTyped ==
  ASSUME IInv, pc = "strtoul", NumberEnds
  PROVE  number = TypedNumber(line)
<1>1. rest = <<>> \/ ~IsDigit(Head(rest))
  BY DEF NumberEnds, IsDigit, Digits, BASE
<1>2. PICK k \in 0 .. Len(Text(line, call.f)) :
        Taken(Text(line, call.f), k, number, rest)
  BY DEF IInv, ParseInv
<1> QED
  BY <1>1, <1>2, LineType, TakenLast

LEMMA CallWithNumberIInv ==
  ASSUME IInv, CallWithNumber
  PROVE  IInv'
<1> DEFINE n == IF call.f = "create_partition_mb" THEN number ELSE ToInt(number)
<1>1. /\ pc = "strtoul" /\ NumberEnds /\ call.f # "setcolor"
      /\ call' = [f |-> call.f, fs |-> fs_type, n |-> n] /\ pc' = "prompt"
      /\ UNCHANGED <<prompt, line, color, tool_color, rest, number, fs_type, digits>>
  BY DEF CallWithNumber, parsing
<1>2. number = TypedNumber(line)
  BY <1>1, NumberTyped
<1>3. \/ Calls("disktool", "select_disk", "selectdisk", "none")
      \/ Calls("disktool", "delete_partition", "delpart", "none")
      \/ Calls("disktool", "create_partition_mb", "newpart", TypedFs(line))
  BY <1>1 DEF IInv, ParseInv, Calls
<1>4. /\ call' \in CallTypes
      /\ call' = [f |-> call.f, n |-> n, fs |-> fs_type] /\ call'.f = call.f
  <2>1. n \in Ints
    BY IntsAre DEF IInv, TypeOK
  <2> HIDE DEF n
  <2>2. call.f \in Callees /\ fs_type \in {"none", "FS_EXT4", "FS_FAT32"}
    BY DEF IInv, TypeOK
  <2>3. call' = [f |-> call.f, n |-> n, fs |-> fs_type]
    BY <1>1
  <2> QED
    BY <2>1, <2>2, <2>3, CallIs
<1>5. TypeOK'
  BY <1>1, <1>4 DEF IInv, TypeOK, CallTypes
<1>6. line # <<"format">> /\ prompt = "disktool"
  BY <1>3, OneWord DEF Calls
<1>7. DoneInv'
  <2>1. CASE Calls("disktool", "select_disk", "selectdisk", "none")
    <3>1. \A w : BeginsWith(line, w) => w = "selectdisk"
      BY <2>1, BeginsOnce DEF Calls
    <3>2. call' = [f |-> "select_disk", n |-> ToInt(TypedNumber(line)), fs |-> "none"]
      BY <1>2, <1>4, <2>1 DEF Calls
    <3> QED
      BY <1>1, <1>4, <1>6, <2>1, <3>1, <3>2 DEF DoneInv, Calls, WithNumber
  <2>2. CASE Calls("disktool", "delete_partition", "delpart", "none")
    <3>1. \A w : BeginsWith(line, w) => w = "delpart"
      BY <2>2, BeginsOnce DEF Calls
    <3>2. call' = [f |-> "delete_partition", n |-> ToInt(TypedNumber(line)),
                   fs |-> "none"]
      BY <1>2, <1>4, <2>2 DEF Calls
    <3> QED
      BY <1>1, <1>4, <1>6, <2>2, <3>1, <3>2 DEF DoneInv, Calls, WithNumber
  <2>3. CASE Calls("disktool", "create_partition_mb", "newpart", TypedFs(line))
    <3>1. \A w : BeginsWith(line, w) => w = "newpart"
      BY <2>3, BeginsOnce DEF Calls
    <3>2. call' = [f |-> "create_partition_mb", n |-> TypedNumber(line),
                   fs |-> TypedFs(line)]
      BY <1>2, <1>4, <2>3 DEF Calls
    <3> QED
      BY <1>1, <1>4, <1>6, <2>3, <3>1, <3>2 DEF DoneInv, Calls, WithNumber
  <2> QED
    BY <1>3, <2>1, <2>2, <2>3
<1> QED
  BY <1>1, <1>5, <1>7, ElsewhereTrue DEF IInv

LEMMA ColorSetIInv ==
  ASSUME IInv, ColorSet
  PROVE  IInv'
<1>1. /\ pc = "strtoul" /\ NumberEnds /\ call.f = "setcolor"
      /\ color' = ToInt(number) /\ pc' = "prompt"
      /\ UNCHANGED <<prompt, line, tool_color, call, rest, number, fs_type, digits>>
  BY DEF ColorSet, parsing
<1>2. number = TypedNumber(line)
  BY <1>1, NumberTyped
<1>3. Calls("kernel", "setcolor", "setcolor", "none")
  BY <1>1 DEF IInv, ParseInv, Calls
<1>4. TypeOK'
  BY <1>1, IntsAre DEF IInv, TypeOK
<1>5. DoneInv'
  BY <1>1, <1>2, <1>3 DEF DoneInv, Calls, WithNumber
<1> QED
  BY <1>1, <1>4, <1>5, ElsewhereTrue DEF IInv

-----------------------------------------------------------------------------
(* Numbers shown.                                                          *)

SymbolSet == {Symbols[k] : k \in 1 .. 10}

LEMMA LastDigitIs ==
  ASSUME NEW n \in Nat
  PROVE  Symbols[(n % 10) + 1] \in SymbolSet
BY DEF SymbolSet

LEMMA ZeroIsSymbol == "0" \in SymbolSet
<1>1. Symbols[1] = "0"
  BY SMT DEF Symbols
<1>2. 1 \in 1 .. 10
  OBVIOUS
<1> QED
  BY <1>1, <1>2, Zenon DEF SymbolSet

LEMMA DigitsType ==
  TypeOK => digits \in Seq(SymbolSet)
BY DEF TypeOK, SymbolSet

LEMMA CallNumber ==
  ASSUME TypeOK, NEW n \in 0 .. MODULUS - 1
  PROVE  /\ [call EXCEPT !.n = n] \in CallTypes
         /\ [call EXCEPT !.n = n].f = call.f /\ [call EXCEPT !.n = n].n = n
BY IntsAre DEF TypeOK, CallTypes

(* The functions that display numbers are called.                          *)
LEMMA DisplayIInv ==
  ASSUME IInv, ListDisks \/ Update
  PROVE  IInv'
<1>1. PICK f \in {"list_disks", "init_disktool"} :
        /\ call' = Plain(f) /\ prompt = "disktool" /\ pc = "dispatch"
        /\ line \in {<<"listdisks">>, <<"update">>}
  BY DEF ListDisks, Update, Display, At, Is
<1>2. /\ pc' = "list"
      /\ UNCHANGED <<prompt, line, color, tool_color, rest, number, fs_type, digits>>
  BY DEF ListDisks, Update, Display, parsing
<1>3. f \in Callees
  BY DEF Callees
<1>4. call' \in CallTypes /\ call'.f = f
  BY <1>1, <1>3, PlainIs
<1>5. TypeOK'
  BY <1>2, <1>4 DEF IInv, TypeOK, CallTypes
<1>6. digits' = <<>>
  BY <1>1, <1>2 DEF IInv, DispatchInv
<1>7. ShowInv'
  BY <1>1, <1>2, <1>4, <1>6 DEF ShowInv
<1> QED
  BY <1>2, <1>5, <1>7, ElsewhereTrue DEF IInv

LEMMA PrintNumberIInv ==
  ASSUME IInv, NEW n \in Numbers, PrintNumber(n)
  PROVE  IInv'
<1>1. /\ pc = "list" /\ call' = [call EXCEPT !.n = n] /\ number' = n
      /\ digits' = IF n = 0 THEN <<"0">> ELSE <<>>
      /\ pc' = IF call.f = "list_disks" THEN "print_int" ELSE "print_dec"
      /\ UNCHANGED <<prompt, line, color, tool_color, rest, fs_type>>
  BY DEF PrintNumber
<1>2. n \in 0 .. MODULUS - 1 /\ n \in Nat /\ n < MODULUS
  BY ConstantsAre
<1>3. call' \in CallTypes /\ call'.f = call.f /\ call'.n = n
  BY <1>1, <1>2, CallNumber DEF IInv
<1>4. /\ digits' \in Seq(SymbolSet) /\ Len(digits') \in {0, 1}
      /\ n # 0 => Len(digits') = 0
  BY <1>1, ZeroIsSymbol
<1>5. TypeOK'
  BY <1>1, <1>2, <1>3, <1>4 DEF IInv, TypeOK, CallTypes, SymbolSet
<1>6. Shows(digits', n, n)
  BY <1>1, <1>2, ShowsFirst
<1>7. Reversed(digits') = digits'
  BY <1>1 DEF Reversed
<1>8. /\ Len(digits') <= DIGITS
      /\ n = 0 \/ n < Power[DIGITS - Len(digits')]
  <2>1. DIGITS \in Nat \ {0} /\ Power[DIGITS] \in Nat /\ MODULUS <= Power[DIGITS]
    BY ConstantsAre, PowerOfTen
  <2>2. n # 0 => DIGITS - Len(digits') = DIGITS
    BY <1>4, <2>1
  <2>3. MODULUS \in Nat
    BY ConstantsAre
  <2>4. n < Power[DIGITS]
    BY <1>2, <2>1, <2>3
  <2>5. Len(digits') <= DIGITS
    <3>1. Len(digits') = 0 \/ Len(digits') = 1
      BY <1>4
    <3>2. 0 <= DIGITS /\ 1 <= DIGITS
      BY <2>1
    <3> QED
      BY <3>1, <3>2, Zenon
  <2> QED
    BY <2>2, <2>4, <2>5
<1>9. ShowInv'
  BY <1>1, <1>3, <1>6, <1>7, <1>8 DEF IInv, ShowInv, Fitting
<1>10. pc' \in {"print_int", "print_dec"}
  BY <1>1
<1> QED
  BY <1>5, <1>9, <1>10, ElsewhereTrue DEF IInv

LEMMA ListedIInv ==
  ASSUME IInv, Listed
  PROVE  IInv'
<1>1. /\ pc = "list" /\ pc' = "prompt"
      /\ UNCHANGED <<prompt, line, color, tool_color, call, rest, number, fs_type,
                     digits>>
  BY DEF Listed, parsing
<1>2. TypeOK'
  BY <1>1 DEF IInv, TypeOK
<1>3. PICK w \in {"listdisks", "update"} : line = <<w>> /\ w # "format"
  BY <1>1 DEF IInv, ShowInv
<1>4. Harmless(prompt')
  BY <1>3, HarmlessWord
<1>5. call'.f \notin WithNumber \union {"format_disk"}
  BY <1>1 DEF IInv, ShowInv, WithNumber
<1>6. DoneInv'
  BY <1>1, <1>4, <1>5, DoneHarmless
<1> QED
  BY <1>1, <1>2, <1>6, ElsewhereTrue DEF IInv

LEMMA PrintIntIInv ==
  ASSUME IInv, PrintIntNext \/ PrintIntDone
  PROVE  IInv'
<1>1. /\ pc = "print_int"
      /\ UNCHANGED <<prompt, line, color, tool_color, call, rest, fs_type>>
  BY DEF PrintIntNext, PrintIntDone, parsing
<1>2. /\ digits \in Seq(SymbolSet) /\ number \in Nat /\ number < MODULUS
      /\ Len(digits) \in Nat
  BY DigitsType, ConstantsAre DEF IInv, TypeOK
<1>3. Shows(digits, number, call.n) /\ Fitting(digits, number)
  BY <1>1 DEF IInv, ShowInv
<1>4. CASE PrintIntNext
  <2> DEFINE c == Symbols[(number % 10) + 1]
  <2>1. /\ number > 0 /\ pc' = pc
        /\ digits' = <<c>> \o digits /\ number' = number \div 10
    BY <1>4 DEF PrintIntNext, LastDigit, BASE
  <2>2. c \in SymbolSet
    BY <1>2, LastDigitIs
  <2>3. Shows(digits', number', call.n)
    BY <1>2, <1>3, <2>1, <2>2, ShowsNext
  <2> HIDE DEF c
  <2>4. digits' \in Seq(SymbolSet) /\ Len(digits') = Len(digits) + 1
    BY <1>2, <2>1, <2>2
  <2>5. number' \in 0 .. MODULUS - 1
    BY <1>2, <2>1, ConstantsAre
  <2>6. Fitting(digits', number')
    BY <1>2, <1>3, <2>1, <2>4, FittingNext
  <2>7. TypeOK'
    BY <1>1, <2>1, <2>4, <2>5 DEF IInv, TypeOK, SymbolSet
  <2>8. ShowInv'
    BY <1>1, <2>1, <2>3, <2>6 DEF IInv, ShowInv, Fitting
  <2> QED
    BY <1>1, <2>1, <2>7, <2>8, ElsewhereTrue DEF IInv
<1>5. CASE PrintIntDone
  <2>1. /\ number = 0 \/ Len(digits) = DIGITS
        /\ pc' = "list" /\ UNCHANGED <<number, digits>>
    BY <1>5 DEF PrintIntDone, parsing
  <2>2. number = 0
    <3> SUFFICES ASSUME Len(digits) = DIGITS, number # 0 PROVE FALSE
      BY <2>1
    <3>1. DIGITS - Len(digits) = 0
      BY ConstantsAre
    <3> QED
      BY <1>2, <1>3, <3>1, PowerOfTen DEF Fitting
  <2>3. TypeOK'
    BY <1>1, <2>1 DEF IInv, TypeOK
  <2>4. ShowInv'
    BY <1>1, <1>3, <2>1, <2>2 DEF IInv, ShowInv, Fitting
  <2> QED
    BY <2>1, <2>3, <2>4, ElsewhereTrue DEF IInv
<1> QED
  BY <1>4, <1>5

LEMMA PrintDecIInv ==
  ASSUME IInv, PrintDecNext \/ PrintDecDone
  PROVE  IInv'
<1>1. /\ pc = "print_dec"
      /\ UNCHANGED <<prompt, line, color, tool_color, call, rest, fs_type>>
  BY DEF PrintDecNext, PrintDecDone
<1>2. /\ digits \in Seq(SymbolSet) /\ number \in Nat /\ number < MODULUS
  BY DigitsType, ConstantsAre DEF IInv, TypeOK
<1>3. Shows(Reversed(digits), number, call.n) /\ Fitting(digits, number)
  BY <1>1 DEF IInv, ShowInv
<1>4. Reversed(digits) \in Seq(SymbolSet) /\ Len(Reversed(digits)) = Len(digits)
  BY <1>2, ReversedIs
<1>5. CASE PrintDecNext
  <2> DEFINE c == Symbols[(number % 10) + 1]
  <2>1. /\ number > 0 /\ pc' = pc
        /\ digits' = Append(digits, c) /\ number' = number \div 10
    BY <1>5 DEF PrintDecNext, LastDigit, BASE
  <2>2. c \in SymbolSet
    BY <1>2, LastDigitIs
  <2>3. Shows(<<c>> \o Reversed(digits), number', call.n)
    BY <1>2, <1>3, <1>4, <2>1, <2>2, ShowsNext
  <2> HIDE DEF c
  <2>4. Reversed(digits') = <<c>> \o Reversed(digits)
    BY <1>2, <2>1, <2>2, ReversedAppend
  <2>5. digits' \in Seq(SymbolSet) /\ Len(digits') = Len(digits) + 1
    BY <1>2, <2>1, <2>2
  <2>6. number' \in 0 .. MODULUS - 1
    BY <1>2, <2>1, ConstantsAre
  <2>7. TypeOK'
    BY <1>1, <2>1, <2>5, <2>6 DEF IInv, TypeOK, SymbolSet
  <2>8. Fitting(digits', number')
    BY <1>2, <1>3, <2>1, <2>5, FittingNext
  <2>9. ShowInv'
    BY <1>1, <2>1, <2>3, <2>4, <2>8 DEF IInv, ShowInv, Fitting
  <2> QED
    BY <1>1, <2>1, <2>7, <2>9, ElsewhereTrue DEF IInv
<1>6. CASE PrintDecDone
  <2>1. /\ number = 0 /\ pc' = "list" /\ number' = number
        /\ digits' = Reversed(digits)
    BY <1>6 DEF PrintDecDone, Reversed
  <2>2. TypeOK'
    BY <1>1, <1>4, <2>1 DEF IInv, TypeOK, SymbolSet
  <2>3. ShowInv'
    BY <1>1, <1>3, <1>4, <2>1 DEF IInv, ShowInv, Fitting
  <2> QED
    BY <2>1, <2>2, <2>3, ElsewhereTrue DEF IInv
<1> QED
  BY <1>5, <1>6

-----------------------------------------------------------------------------
LEMMA NextIInv == IInv /\ [Next]_vars => IInv'
<1> SUFFICES ASSUME IInv, [Next]_vars PROVE IInv'
  OBVIOUS
<1>1. ASSUME NEW typed \in Lines, ReadLine(typed) PROVE IInv'
  BY <1>1, ReadLineIInv
<1>2. CASE KernelWord
  BY <1>2, KernelWordIInv DEF KernelWord
<1>3. CASE ToolWord
  BY <1>3, ToolWordIInv DEF ToolWord
<1>4. CASE Echo \/ KernelUnknown \/ ToolUnknown
  BY <1>4, EchoIInv, UnknownIInv
<1>5. CASE StartDiskTool \/ Exit
  BY <1>5, PromptsIInv
<1>6. CASE SetColor \/ SelectDisk \/ DelPart
  BY <1>6, ParsesIInv
<1>7. CASE Format \/ NewPart
  BY <1>7, FormatIInv, NewPartIInv
<1>8. CASE ListDisks \/ Update
  BY <1>8, DisplayIInv
<1>9. CASE TakeDigit \/ CallWithNumber \/ ColorSet
  BY <1>9, TakeDigitIInv, CallWithNumberIInv, ColorSetIInv
<1>10. ASSUME NEW n \in Numbers, PrintNumber(n) PROVE IInv'
  BY <1>10, PrintNumberIInv
<1>11. CASE Listed
  BY <1>11, ListedIInv
<1>12. CASE PrintIntNext \/ PrintIntDone
  BY <1>12, PrintIntIInv
<1>13. CASE PrintDecNext \/ PrintDecDone
  BY <1>13, PrintDecIInv
<1>14. CASE UNCHANGED vars
  BY <1>14 DEF vars, parsing, IInv, TypeOK, ParseInv, DispatchInv, DoneInv,
               ShowInv, Calls
<1> QED
  BY <1>1, <1>2, <1>3, <1>4, <1>5, <1>6, <1>7, <1>8, <1>9, <1>10, <1>11,
     <1>12, <1>13, <1>14 DEF Next

THEOREM AlwaysIInv == Spec => []IInv
BY InitIInv, NextIInv, PTL DEF Spec

(* Whatever is typed, every variable keeps to its type; in particular the  *)
(* number that strtoul makes of any line is one of 32 bits.                *)
THEOREM AlwaysTypeOK == Spec => []TypeOK
<1>1. IInv => TypeOK
  BY DEF IInv
<1> QED
  BY <1>1, AlwaysIInv, PTL

-----------------------------------------------------------------------------
(* What the properties say of a line.                                      *)

LEMMA NumeralExists ==
  ASSUME NEW S, NEW s \in Seq(S)
  PROVE  Numeral(s) \in Seq(S) /\ AllDigits(Numeral(s))
<1> DEFINE T == {n \in 0 .. Len(s) : n = Len(s) \/ ~IsDigit(s[n + 1])}
<1>1. T \subseteq Nat /\ Len(s) \in T
  OBVIOUS
<1>2. PICK n \in T : \A m \in T : n <= m
  BY <1>1, LeastExists
<1>3. n \in 0 .. Len(s) /\ (n = Len(s) \/ ~IsDigit(s[n + 1]))
  OBVIOUS
<1>4. ASSUME NEW k \in 1 .. n
      PROVE  IsDigit(s[k])
  <2>1. k - 1 \in 0 .. Len(s) /\ k - 1 < n /\ (k - 1) + 1 = k /\ k - 1 # Len(s)
    BY <1>3
  <2>2. ASSUME k - 1 \in T PROVE FALSE
    <3>1. n <= k - 1
      BY <1>2, <2>2, Zenon
    <3> QED
      BY <1>3, <2>1, <3>1
  <2> QED
    BY <2>1, <2>2
<1>5. SubSeq(s, 1, n) \in Seq(S) /\ AllDigits(SubSeq(s, 1, n))
  BY <1>3, <1>4, PrefixIs DEF AllDigits
<1>6. Numeral(s) = SubSeq(s, 1, n)
  BY <1>3, <1>5, NumeralIs
<1> QED
  BY <1>5, <1>6

LEMMA TypedNumberIs ==
  ASSUME NEW S, NEW l \in Seq(S)
  PROVE  TypedNumber(l) \in 0 .. MODULUS - 1
<1>1. ArgumentOf(l) \in Seq(S)
  BY DEF ArgumentOf
<1>2. Value(Numeral(ArgumentOf(l))) \in Nat
  BY <1>1, NumeralExists, ValueIsFold, FoldType
<1> QED
  BY <1>2, WrappedType DEF TypedNumber

LEMMA ToIntIs ==
  ASSUME NEW n \in 0 .. MODULUS - 1
  PROVE  /\ ToInt(n) % MODULUS = n /\ n % MODULUS = n
         /\ n < MODULUS \div 2 => ToInt(n) = n
<1>1. MODULUS \in Nat \ {0}
  BY ConstantsAre
<1>2. n % MODULUS = n /\ (n - MODULUS) % MODULUS = n
  BY <1>1
<1> QED
  BY <1>2 DEF ToInt

(* The digits are the whole of it.                                         *)
LEMMA AllDigitsTyped ==
  ASSUME NEW S, NEW s \in Seq(S), IsNumber(s)
  PROVE  Numeral(s) = s /\ FirstSpace(s) = 0 /\ Value(s) \in Nat
<1>1. AllDigits(s)
  BY NumberIsDigits
<1>2. SubSeq(s, 1, Len(s)) = s /\ Len(s) \in 0 .. Len(s)
  OBVIOUS
<1>3. Numeral(s) = s
  BY <1>1, <1>2, NumeralIs
<1>4. \A k \in 1 .. Len(s) : s[k] # Space
  BY <1>1, SpaceIsNoDigit DEF AllDigits
<1>5. FirstSpace(s) = 0
  BY <1>4, FirstSpaceType
<1> QED
  BY <1>1, <1>3, <1>5, ValueIsFold, FoldType

(* A space and a word follow them.                                         *)
LEMMA DigitsAndWord ==
  ASSUME NEW S, NEW s \in Seq(S), IsNumber(s), NEW w, NEW t, t = s \o <<Space, w>>
  PROVE  /\ Numeral(t) = s /\ FirstSpace(t) = Len(s) + 1
         /\ SubSeq(t, Len(s) + 2, Len(t)) = <<w>>
         /\ t \in Seq(S \union {Space, w}) /\ Value(s) \in Nat
<1> DEFINE U == S \union {Space, w}
<1>1. s \in Seq(U) /\ Space \in U /\ w \in U
  OBVIOUS
<1> HIDE DEF U
<1>2. /\ t \in Seq(U) /\ Len(t) = Len(s) + 2
      /\ t[Len(s) + 1] = Space /\ t[Len(s) + 2] = w
      /\ \A k \in 1 .. Len(s) : t[k] = s[k]
  BY <1>1
<1>3. AllDigits(s)
  BY NumberIsDigits
<1>4. SubSeq(t, 1, Len(s)) = s /\ Len(s) \in 0 .. Len(t)
  BY <1>1, <1>2
<1>5. Numeral(t) = s
  <2>1. ~IsDigit(t[Len(s) + 1])
    BY <1>2, SpaceIsNoDigit
  <2> QED
    BY <1>2, <1>3, <1>4, <2>1, NumeralIs
<1>6. FirstSpace(t) = Len(s) + 1
  <2>1. Len(s) + 1 \in 1 .. Len(t)
    BY <1>2
  <2>2. \A k \in 1 .. (Len(s) + 1) - 1 : t[k] # Space
    BY <1>2, <1>3, SpaceIsNoDigit DEF AllDigits
  <2> QED
    BY <1>2, <2>1, <2>2, FirstSpaceIs
<1>7. SubSeq(t, Len(s) + 2, Len(t)) = <<w>>
  <2> DEFINE n == Len(s) + 2
  <2>1. n \in 1 .. Len(t) /\ Len(t) = n /\ t[n] = w
    BY <1>2
  <2> HIDE DEF n
  <2>2. SubSeq(t, n, n) = <<t[n]>>
    BY <1>2, <2>1, OneSymbol
  <2> QED
    BY <2>1, <2>2 DEF n
<1>8. Value(s) \in Nat
  BY <1>3, ValueIsFold, FoldType
<1> QED
  BY <1>2, <1>5, <1>6, <1>7, <1>8 DEF U

LEMMA TypedIs ==
  ASSUME NEW S, NEW s \in Seq(S), NEW w, Typed(w, s)
  PROVE  BeginsWith(line, w) /\ ArgumentOf(line) = s
<1> DEFINE U == S \union {w, Space}
           l == <<w, Space>> \o s
<1>1. line = l
  BY DEF Typed
<1>2. s \in Seq(U) /\ w \in U /\ Space \in U
  OBVIOUS
<1> HIDE DEF U
<1>3. /\ l \in Seq(U) /\ Len(l) = Len(s) + 2
      /\ l[1] = w /\ l[2] = Space
      /\ \A k \in 1 .. Len(s) : l[k + 2] = s[k]
  BY <1>2
<1> HIDE DEF l
<1>4. ArgumentOf(l) = s
  BY <1>2, <1>3 DEF ArgumentOf
<1> QED
  BY <1>1, <1>3, <1>4 DEF BeginsWith

(* However long the number typed and whatever follows it, a command gets   *)
(* the value of its digits; and what is displayed are the digits of the    *)
(* number meant, for which there is always room (strtoul, print_int,       *)
(* print_dec).                                                             *)
THEOREM AlwaysNumbersExact == Spec => []NumbersExact
<1> SUFFICES ASSUME IInv PROVE NumbersExact
  BY AlwaysIInv, PTL
<1>1. ASSUME pc = "prompt", call.f \in WithNumber
      PROVE  call.n % MODULUS = Value(Numeral(Argument)) % MODULUS
  <2>1. call.n = ToInt(TypedNumber(line)) \/ call.n = TypedNumber(line)
    BY <1>1 DEF IInv, DoneInv, WithNumber
  <2>2. call.n % MODULUS = TypedNumber(line)
    BY <2>1, LineType, TypedNumberIs, ToIntIs
  <2> QED
    BY <2>2, LineIs DEF TypedNumber
<1>2. ASSUME pc = "list", digits # <<>>
      PROVE  /\ IsNumber(digits) /\ Value(digits) = call.n
             /\ digits[1] = "0" => digits = <<"0">>
  <2>1. Shows(digits, 0, call.n)
    BY <1>2 DEF IInv, ShowInv
  <2>2. digits \in Seq(SymbolSet)
    BY DigitsType DEF IInv
  <2>3. IsNumber(digits)
    BY <1>2, <2>1, <2>2, NumberIsDigits DEF Shows
  <2> QED
    BY <1>2, <2>1, <2>3, ValueIsFold DEF Shows
<1>3. pc \in {"print_int", "print_dec"} => Len(digits) <= DIGITS
  BY DEF IInv, ShowInv, Fitting
<1> QED
  BY <1>1, <1>2, <1>3 DEF NumbersExact

(* The help text keeps its word, for every number and both file systems;   *)
(* and what changes a disk is called only for a line that names it.        *)
THEOREM AlwaysTypedMeansDone == Spec => []TypedMeansDone
<1> SUFFICES ASSUME IInv PROVE TypedMeansDone
  BY AlwaysIInv, PTL
<1> SUFFICES ASSUME pc = "prompt" PROVE TypedMeansDone
  BY Zenon DEF TypedMeansDone
<1> DEFINE s == Argument
           sized == SubSeq(s, 1, Len(s) - 2)
<1>1. s = ArgumentOf(line) /\ s \in Seq(STRING) /\ line \in Seq(STRING)
      /\ sized \in Seq(STRING)
  BY LineType, LineIs
<1> HIDE DEF s, sized
<1>2. MODULUS \in Nat \ {0} /\ MODULUS \div 2 <= MODULUS /\ 14 < MODULUS \div 2
  BY ConstantsAre
(* A number alone.                                                         *)
<1>3. ASSUME IsNumber(s), Value(s) < MODULUS
      PROVE  /\ TypedNumber(line) = Value(s) /\ TypedFs(line) = "FS_FAT32"
             /\ Value(s) < MODULUS \div 2 => ToInt(TypedNumber(line)) = Value(s)
  <2>1. Numeral(s) = s /\ FirstSpace(s) = 0 /\ Value(s) \in Nat
    BY <1>1, <1>3, AllDigitsTyped
  <2>2. Value(s) \in 0 .. MODULUS - 1
    BY <1>2, <1>3, <2>1
  <2>3. TypedNumber(line) = Value(s)
    BY <1>1, <2>1, <2>2, ToIntIs DEF TypedNumber
  <2>4. TypedFs(line) = "FS_FAT32"
    BY <1>1, <2>1, Zenon DEF TypedFs
  <2> QED
    BY <2>2, <2>3, <2>4, ToIntIs
<1>4. ASSUME NEW w, Typed(w, s)
      PROVE  BeginsWith(line, w)
  BY <1>1, <1>4, TypedIs
<1>5. ASSUME prompt = "disktool"
      PROVE  /\ Is("format") => call = [f |-> "format_disk", n |-> 0, fs |-> "FS_EXT4"]
             /\ Typed("format", <<"ext4">>) =>
                  call = [f |-> "format_disk", n |-> 0, fs |-> "FS_EXT4"]
             /\ Typed("format", <<"fat32">>) =>
                  call = [f |-> "format_disk", n |-> 0, fs |-> "FS_FAT32"]
  <2>1. Is("format") => call = [f |-> "format_disk", n |-> 0, fs |-> "FS_EXT4"]
    BY <1>5 DEF IInv, DoneInv, Is
  <2>2. ASSUME NEW fs \in {"ext4", "fat32"}, Typed("format", <<fs>>)
        PROVE  call = [f |-> "format_disk", n |-> 0, fs |-> parse_fs_type(<<fs>>)]
    <3>1. <<fs>> \in Seq({"ext4", "fat32"})
      OBVIOUS
    <3>2. BeginsWith(line, "format") /\ ArgumentOf(line) = <<fs>>
      BY <2>2, <3>1, TypedIs
    <3> QED
      BY <1>5, <3>2 DEF IInv, DoneInv
  <2>3. /\ parse_fs_type(<<"ext4">>) = "FS_EXT4"
        /\ parse_fs_type(<<"fat32">>) = "FS_FAT32"
    BY DEF parse_fs_type
  <2> QED
    BY <2>1, <2>2, <2>3
<1>6. ASSUME prompt = "disktool", IsNumber(s), Value(s) < MODULUS \div 2
      PROVE  /\ Typed("selectdisk", s) =>
                  call = [f |-> "select_disk", n |-> Value(s), fs |-> "none"]
             /\ Typed("delpart", s) =>
                  call = [f |-> "delete_partition", n |-> Value(s), fs |-> "none"]
  <2>1. ToInt(TypedNumber(line)) = Value(s)
    <3>1. Value(s) \in Nat
      BY <1>1, <1>6, AllDigitsTyped
    <3>2. Value(s) < MODULUS
      BY <1>2, <1>6, <3>1
    <3> QED
      BY <1>3, <1>6, <3>2
  <2> QED
    BY <1>4, <1>6, <2>1 DEF IInv, DoneInv
<1>7. ASSUME prompt = "disktool", IsNumber(s), Value(s) < MODULUS,
             Typed("newpart", s)
      PROVE  call = [f |-> "create_partition_mb", n |-> Value(s), fs |-> "FS_FAT32"]
  <2>1. BeginsWith(line, "newpart")
    BY <1>4, <1>7
  <2> QED
    BY <1>3, <1>7, <2>1 DEF IInv, DoneInv
<1>8. ASSUME prompt = "disktool", IsNumber(sized), Value(sized) < MODULUS,
             NEW fs \in {"ext4", "fat32"}, Typed("newpart", sized \o <<Space, fs>>)
      PROVE  call = [f |-> "create_partition_mb", n |-> Value(sized),
                     fs |-> IF fs = "ext4" THEN "FS_EXT4" ELSE "FS_FAT32"]
  <2> DEFINE t == sized \o <<Space, fs>>
  <2>1. /\ Numeral(t) = sized /\ FirstSpace(t) = Len(sized) + 1
        /\ SubSeq(t, Len(sized) + 2, Len(t)) = <<fs>>
        /\ t \in Seq(STRING \union {Space, fs}) /\ Value(sized) \in Nat
    BY <1>1, <1>8, DigitsAndWord
  <2>2. BeginsWith(line, "newpart") /\ ArgumentOf(line) = t
    BY <1>8, <2>1, TypedIs
  <2> HIDE DEF t
  <2>3. TypedNumber(line) = Value(sized)
    <3>1. Value(sized) \in 0 .. MODULUS - 1
      BY <1>2, <1>8, <2>1
    <3> QED
      BY <2>1, <2>2, <3>1, ToIntIs DEF TypedNumber
  <2>4. TypedFs(line) = parse_fs_type(<<fs>>)
    <3>1. Len(sized) \in Nat
      BY <1>1
    <3>2. FirstSpace(t) # 0 /\ FirstSpace(t) + 1 = Len(sized) + 2
      BY <2>1, <3>1
    <3> QED
      BY <2>1, <2>2, <3>2, Zenon DEF TypedFs
  <2>5. parse_fs_type(<<fs>>) = IF fs = "ext4" THEN "FS_EXT4" ELSE "FS_FAT32"
    BY DEF parse_fs_type
  <2> QED
    BY <1>8, <2>2, <2>3, <2>4, <2>5 DEF IInv, DoneInv
<1>9. ASSUME prompt = "kernel", IsNumber(s), Value(s) <= 14, Typed("setcolor", s)
      PROVE  color = Value(s)
  <2>1. Value(s) \in Nat
    BY <1>1, <1>9, AllDigitsTyped
  <2>2. Value(s) < MODULUS /\ Value(s) < MODULUS \div 2
    BY <1>2, <1>9, <2>1
  <2>3. BeginsWith(line, "setcolor")
    BY <1>4, <1>9
  <2> QED
    BY <1>3, <1>9, <2>2, <2>3 DEF IInv, DoneInv
<1>10. /\ call.f = "format_disk" => Is("format") \/ Begins("format")
       /\ call.f = "create_partition_mb" => Begins("newpart")
       /\ call.f = "delete_partition" => Begins("delpart")
       /\ call.f \in WithNumber \union {"format_disk"} => prompt = "disktool"
  BY LineIs DEF IInv, DoneInv, Is
<1> QED
  BY <1>5, <1>6, <1>7, <1>8, <1>9, <1>10 DEF TypedMeansDone, s, sized

=============================================================================
