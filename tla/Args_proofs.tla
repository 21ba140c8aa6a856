---------------------------- MODULE Args_proofs ----------------------------
(* The invariants of Args, for command lines of any words, shorter and     *)
(* longer than the index can count.                                        *)
EXTENDS Args, SequenceTheorems, TLAPS

AllVerdicts == {"parsing", "run", "usage", "bad"}

(* The command line is short enough for i to reach its end.                *)
Short == argc < IndexRange

Going == verdict \in {"parsing", "run"}

(* i can never pass the end of a long one: that is read for ever, or fails.*)
IndexInv ==
    /\ argc \in Nat \ {0}
    /\ i \in 0 .. IndexRange - 1
    /\ verdict \in AllVerdicts
    /\ verdict = "run" => i >= argc

InOrder(m) == [k \in 1 .. m - 1 |-> k]

(* The words before i, each taken once, are what was taken.                *)
TakenInv ==
    Short /\ Going => i \in 1 .. argc /\ taken = InOrder(i)

LimitsInv ==
    /\ DOMAIN args = Options
    /\ \A n \in Numbers : args[n] \in Limits[n] \/ args[n] = Defaults[n]

(* What the words before m mean: the last one counts, but --no-clock       *)
(* stays.                                                                  *)
Said(n, m) == {k \in Says(n) : k < m}

NoClock(m) == \E k \in 1 .. m - 1 : Word(k).name = "no-clock"

Last(n, m, k) == k \in Said(n, m) /\ \A j \in Said(n, m) : j <= k

Meant(n, m, x) ==
    \/ Said(n, m) = {} /\ x = Defaults[n]
    \/ \E k \in Said(n, m) : Last(n, m, k) /\ x \in Stored(n, ValueAt(k))

Means(m, a) ==
    /\ (a["clock_fill"] = NULL) <=> NoClock(m)
    /\ \A n \in Options : \/ n = "clock_fill" /\ a[n] = NULL
                          \/ Meant(n, m, a[n])

MeansInv == Short /\ Going /\ Plain => Means(i, args)

IInv == IndexInv /\ TakenInv /\ LimitsInv /\ MeansInv

-----------------------------------------------------------------------------
(* The index.                                                              *)
LEMMA PlusRange ==
  ASSUME NEW k \in 0 .. IndexRange - 1, NEW n \in {1, 2}
  PROVE  Plus(k, n) \in 0 .. IndexRange - 1
<1> DEFINE x == k + n
<1>1. x \in Nat /\ IndexRange \in Nat /\ IndexRange > 1
  BY IndexAssumption
<1> HIDE DEF x
<1>2. x % IndexRange \in 0 .. IndexRange - 1
  BY <1>1
<1> QED
  BY <1>2 DEF Plus, x

LEMMA PlusInside ==
  ASSUME NEW k \in Nat, NEW n \in {1, 2}, k + n < IndexRange
  PROVE  Plus(k, n) = k + n
<1> DEFINE x == k + n
           c == IndexRange
           d == x \div c
           m == x % c
<1>1. x \in Nat /\ c \in Nat /\ c > 1 /\ x < c
  BY IndexAssumption
<1> HIDE DEF x, c
<1>2. d \in Int /\ m \in 0 .. c - 1 /\ x = c * d + m
  BY <1>1
<1> HIDE DEF d, m
<1>3. CASE d >= 1
  BY <1>1, <1>2, <1>3
<1>4. CASE d <= -1
  BY <1>1, <1>2, <1>4
<1>5. CASE d = 0
  BY <1>1, <1>2, <1>5 DEF Plus, x, c, m
<1> QED
  BY <1>2, <1>3, <1>4, <1>5

(* What the words taken in order look like, one or two words later.        *)
LEMMA OrderNext ==
  ASSUME NEW m \in Nat \ {0}
  PROVE  /\ InOrder(m) \o <<m>> = InOrder(m + 1)
         /\ InOrder(m) \o <<m, m + 1>> = InOrder(m + 2)
         /\ Len(InOrder(m)) = m - 1
<1> DEFINE s == InOrder(m)
<1>1. s \in Seq(Nat) /\ Len(s) = m - 1 /\ \A k \in 1 .. m - 1 : s[k] = k
  BY DEF InOrder
<1> HIDE DEF s
<1>2. s \o <<m>> = InOrder(m + 1)
  <2>1. /\ s \o <<m>> = [k \in 1 .. Len(s) + 1 |-> IF k <= Len(s) THEN s[k] ELSE m]
    BY <1>1
  <2> QED
    BY <1>1, <2>1 DEF InOrder
<1>3. s \o <<m, m + 1>> = InOrder(m + 2)
  <2>1. s \o <<m, m + 1>> =
          [k \in 1 .. Len(s) + 2 |->
             IF k <= Len(s) THEN s[k] ELSE IF k = Len(s) + 1 THEN m ELSE m + 1]
    BY <1>1
  <2> QED
    BY <1>1, <2>1 DEF InOrder
<1> QED
  BY <1>1, <1>2, <1>3 DEF s

-----------------------------------------------------------------------------
(* The values.                                                             *)
LEMMA Kinds ==
  /\ "clock_fill" \in Fills /\ Fills \subseteq Options /\ Numbers \subseteq Options
  /\ "passwd_file" \in Options
  /\ \A n \in Options : \/ n \in Numbers /\ n \notin Fills /\ n # "passwd_file"
                        \/ n \in Fills /\ n \notin Numbers /\ n # "passwd_file"
                        \/ n \notin Fills /\ n \notin Numbers /\ n = "passwd_file"
  /\ \A n \in Options : n \notin {"text", "stub", "help", "no-clock", "no-lock"}
BY DEF Options, Numbers, Limits, Fills

LEMMA StoredFacts ==
  ASSUME NEW n \in Options, NEW v
  PROVE  /\ n \in Numbers => Stored(n, v) \subseteq Limits[n]
         /\ n \in Fills => NULL \notin Stored(n, v)
         /\ n = "passwd_file" => Stored(n, v) = {v}
<1>1. CASE n \in Numbers
  BY <1>1, Kinds DEF Stored
<1>2. CASE n \in Fills
  BY <1>2, Kinds DEF Stored, OneChar, NULL
<1>3. CASE n = "passwd_file"
  BY <1>3, Kinds DEF Stored
<1> QED
  BY <1>1, <1>2, <1>3, Kinds

LEMMA FillDefaults ==
  /\ \A n \in Fills : Defaults[n] # NULL
  /\ DOMAIN Defaults = Options
<1>1. Defaults["clock_fill"] = "5" /\ Defaults["clock_sleep_fill"] = "2"
  BY Kinds DEF Defaults, Fills
<1> QED
  BY <1>1 DEF Defaults, Fills, NULL

-----------------------------------------------------------------------------
(* What one step does: the words it reads, in order, and what it stores.   *)
(* Of w words read the second is the value of the first.                   *)
Reads(w) ==
    /\ w \in {1, 2}
    /\ IF w = 1
         THEN taken' = Took(<<i>>)
         ELSE /\ taken' = Took(<<i, Plus(i, 1)>>)
              /\ Plus(i, 1) # argc
              /\ Word(Plus(i, 1)).name = "text"
    /\ i' = Plus(i, w)

Value(n, w) == IF w = 1 THEN Word(i).val ELSE Word(Plus(i, 1)).val

Sets(w) ==
    \E n \in Options :
      /\ Word(i).name = n
      /\ (w = 1) <=> Word(i).val # "none"
      /\ Save(n, Value(n, w))

Switches ==
    \E f \in Flags :
      /\ Word(i).name = f \/ f \in StubOf(Word(i))
      /\ \/ f = "help" /\ verdict' = "usage" /\ UNCHANGED args
         \/ /\ f = "no-clock"
            /\ args' = [args EXCEPT !["clock_fill"] = NULL]
            /\ UNCHANGED verdict
         \/ /\ f = "no-lock"
            /\ args' = [args EXCEPT !["passwd_file"] = NULL]
            /\ UNCHANGED verdict

WordStep ==
    /\ verdict = "parsing" /\ i < argc
    /\ \/ Bad
       \/ \E w \in {1, 2} : Reads(w) /\ Sets(w)
       \/ Reads(1) /\ Switches
    /\ UNCHANGED argv

LEMMA StepOfNext == Next => WordStep \/ EndOfWords
<1>1. ASSUME OptionWord
      PROVE  WordStep
  <2> DEFINE n == Word(i).name
  <2>1. n \in Options /\ (JoinedValue(n) \/ NextWord(n))
        /\ verdict = "parsing" /\ i < argc /\ UNCHANGED argv
    BY <1>1 DEF OptionWord
  <2>2. CASE JoinedValue(n)
    <3>1. Reads(1)
      BY <2>2 DEF JoinedValue, Reads
    <3>2. Sets(1)
      BY <2>1, <2>2 DEF JoinedValue, Sets, Value
    <3> QED
      BY <2>1, <3>1, <3>2 DEF WordStep
  <2>3. CASE NextWord(n) /\ ~Bad
    <3>1. Reads(2)
      BY <2>3 DEF NextWord, Reads
    <3>2. Sets(2)
      BY <2>1, <2>3 DEF NextWord, Sets, Value
    <3> QED
      BY <2>1, <3>1, <3>2 DEF WordStep
  <2>4. CASE Bad
    BY <2>1, <2>4 DEF WordStep
  <2> QED
    BY <2>1, <2>2, <2>3, <2>4
<1>2. ASSUME FlagWord
      PROVE  WordStep
  <2>1. PICK f : Flag(f) /\ ((f \in Flags /\ Word(i).name = f) \/ f \in StubOf(Word(i)))
    BY <1>2 DEF FlagWord
  <2>2. f \in Flags
    BY <2>1 DEF StubOf, Flags
  <2>3. Reads(1) /\ Switches
    BY <2>1, <2>2 DEF Flag, Reads, Switches
  <2> QED
    BY <1>2, <2>3 DEF FlagWord, WordStep
<1>3. ASSUME UnknownWord
      PROVE  WordStep
  BY <1>3 DEF UnknownWord, WordStep
<1> QED
  BY <1>1, <1>2, <1>3 DEF Next

-----------------------------------------------------------------------------
(* The invariant holds at the start.                                       *)
LEMMA InitInv == Init => IInv
<1> SUFFICES ASSUME Init
             PROVE  IInv
  OBVIOUS
<1>1. /\ i = 1 /\ args = Defaults /\ verdict = "parsing" /\ taken = <<>>
  BY DEF Init
<1>2. argc \in Nat \ {0}
  <2>1. PICK n \in 0 .. MaxWords : \E words \in [1 .. n -> Words] :
          argv = <<ArgvZero>> \o words
    BY DEF Init
  <2>2. PICK words \in [1 .. n -> Words] : argv = <<ArgvZero>> \o words
    BY <2>1
  <2>3. n \in Nat
    BY <2>1, MaxWordsAssumption
  <2>4. words \in Seq(Words) /\ Len(words) = n
    BY <2>2, <2>3
  <2> DEFINE T == Words \cup {ArgvZero}
  <2>5. words \in Seq(T) /\ <<ArgvZero>> \in Seq(T) /\ Len(<<ArgvZero>>) = 1
    BY <2>2, <2>3
  <2> HIDE DEF T
  <2>6. Len(argv) = 1 + n
    BY <2>2, <2>4, <2>5
  <2> QED
    BY <2>3, <2>6 DEF argc
<1>3. IndexInv
  BY <1>1, <1>2, IndexAssumption DEF IndexInv, AllVerdicts
<1>4. TakenInv
  <2>1. InOrder(1) = <<>>
    BY DEF InOrder
  <2> QED
    BY <1>1, <1>2, <2>1 DEF TakenInv
<1>5. LimitsInv
  BY <1>1, FillDefaults DEF LimitsInv
<1>6. MeansInv
  <2>1. ~NoClock(1)
    BY DEF NoClock
  <2>2. \A n \in Options : Said(n, 1) = {}
    BY DEF Said, Says
  <2>3. args["clock_fill"] # NULL
    BY <1>1, FillDefaults, Kinds
  <2> QED
    BY <1>1, <2>1, <2>2, <2>3 DEF MeansInv, Means, Meant
<1> QED
  BY <1>3, <1>4, <1>5, <1>6 DEF IInv

LEMMA IndexStep == IInv /\ Next => IndexInv'
<1> SUFFICES ASSUME IInv, Next
             PROVE  IndexInv'
  OBVIOUS
<1>1. argc \in Nat \ {0} /\ i \in 0 .. IndexRange - 1 /\ verdict \in AllVerdicts
  BY DEF IInv, IndexInv
<1>2. CASE WordStep
  <2>1. argv' = argv /\ verdict = "parsing"
    BY <1>2 DEF WordStep
  <2>2. CASE Bad
    BY <1>1, <2>1, <2>2 DEF Bad, IndexInv, argc, AllVerdicts
  <2>3. ASSUME NEW w \in {1, 2}, Reads(w)
        PROVE  i' \in 0 .. IndexRange - 1
    BY <1>1, <2>3, PlusRange DEF Reads
  <2>4. CASE \E w \in {1, 2} : Sets(w) \/ Switches
    <3>1. verdict' \in {"parsing", "usage", "bad"}
      BY <2>1, <2>4 DEF Sets, Save, Switches
    <3> QED
      BY <1>1, <1>2, <2>1, <2>2, <2>3, <3>1 DEF WordStep, IndexInv, argc, AllVerdicts
  <2> QED
    BY <1>2, <2>2, <2>4 DEF WordStep
<1>3. CASE EndOfWords
  BY <1>1, <1>3 DEF EndOfWords, IndexInv, argc, AllVerdicts
<1> QED
  BY <1>2, <1>3, StepOfNext

(* Where the index does not wrap a word and its value follow each other.   *)
LEMMA ReadsInOrder ==
  ASSUME IndexInv, TakenInv, Short, verdict = "parsing", i < argc,
         NEW w \in {1, 2}, Reads(w)
  PROVE  /\ i \in 1 .. argc - 1 /\ i' = i + w /\ i + w <= argc
         /\ w = 2 => Plus(i, 1) = i + 1 /\ Word(i + 1).name = "text"
         /\ taken' = InOrder(i + w)
<1>1. /\ i \in 1 .. argc - 1 /\ taken = InOrder(i) /\ argc \in Nat /\ IndexRange \in Nat
      /\ argc < IndexRange
  BY IndexAssumption DEF IndexInv, TakenInv, Going, Short
<1>2. Plus(i, 1) = i + 1
  BY <1>1, PlusInside
<1>3. Took(<<i>>) = InOrder(i + 1) /\ Took(<<i, i + 1>>) = InOrder(i + 2)
  <2>1. i \in Nat \ {0}
    BY <1>1
  <2>2. /\ Len(taken) = i - 1
        /\ taken \o <<i>> = InOrder(i + 1)
        /\ taken \o <<i, i + 1>> = InOrder(i + 2)
    BY <1>1, <2>1, OrderNext
  <2>3. ~(Len(taken) > argc)
    BY <1>1, <2>2
  <2> QED
    BY <2>2, <2>3 DEF Took
<1>4. CASE w = 1
  BY <1>1, <1>2, <1>3, <1>4 DEF Reads
<1>5. CASE w = 2
  <2>1. i + 1 # argc /\ i + 2 <= argc /\ i + 2 < IndexRange
    BY <1>1, <1>2, <1>5 DEF Reads
  <2>2. Plus(i, 2) = i + 2
    BY <1>1, <2>1, PlusInside
  <2> QED
    BY <1>1, <1>2, <1>3, <1>5, <2>1, <2>2 DEF Reads
<1> QED
  BY <1>4, <1>5

LEMMA TakenStep == IInv /\ Next => TakenInv'
<1> SUFFICES ASSUME IInv, Next, Short', Going'
             PROVE  i' \in 1 .. argc' /\ taken' = InOrder(i')
  BY DEF TakenInv, InOrder
<1>1. IndexInv /\ TakenInv /\ argv' = argv
  BY StepOfNext DEF IInv, WordStep, EndOfWords
<1>2. Short /\ argc' = argc /\ argc \in Nat
  BY <1>1 DEF Short, argc, IndexInv
<1>3. CASE WordStep
  <2>1. verdict = "parsing" /\ i < argc
    BY <1>3 DEF WordStep
  <2>2. ~Bad
    BY DEF Bad, Going
  <2>3. PICK w \in {1, 2} : Reads(w)
    BY <1>3, <2>2 DEF WordStep
  <2> QED
    BY <1>1, <1>2, <2>1, <2>3, ReadsInOrder
<1>4. CASE EndOfWords
  BY <1>1, <1>2, <1>4 DEF EndOfWords, TakenInv, Going
<1> QED
  BY <1>3, <1>4, StepOfNext

LEMMA LimitsStep == IInv /\ Next => LimitsInv'
<1> SUFFICES ASSUME IInv, Next
             PROVE  LimitsInv'
  OBVIOUS
<1>1. LimitsInv
  BY DEF IInv
<1>2. ASSUME NEW n \in Options, NEW v, Save(n, v)
      PROVE  LimitsInv'
  <2>1. CASE args' = args
    BY <1>1, <2>1 DEF LimitsInv
  <2>2. ASSUME NEW x \in Stored(n, v), args' = [args EXCEPT ![n] = x]
        PROVE  LimitsInv'
    <3>1. n \in Numbers => x \in Limits[n]
      BY <2>2, StoredFacts
    <3> QED
      BY <1>1, <2>2, <3>1, Kinds DEF LimitsInv
  <2> QED
    BY <1>2, <2>1, <2>2 DEF Save
<1>3. ASSUME Switches
      PROVE  LimitsInv'
  <2>1. "clock_fill" \notin Numbers /\ "passwd_file" \notin Numbers
    BY Kinds
  <2>2. CASE UNCHANGED args
    BY <1>1, <2>2 DEF LimitsInv
  <2>3. ASSUME NEW m \in Options \ Numbers, args' = [args EXCEPT ![m] = NULL]
        PROVE  LimitsInv'
    BY <1>1, <2>3, Kinds DEF LimitsInv
  <2> QED
    BY <1>3, <2>1, <2>2, <2>3, Kinds DEF Switches
<1>4. CASE args' = args
  BY <1>1, <1>4 DEF LimitsInv
<1> QED
  BY <1>2, <1>3, <1>4, StepOfNext DEF WordStep, Bad, EndOfWords, Sets

-----------------------------------------------------------------------------
(* What the words mean, one word later.                                    *)
LEMMA SaidNext ==
  ASSUME argc \in Nat, NEW m \in 1 .. argc - 1, NEW w \in {1, 2},
         m + w <= argc, w = 2 => Word(m + 1).name = "text",
         NEW n \in Options
  PROVE  /\ Said(n, m + w) = Said(n, m) \cup ({m} \cap Says(n))
         /\ Said(n, m) \subseteq 1 .. m - 1
<1>1. Says(n) \subseteq 1 .. argc - 1
  BY DEF Says
<1>2. w = 2 => m + 1 \notin Says(n)
  BY Kinds DEF Says
<1> QED
  BY <1>1, <1>2 DEF Said

LEMMA NoClockNext ==
  ASSUME argc \in Nat, NEW m \in 1 .. argc - 1, NEW w \in {1, 2},
         m + w <= argc, w = 2 => Word(m + 1).name = "text"
  PROVE  NoClock(m + w) <=> NoClock(m) \/ Word(m).name = "no-clock"
<1>1. \A k \in 1 .. m + w - 1 : k \in 1 .. m - 1 \/ k = m \/ (w = 2 /\ k = m + 1)
  OBVIOUS
<1>2. \A k \in 1 .. m - 1 : k \in 1 .. m + w - 1
  OBVIOUS
<1>3. m \in 1 .. m + w - 1
  OBVIOUS
<1> QED
  BY <1>1, <1>2, <1>3 DEF NoClock

(* A word that says something about n decides, one that does not leaves    *)
(* what was meant.                                                         *)
LEMMA MeantNext ==
  ASSUME argc \in Nat, NEW m \in 1 .. argc - 1, NEW w \in {1, 2},
         m + w <= argc, w = 2 => Word(m + 1).name = "text",
         NEW n \in Options, NEW x
  PROVE  /\ m \notin Says(n) /\ Meant(n, m, x) => Meant(n, m + w, x)
         /\ m \in Says(n) /\ x \in Stored(n, ValueAt(m)) => Meant(n, m + w, x)
<1>1. /\ Said(n, m + w) = Said(n, m) \cup ({m} \cap Says(n))
      /\ Said(n, m) \subseteq 1 .. m - 1
  BY SaidNext
<1>2. CASE m \notin Says(n)
  <2>1. Said(n, m + w) = Said(n, m)
    BY <1>1, <1>2
  <2> QED
    BY <1>2, <2>1 DEF Meant, Last
<1>3. CASE m \in Says(n)
  <2>1. Last(n, m + w, m) /\ m \in Said(n, m + w)
    BY <1>1, <1>3 DEF Last
  <2> QED
    BY <1>3, <2>1 DEF Meant
<1> QED
  BY <1>2, <1>3

(* A fill that was set, or never set, is not NULL.                         *)
LEMMA MeantFill ==
  ASSUME NEW n \in Fills, NEW m, NEW x, Meant(n, m, x)
  PROVE  x # NULL
<1>1. n \in Options
  BY Kinds
<1> QED
  BY <1>1, StoredFacts, FillDefaults DEF Meant

LEMMA MeansSet ==
  ASSUME argc \in Nat, NEW m \in 1 .. argc - 1, NEW w \in {1, 2},
         m + w <= argc, w = 2 => Word(m + 1).name = "text",
         NEW a, DOMAIN a = Options, Means(m, a),
         Word(m).name \in Options,
         NEW b,
         \/ Word(m).name \in Fills /\ a[Word(m).name] = NULL /\ b = a
         \/ \E x \in Stored(Word(m).name, ValueAt(m)) :
               ~(Word(m).name \in Fills /\ a[Word(m).name] = NULL)
               /\ b = [a EXCEPT ![Word(m).name] = x]
  PROVE  Means(m + w, b)
<1> DEFINE o == Word(m).name
<1>1. o \in Options /\ o # "no-clock" /\ o # "no-lock"
  BY Kinds
<1>2. NoClock(m + w) <=> NoClock(m)
  BY <1>1, NoClockNext
<1>3. \A n \in Options : m \in Says(n) <=> n = o
  BY <1>1 DEF Says
<1>4. /\ (a["clock_fill"] = NULL) <=> NoClock(m)
      /\ \A n \in Options : (n = "clock_fill" /\ a[n] = NULL) \/ Meant(n, m, a[n])
  BY DEF Means
<1>5. CASE o \in Fills /\ a[o] = NULL /\ b = a
  <2>1. o = "clock_fill"
    BY <1>1, <1>4, <1>5, MeantFill
  <2>2. \A n \in Options : (n = "clock_fill" /\ b[n] = NULL) \/ Meant(n, m + w, b[n])
    BY <1>3, <1>4, <1>5, <2>1, MeantNext
  <2> QED
    BY <1>2, <1>4, <1>5, <2>2 DEF Means
<1>6. ASSUME NEW x \in Stored(o, ValueAt(m)), ~(o \in Fills /\ a[o] = NULL),
             b = [a EXCEPT ![o] = x]
      PROVE  Means(m + w, b)
  <2>1. b[o] = x /\ \A n \in Options : n # o => b[n] = a[n]
    BY <1>1, <1>6
  <2>2. (b["clock_fill"] = NULL) <=> (a["clock_fill"] = NULL)
    <3>1. CASE o = "clock_fill"
      BY <1>1, <1>6, <2>1, <3>1, StoredFacts, Kinds
    <3>2. CASE o # "clock_fill"
      BY <2>1, <3>2, Kinds
    <3> QED
      BY <3>1, <3>2
  <2>3. Meant(o, m + w, b[o])
    BY <1>1, <1>3, <1>6, <2>1, MeantNext
  <2>4. ASSUME NEW n \in Options, n # o
        PROVE  (n = "clock_fill" /\ b[n] = NULL) \/ Meant(n, m + w, b[n])
    BY <1>3, <1>4, <2>1, <2>4, MeantNext
  <2> QED
    BY <1>2, <1>4, <2>2, <2>3, <2>4 DEF Means
<1> QED
  BY <1>1, <1>5, <1>6

LEMMA MeansFlag ==
  ASSUME argc \in Nat, NEW m \in 1 .. argc - 1,
         NEW a, DOMAIN a = Options, Means(m, a), NEW b,
         \/ Word(m).name = "no-clock" /\ b = [a EXCEPT !["clock_fill"] = NULL]
         \/ Word(m).name = "no-lock" /\ b = [a EXCEPT !["passwd_file"] = NULL]
  PROVE  Means(m + 1, b)
<1>1. /\ (a["clock_fill"] = NULL) <=> NoClock(m)
      /\ \A n \in Options : (n = "clock_fill" /\ a[n] = NULL) \/ Meant(n, m, a[n])
  BY DEF Means
<1>2. NoClock(m + 1) <=> NoClock(m) \/ Word(m).name = "no-clock"
  BY NoClockNext
<1>3. ASSUME Word(m).name = "no-clock", b = [a EXCEPT !["clock_fill"] = NULL]
      PROVE  Means(m + 1, b)
  <2>1. b["clock_fill"] = NULL /\ \A n \in Options : n # "clock_fill" => b[n] = a[n]
    BY <1>3, Kinds
  <2>2. \A n \in Options : m \notin Says(n)
    BY <1>3, Kinds DEF Says
  <2>3. \A n \in Options : (n = "clock_fill" /\ b[n] = NULL) \/ Meant(n, m + 1, b[n])
    BY <1>1, <2>1, <2>2, MeantNext
  <2> QED
    BY <1>2, <1>3, <2>1, <2>3 DEF Means
<1>4. ASSUME Word(m).name = "no-lock", b = [a EXCEPT !["passwd_file"] = NULL]
      PROVE  Means(m + 1, b)
  <2>1. b["passwd_file"] = NULL /\ \A n \in Options : n # "passwd_file" => b[n] = a[n]
    BY <1>4, Kinds
  <2>2. \A n \in Options : m \in Says(n) <=> n = "passwd_file"
    BY <1>4, Kinds DEF Says
  <2>3. NULL \in Stored("passwd_file", ValueAt(m))
    BY <1>4, Kinds, StoredFacts DEF ValueAt
  <2>4. Meant("passwd_file", m + 1, NULL)
    BY <2>2, <2>3, Kinds, MeantNext
  <2>5. \A n \in Options : (n = "clock_fill" /\ b[n] = NULL) \/ Meant(n, m + 1, b[n])
    BY <1>1, <2>1, <2>2, <2>4, MeantNext
  <2> QED
    BY <1>1, <1>2, <1>4, <2>1, <2>5, Kinds DEF Means
<1> QED
  BY <1>3, <1>4

LEMMA MeansStep == IInv /\ Next => MeansInv'
<1> SUFFICES ASSUME IInv, Next, Short', Going', Plain'
             PROVE  Means(i, args)'
  BY DEF MeansInv
<1>1. IndexInv /\ TakenInv /\ LimitsInv /\ MeansInv /\ argv' = argv /\ argc \in Nat
  BY StepOfNext DEF IInv, IndexInv, WordStep, EndOfWords
<1>2. Short /\ Plain
  BY <1>1 DEF Short, Plain, argc, Word
<1>3. Going /\ Means(i, args)
  BY <1>1, <1>2, StepOfNext DEF MeansInv, Going, WordStep, EndOfWords
<1>4. Means(i', args') => Means(i, args)'
  BY <1>1 DEF Means, Meant, Said, Last, NoClock, Says, Word, argc, ValueAt
<1>5. CASE EndOfWords
  BY <1>3, <1>4, <1>5 DEF EndOfWords
<1>6. CASE WordStep
  <2>1. verdict = "parsing" /\ i < argc /\ ~Bad
    BY <1>6 DEF WordStep, Bad, Going
  <2>2. ASSUME NEW w \in {1, 2}, Reads(w), NEW n \in Options,
               Word(i).name = n, (w = 1) <=> Word(i).val # "none", Save(n, Value(n, w))
        PROVE  Means(i', args')
    <3>1. /\ i \in 1 .. argc - 1 /\ i' = i + w /\ i + w <= argc
          /\ w = 2 => Plus(i, 1) = i + 1 /\ Word(i + 1).name = "text"
      BY <1>1, <1>2, <2>1, <2>2, ReadsInOrder
    <3>2. Value(n, w) = ValueAt(i)
      BY <2>2, <3>1, Kinds DEF Value, ValueAt
    <3>3. verdict' # "bad"
      BY DEF Going
    <3>4. \/ n \in Fills /\ args[n] = NULL /\ args' = args
          \/ \E x \in Stored(n, ValueAt(i)) :
                ~(n \in Fills /\ args[n] = NULL) /\ args' = [args EXCEPT ![n] = x]
      BY <2>2, <3>2, <3>3 DEF Save
    <3>5. /\ DOMAIN args = Options /\ Word(i).name \in Options
          /\ w = 2 => Word(i + 1).name = "text"
      BY <1>1, <2>2, <3>1 DEF LimitsInv
    <3>6. Means(i + w, args')
      BY <1>1, <1>3, <2>2, <3>1, <3>4, <3>5, MeansSet
    <3> QED
      BY <3>1, <3>6
  <2>3. ASSUME Reads(1), Switches
        PROVE  Means(i', args')
    <3>1. i \in 1 .. argc - 1 /\ i' = i + 1
      BY <1>1, <1>2, <2>1, <2>3, ReadsInOrder
    <3>2. StubOf(Word(i)) = {}
      BY <1>2, <3>1 DEF Plain, StubOf
    <3>3. \/ Word(i).name = "no-clock" /\ args' = [args EXCEPT !["clock_fill"] = NULL]
          \/ Word(i).name = "no-lock" /\ args' = [args EXCEPT !["passwd_file"] = NULL]
      BY <2>3, <3>2 DEF Switches, Going
    <3> QED
      BY <1>1, <1>3, <3>1, <3>3, MeansFlag DEF LimitsInv
  <2> QED
    BY <1>4, <1>6, <2>1, <2>2, <2>3 DEF WordStep, Sets
<1> QED
  BY <1>5, <1>6, StepOfNext

LEMMA Invariance == Spec => []IInv
<1>1. IInv /\ [Next]_vars => IInv'
  <2>1. CASE Next
    BY <2>1, IndexStep, TakenStep, LimitsStep, MeansStep DEF IInv
  <2>2. CASE UNCHANGED vars
    <3>1. UNCHANGED <<argv, i, args, verdict, taken>>
      BY <2>2 DEF vars
    <3>2. IndexInv' = IndexInv /\ TakenInv' = TakenInv /\ LimitsInv' = LimitsInv
      BY <3>1 DEF IndexInv, TakenInv, LimitsInv, Short, Going, argc
    <3>3. MeansInv' = MeansInv
      <4>1. Means(i, args)' = Means(i, args)
        BY <3>1 DEF Means, Meant, Said, Last, NoClock, Says, Word, argc, ValueAt
      <4>2. (Short /\ Going /\ Plain)' = (Short /\ Going /\ Plain)
        BY <3>1 DEF Short, Going, Plain, Word, argc
      <4> QED
        BY <4>1, <4>2 DEF MeansInv
    <3> QED
      BY <3>2, <3>3 DEF IInv
  <2> QED
    BY <2>1, <2>2
<1> QED
  BY <1>1, InitInv, PTL DEF Spec

-----------------------------------------------------------------------------
(* Every number handed to actual_main is in the limits main gave for it,   *)
(* or its default, and the index stays a uint8_t.                          *)
THEOREM TypeCorrect == Spec => []TypeOK
<1>1. IInv => TypeOK
  BY DEF IInv, IndexInv, LimitsInv, AllVerdicts, TypeOK
<1> QED
  BY <1>1, Invariance, PTL

(* A command line that is run had each of its words used once, in order:   *)
(* one too long for the index is never run.                                *)
THEOREM UsesWordsOnce == Spec => []WordsOnce
<1>1. ASSUME IInv, verdict = "run"
      PROVE  taken = [k \in 1 .. argc - 1 |-> k]
  <2>1. i >= argc /\ i \in 0 .. IndexRange - 1 /\ argc \in Nat
    BY <1>1 DEF IInv, IndexInv
  <2>2. Short
    BY <2>1, IndexAssumption DEF Short
  <2>3. i = argc /\ taken = InOrder(i)
    BY <1>1, <2>1, <2>2 DEF IInv, TakenInv, Going
  <2> QED
    BY <2>3 DEF InOrder
<1>2. IInv => WordsOnce
  BY <1>1 DEF WordsOnce
<1> QED
  BY <1>2, Invariance, PTL

(* A command line that is run means what its words say, the last of        *)
(* several about one option, for command lines of any length.              *)
THEOREM MeansWhatItSays == Spec => []LastWins
<1>1. ASSUME IInv, verdict = "run", Plain
      PROVE  /\ (args["clock_fill"] = NULL)
                   <=> \E k \in 1 .. argc - 1 : Word(k).name = "no-clock"
             /\ \A n \in Options :
                  LET last == CHOOSE k \in Says(n) : \A j \in Says(n) : j <= k
                  IN  \/ n = "clock_fill" /\ args[n] = NULL
                      \/ Says(n) = {} /\ args[n] = Defaults[n]
                      \/ Says(n) # {} /\ args[n] \in Stored(n, ValueAt(last))
  <2>1. i >= argc /\ i \in 0 .. IndexRange - 1 /\ argc \in Nat
    BY <1>1 DEF IInv, IndexInv
  <2>2. Short
    BY <2>1, IndexAssumption DEF Short
  <2>3. i = argc /\ Means(argc, args)
    BY <1>1, <2>1, <2>2 DEF IInv, TakenInv, MeansInv, Going
  <2>4. (args["clock_fill"] = NULL)
           <=> \E k \in 1 .. argc - 1 : Word(k).name = "no-clock"
    BY <2>3 DEF Means, NoClock
  <2>5. ASSUME NEW n \in Options
        PROVE  LET last == CHOOSE k \in Says(n) : \A j \in Says(n) : j <= k
               IN  \/ n = "clock_fill" /\ args[n] = NULL
                   \/ Says(n) = {} /\ args[n] = Defaults[n]
                   \/ Says(n) # {} /\ args[n] \in Stored(n, ValueAt(last))
    <3> DEFINE last == CHOOSE k \in Says(n) : \A j \in Says(n) : j <= k
    <3>1. Says(n) \subseteq 1 .. argc - 1 /\ Said(n, argc) = Says(n)
      BY <2>1 DEF Says, Said
    <3>2. (n = "clock_fill" /\ args[n] = NULL) \/ Meant(n, argc, args[n])
      BY <2>3 DEF Means
    <3>3. ASSUME NEW k \in Says(n), Last(n, argc, k)
          PROVE  last = k
      <4>1. last \in Says(n) /\ \A j \in Says(n) : j <= last
        BY <3>1, <3>3 DEF Last
      <4>2. k <= last /\ last <= k /\ k \in Int /\ last \in Int
        BY <2>1, <3>1, <3>3, <4>1 DEF Last
      <4> HIDE DEF last
      <4> QED
        BY <4>2
    <3> HIDE DEF last
    <3>4. \/ n = "clock_fill" /\ args[n] = NULL
          \/ Says(n) = {} /\ args[n] = Defaults[n]
          \/ Says(n) # {} /\ args[n] \in Stored(n, ValueAt(last))
      BY <3>1, <3>2, <3>3 DEF Meant
    <3> QED
      BY <3>4 DEF last
  <2> QED
    BY <2>4, <2>5
<1>2. IInv => LastWins
  BY <1>1 DEF LastWins
<1> QED
  BY <1>2, Invariance, PTL
=============================================================================
