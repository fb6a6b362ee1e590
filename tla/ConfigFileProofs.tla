-------------------------- MODULE ConfigFileProofs --------------------------
(***************************************************************************)
(* Theorems about the reader and the configuration, for every file, every   *)
(* PARSER_READ_LEN and every width of int.                                  *)
(***************************************************************************)
EXTENDS ConfigFile, SequenceTheorems, FiniteSetTheorems, FunctionTheorems, WellFoundedInduction, TLAPS

----------------------------------------------------------------------------
(* The reader.                                                              *)

\* A set of natural numbers that is not empty has a first one, and a last one if
\* it is bounded.
LEMMA FirstOf ==
  ASSUME NEW S, S \subseteq Nat, S # {}
  PROVE  Min(S) \in S /\ \A k \in S : Min(S) <= k
PROOF
  <1> DEFINE less == OpToRel(<, Nat)
  <1>1. PICK m \in S : \A k \in S : <<k, m>> \notin less
    BY NatLessThanWellFounded, WFMin
  <1>2. \A k \in S : ~(k < m)
    BY <1>1, Zenon DEF OpToRel
  <1>3. \A k \in S : m <= k
    BY <1>2
  <1> QED  BY <1>3 DEF Min

\* A nonempty set of numbers up to n has a greatest.
LEMMA LastOf ==
  ASSUME NEW n \in Nat, NEW S, S \subseteq 0 .. n, S # {}
  PROVE  \E m \in S : \A k \in S : k <= m
PROOF
  <1> DEFINE T == {n - k : k \in S}
  <1>0. \A k \in S : k \in Nat /\ k <= n
    OBVIOUS
  <1>1. T \subseteq Nat /\ T # {}
    <2>1. \A k \in S : n - k \in Nat
      BY <1>0
    <2>2. PICK k \in S : TRUE
      OBVIOUS
    <2> QED  BY <2>1, <2>2
  <1>2. Min(T) \in T /\ \A k \in T : Min(T) <= k
    <2> HIDE DEF T
    <2> QED  BY <1>1, FirstOf
  <1>3. PICK m \in S : Min(T) = n - m
    BY <1>2
  <1>4. \A k \in S : n - m <= n - k
    BY <1>2, <1>3
  <1>5. \A k \in S : k <= m
    BY <1>0, <1>4
  <1> QED  BY <1>5

\* strchr() cuts a string short and makes none longer.
LEMMA BeforeShortens ==
  ASSUME NEW S, NEW s \in Seq(S), NEW D
  PROVE  Before(s, D) \in Seq(S) /\ Len(Before(s, D)) <= Len(s)
PROOF
  <1> DEFINE ends == {k \in DOMAIN s : s[k] \in D}
  <1>1. Len(s) \in Nat /\ DOMAIN s = 1 .. Len(s)
    BY LenProperties
  <1>2. CASE ends = {}
    BY <1>1, <1>2 DEF Before
  <1>3. CASE ends # {}
    <2>1. ends \subseteq Nat
      BY <1>1
    <2> DEFINE less == OpToRel(<, Nat)
    <2>2. PICK m \in ends : \A k \in ends : <<k, m>> \notin less
      <3> HIDE DEF ends
      <3> QED  BY <1>3, <2>1, NatLessThanWellFounded, WFMin
    <2>3. \A k \in ends : ~(k < m)
      BY <2>1, <2>2, Zenon DEF OpToRel
    <2>4. Min(ends) \in 1 .. Len(s)
      BY <1>1, <2>1, <2>3 DEF Min
    <2>5. \A i \in 1 .. Min(ends) - 1 : s[i] \in S
      BY <1>1, <2>4, ElementOfSeq
    <2> HIDE DEF ends
    <2>6. /\ SubSeq(s, 1, Min(ends) - 1) \in Seq(S)
          /\ Len(SubSeq(s, 1, Min(ends) - 1)) <= Len(s)
      BY <1>1, <2>4, <2>5, SubSeqProperties
    <2>7. Before(s, D) = SubSeq(s, 1, Min(ends) - 1)
      BY <1>3 DEF Before, ends
    <2> QED  BY <2>6, <2>7
  <1> QED  BY <1>2, <1>3

\* fgets() leaves room for its NUL.
LEMMA FgetsFits ==
  ASSUME NEW S, NEW s \in Seq(S), NEW n \in Nat, n >= 2
  PROVE  Fgets(s, n) \in Seq(S) /\ Len(Fgets(s, n)) \in 0 .. n - 1
PROOF
  <1> DEFINE stop(line, len) == IF line = len /\ line < n THEN line
                                ELSE IF line < n - 1 THEN line + 1
                                ELSE n - 1
             line0 == Len(Before(s, {Newline}))
  <1>1. Len(s) \in Nat /\ DOMAIN s = 1 .. Len(s)
    BY LenProperties
  <1>2. line0 \in Nat /\ line0 <= Len(s)
    BY BeforeShortens, LenProperties
  <1>3. Fgets(s, n) = SubSeq(s, 1, stop(line0, Len(s)))
    BY DEF Fgets
  <1>4. ASSUME NEW line \in Nat, NEW len \in Nat, line <= len
        PROVE  stop(line, len) \in 0 .. n - 1 /\ stop(line, len) <= len
    BY <1>4
  <1> DEFINE end == stop(line0, Len(s))
  <1>5. end \in 0 .. n - 1 /\ end <= Len(s)
    <2> HIDE DEF stop, line0
    <2> QED  BY <1>1, <1>2, <1>4
  <1> HIDE DEF stop, end
  <1>6. \A i \in 1 .. end : s[i] \in S
    BY <1>1, <1>5, ElementOfSeq
  <1>7. /\ SubSeq(s, 1, end) \in Seq(S)
        /\ Len(SubSeq(s, 1, end)) = IF 1 <= end THEN end - 1 + 1 ELSE 0
    BY <1>5, <1>6, SubSeqProperties
  <1>8. Fgets(s, n) = SubSeq(s, 1, end)
    BY <1>3 DEF end
  <1> QED  BY <1>5, <1>7, <1>8

\* The C string and its NUL always fit, and so did the last read.
ReaderInv ==
  /\ rest \in Seq(Byte) /\ buffer \in Seq(Byte)
  /\ length \in Nat /\ written \in Nat
  /\ Len(buffer) < length
  /\ written <= length

\* One more round keeps it: after the realloc() there is room for ReadLen bytes
\* behind the C string, whatever its length.
LEMMA FillFits ==
  ASSUME ReaderInv, Fill
  PROVE  ReaderInv'
PROOF
  <1> DEFINE chunk == Fgets(rest, ReadLen)
             size  == IF length - Len(buffer) < ReadLen THEN length + ReadLen ELSE length
             text  == Before(buffer \o chunk, {Nul})
  <1>1. ReadLen \in Nat /\ ReadLen >= 2
    BY ReaderAssumption
  <1>2. Len(buffer) \in Nat /\ Len(rest) \in Nat /\ DOMAIN rest = 1 .. Len(rest)
    BY LenProperties DEF ReaderInv
  <1>3. chunk \in Seq(Byte) /\ Len(chunk) \in 0 .. ReadLen - 1
    BY <1>1, FgetsFits DEF ReaderInv
  <1>4. /\ buffer' = Before(text, {Newline})
        /\ length' = size
        /\ written' = IF rest = <<>> THEN written ELSE Len(buffer) + Len(chunk) + 1
        /\ rest' = SubSeq(rest, Len(chunk) + 1, Len(rest))
    BY DEF Fill, FillWith
  <1> HIDE DEF chunk
  <1>5. size \in Nat /\ length <= size /\ Len(buffer) + ReadLen <= size
    BY <1>1, <1>2 DEF ReaderInv
  <1> HIDE DEF size
  <1>6. buffer \o chunk \in Seq(Byte) /\ Len(buffer \o chunk) = Len(buffer) + Len(chunk)
    BY <1>3, ConcatProperties DEF ReaderInv
  <1>7. text \in Seq(Byte) /\ Len(text) <= Len(buffer \o chunk)
    BY <1>6, BeforeShortens
  <1> HIDE DEF text
  <1>8. buffer' \in Seq(Byte) /\ Len(buffer') <= Len(text)
    BY <1>4, <1>7, BeforeShortens
  <1>9. Len(text) \in Nat /\ Len(buffer') \in Nat
    BY <1>7, <1>8, LenProperties
  <1>10. rest' \in Seq(Byte)
    <2>1. \A i \in Len(chunk) + 1 .. Len(rest) : rest[i] \in Byte
      BY <1>2, <1>3, ElementOfSeq DEF ReaderInv
    <2> QED  BY <1>2, <1>3, <1>4, <2>1, SubSeqProperties
  <1>11. Len(buffer') < length'
    BY <1>1, <1>2, <1>3, <1>4, <1>5, <1>6, <1>7, <1>8, <1>9
  <1>12. written' \in Nat /\ written' <= length'
    BY <1>1, <1>2, <1>3, <1>4, <1>5 DEF ReaderInv
  <1> QED  BY <1>4, <1>5, <1>8, <1>10, <1>11, <1>12 DEF ReaderInv

\* Every step keeps it: a new line gets a new buffer, and nothing else than
\* Fill() touches one.
LEMMA StepFits ==
  ASSUME ReaderInv, [ConfigNext]_vars
  PROVE  ReaderInv'
PROOF
  <1>1. ASSUME NewBuffer, rest' = rest
        PROVE  ReaderInv'
    BY <1>1, ReaderAssumption, EmptySeq DEF ReaderInv, NewBuffer
  <1>2. ASSUME UNCHANGED <<rest, buffer, length, written>>
        PROVE  ReaderInv'
    BY <1>2 DEF ReaderInv
  <1>3. CASE Fill
    BY <1>3, FillFits
  <1>4. CASE SkipLine
    BY <1>1, <1>4 DEF SkipLine
  <1>5. CASE ReturnPair
    BY <1>2, <1>5 DEF ReturnPair
  <1>6. ASSUME NEW name \in Single, ParseSingle(name)
        PROVE  ReaderInv'
    BY <1>1, <1>2, <1>6 DEF ParseSingle, NextPair
  <1>7. ASSUME NEW name \in Merged, ParseMerged(name)
        PROVE  ReaderInv'
    BY <1>1, <1>7 DEF ParseMerged, NextPair
  <1>8. CASE ParseUnknown \/ ParseNoKey \/ EndOfFile \/ Cleanup
    BY <1>2, <1>8 DEF ParseUnknown, ParseNoKey, EndOfFile, Cleanup
  <1>9. CASE UNCHANGED vars
    BY <1>2, <1>9 DEF vars, reader_vars
  <1> QED
    BY <1>3, <1>4, <1>5, <1>6, <1>7, <1>8, <1>9 DEF ConfigNext, ReadNextPair

\* fgets() never writes behind the line buffer of parser.c, whatever
\* PARSER_READ_LEN is and however long the lines of the file are.
THEOREM BufferSuffices == Spec => []NoOverrun
PROOF
  <1>1. ConfigInit => ReaderInv
    BY ReaderAssumption, EmptySeq DEF ConfigInit, ReaderInit, ReaderInv
  <1>2. ReaderInv /\ [ConfigNext]_vars => ReaderInv'
    BY StepFits
  <1>3. ReaderInv => NoOverrun
    BY DEF ReaderInv, NoOverrun
  <1> QED  BY <1>1, <1>2, <1>3, PTL DEF Spec

----------------------------------------------------------------------------
(* The timeout.                                                             *)

\* A positive int is stored as it is; a positive product may wrap, but only
\* downwards.
LEMMA ToIntKeeps ==
  ASSUME NEW n \in 0 .. IntHalf - 1
  PROVE  ToInt(n) = n
PROOF
  <1>1. IntHalf \in Nat /\ IntHalf > 0
    BY ConfigFileAssumption
  <1> DEFINE m == 2 * IntHalf
  <1>2. m \in Nat /\ m > 0 /\ n + IntHalf \in 0 .. m - 1
    BY <1>1
  <1>3. (n + IntHalf) % m = n + IntHalf
    <2> HIDE DEF m
    <2> QED  BY <1>1, <1>2
  <1> QED  BY <1>1, <1>3 DEF ToInt

\* Storing a number in an int never makes it larger.
LEMMA ToIntShrinks ==
  ASSUME NEW n \in Nat
  PROVE  ToInt(n) <= n
PROOF
  <1>1. IntHalf \in Nat /\ IntHalf > 0
    BY ConfigFileAssumption
  <1>2. ASSUME NEW a \in Nat, NEW b \in Nat, b > 0
        PROVE  a % b \in Int /\ a % b <= a
    BY <1>2
  <1>3. n + IntHalf \in Nat /\ 2 * IntHalf \in Nat /\ 2 * IntHalf > 0
    BY <1>1
  <1>4. (n + IntHalf) % (2 * IntHalf) \in Int /\ (n + IntHalf) % (2 * IntHalf) <= n + IntHalf
    BY <1>2, <1>3
  <1> QED  BY <1>1, <1>4 DEF ToInt

\* A pair more: those before it stay where they are.
LEMMA OnePairMore ==
  ASSUME NEW S, NEW s \in Seq(S), NEW p
  PROVE  /\ Append(s, p) \in Seq(S \cup {p})
         /\ DOMAIN Append(s, p) = DOMAIN s \cup {Len(s) + 1}
         /\ \A k \in DOMAIN s : Append(s, p)[k] = s[k]
         /\ Append(s, p)[Len(s) + 1] = p
         /\ Len(Append(s, p)) = Len(s) + 1
PROOF
  <1>1. s \in Seq(S \cup {p})
    BY SeqMonotonic
  <1>2. Len(s) \in Nat /\ DOMAIN s = 1 .. Len(s)
    BY LenProperties
  <1>3. /\ Append(s, p) \in Seq(S \cup {p})
        /\ Len(Append(s, p)) = Len(s) + 1
        /\ \A i \in 1 .. Len(s) : Append(s, p)[i] = s[i]
        /\ Append(s, p)[Len(s) + 1] = p
    BY <1>1, AppendProperties
  <1>4. DOMAIN Append(s, p) = 1 .. Len(s) + 1
    BY <1>3, LenProperties
  <1> QED  BY <1>2, <1>3, <1>4

Timeout == "authentication_timeout"

\* The k-th line has been taken into struct config.
Recorded(k) ==
  /\ Timeout \in is_set
  /\ config.authentication_timeout = ToInt(Atol(handed[k].values[1]))

\* A line that has not been taken in is the one at hand, or the file is refused.
TimeoutInv ==
  /\ \E S : handed \in Seq(S)
  /\ DOMAIN config = DOMAIN NoConfig
  /\ pc = "pair" => Len(handed) \in DOMAIN handed /\ pair = handed[Len(handed)]
  /\ \A k \in With(handed, Timeout) :
       \/ pc = "pair" /\ k = Len(handed)
       \/ pc \in {"cleanup", "rejected"} /\ status = "failure"
       \/ pc = "crashed"
       \/ Recorded(k)

\* A line handed over is not on record yet, so the record stands.
LEMMA ReturnPairRecords ==
  ASSUME TimeoutInv, ReturnPair, UNCHANGED <<config, is_set, status>>
  PROVE  TimeoutInv'
PROOF
  <1>1. PICK S : handed \in Seq(S)
    BY DEF TimeoutInv
  <1>2. /\ pc = "line" /\ pc' = "pair"
        /\ handed' = Append(handed, pair')
    BY DEF ReturnPair
  <1>3. /\ handed' \in Seq(S \cup {pair'})
        /\ DOMAIN handed' = DOMAIN handed \cup {Len(handed) + 1}
        /\ \A k \in DOMAIN handed : handed'[k] = handed[k]
        /\ handed'[Len(handed) + 1] = pair'
        /\ Len(handed') = Len(handed) + 1
    BY <1>1, <1>2, OnePairMore
  <1>4. ASSUME NEW k \in With(handed', Timeout)
        PROVE  (pc' = "pair" /\ k = Len(handed')) \/ Recorded(k)'
    <2>1. CASE k = Len(handed) + 1
      BY <1>2, <1>3, <2>1
    <2>2. CASE k \in DOMAIN handed
      <3>1. k \in With(handed, Timeout)
        BY <1>3, <2>2 DEF With
      <3>2. Recorded(k)
        BY <1>2, <3>1 DEF TimeoutInv
      <3> QED  BY <1>3, <2>2, <3>2 DEF Recorded
    <2> QED  BY <1>3, <1>4, <2>1, <2>2 DEF With
  <1> QED  BY <1>2, <1>3, <1>4 DEF TimeoutInv

\* A directive that may occur once leaves on record what was stored for it.
LEMMA ParseSingleRecords ==
  ASSUME TimeoutInv, NEW name \in Single, ParseSingle(name)
  PROVE  TimeoutInv'
PROOF
  <1>1. /\ pc = "pair" /\ pair.key = <<name>> /\ handed' = handed
        /\ Len(handed) \in DOMAIN handed /\ pair = handed[Len(handed)]
    BY DEF ParseSingle, Named, TimeoutInv
  <1>2. CASE ~ValidSingle(name, pair.values)
    <2>1. pc' = "cleanup" /\ status' = "failure" /\ config' = config
      BY <1>2 DEF ParseSingle, Stop
    <2> QED  BY <1>1, <2>1 DEF TimeoutInv
  <1>3. CASE ValidSingle(name, pair.values)
    <2>1. /\ config' = [config EXCEPT ![name] = Convert(name, pair.values[1])]
          /\ is_set' = is_set \cup {name}
          /\ pc' = "fill"
          /\ name \notin is_set
      BY <1>3 DEF ParseSingle, NextPair, ValidSingle
    <2>2. Timeout \in DOMAIN config
      BY DEF TimeoutInv, NoConfig, Timeout
    <2>3. DOMAIN config' = DOMAIN config
      BY <2>1
    <2>4. ASSUME NEW k \in With(handed, Timeout)
          PROVE  Recorded(k)'
      <3>1. CASE k = Len(handed)
        <4>1. name = Timeout
          BY <1>1, <2>4, <3>1 DEF With
        <4>2. config'.authentication_timeout = ToInt(Atol(pair.values[1]))
          BY <2>1, <2>2, <4>1 DEF Convert, Timeout
        <4> QED  BY <1>1, <2>1, <3>1, <4>1, <4>2 DEF Recorded
      <3>2. CASE k # Len(handed)
        <4>1. Recorded(k)
          BY <1>1, <2>4, <3>2 DEF TimeoutInv
        <4>2. name # Timeout
          BY <2>1, <4>1 DEF Recorded
        <4>3. config'.authentication_timeout = config.authentication_timeout
          BY <2>1, <2>2, <4>2 DEF Timeout
        <4> QED  BY <1>1, <2>1, <4>1, <4>3 DEF Recorded
      <3> QED  BY <3>1, <3>2
    <2> QED  BY <1>1, <2>1, <2>3, <2>4 DEF TimeoutInv
  <1> QED  BY <1>2, <1>3

\* A directive that accumulates changes nothing on record.
LEMMA ParseMergedRecords ==
  ASSUME TimeoutInv, NEW name \in Merged, ParseMerged(name)
  PROVE  TimeoutInv'
PROOF
  <1>1. /\ pc = "pair" /\ pair.key = <<name>> /\ handed' = handed
        /\ Len(handed) \in DOMAIN handed /\ pair = handed[Len(handed)]
        /\ config' = [config EXCEPT ![name] = @ \o pair.values]
        /\ is_set' = is_set /\ pc' = "fill"
    BY DEF ParseMerged, Named, NextPair, TimeoutInv
  <1>2. name # Timeout
    BY DEF Merged, Timeout
  <1>3. Timeout \in DOMAIN config
    BY DEF TimeoutInv, NoConfig, Timeout
  <1>4. config'.authentication_timeout = config.authentication_timeout
    BY <1>1, <1>2, <1>3 DEF Timeout
  <1>5. ASSUME NEW k \in With(handed, Timeout)
        PROVE  Recorded(k)'
    <2>1. k # Len(handed)
      BY <1>1, <1>2, <1>5 DEF With
    <2>2. Recorded(k)
      BY <1>1, <1>5, <2>1 DEF TimeoutInv
    <2> QED  BY <1>1, <1>4, <2>2 DEF Recorded
  <1>6. DOMAIN config' = DOMAIN config
    BY <1>1
  <1> QED  BY <1>1, <1>5, <1>6 DEF TimeoutInv

\* Every step of the reader and of parse_file() keeps the record.
LEMMA StepRecords ==
  ASSUME TimeoutInv, [ConfigNext]_vars
  PROVE  TimeoutInv'
PROOF
  <1>1. ASSUME pc # "pair", pc' \notin {"pair", "cleanup", "rejected"}, pc \notin {"cleanup", "rejected", "crashed"},
               UNCHANGED <<handed, config, is_set, status>>
        PROVE  TimeoutInv'
    BY <1>1 DEF TimeoutInv, Recorded
  <1>2. CASE (Fill \/ SkipLine) /\ UNCHANGED <<config, is_set, status>>
    BY <1>1, <1>2 DEF Fill, FillWith, SkipLine
  <1>3. CASE ReturnPair /\ UNCHANGED <<config, is_set, status>>
    BY <1>3, ReturnPairRecords
  <1>4. ASSUME NEW name \in Single, ParseSingle(name)
        PROVE  TimeoutInv'
    BY <1>4, ParseSingleRecords
  <1>5. ASSUME NEW name \in Merged, ParseMerged(name)
        PROVE  TimeoutInv'
    BY <1>5, ParseMergedRecords
  <1>6. CASE ParseUnknown \/ ParseNoKey
    BY <1>6 DEF ParseUnknown, ParseNoKey, Stop, TimeoutInv
  <1>7. CASE EndOfFile
    BY <1>7 DEF EndOfFile, Stop, TimeoutInv, Recorded
  <1>8. CASE Cleanup
    BY <1>8 DEF Cleanup, TimeoutInv, Recorded
  <1>9. CASE UNCHANGED vars
    BY <1>9 DEF vars, reader_vars, TimeoutInv, Recorded
  <1> QED
    BY <1>2, <1>3, <1>4, <1>5, <1>6, <1>7, <1>8, <1>9 DEF ConfigNext, ReadNextPair

\* No accepted timeout lets a login pass that the administrator's number of
\* minutes refuses, whatever the width of int and wherever the product wraps.
THEOREM TimeoutNeverLaxer == Spec => []NeverLaxer
PROOF
  <1>1. ConfigInit => TimeoutInv
    <2> SUFFICES ASSUME ConfigInit PROVE TimeoutInv
      OBVIOUS
    <2>1. handed = <<>> /\ config = NoConfig /\ pc = "fill"
      BY DEF ConfigInit, ReaderInit
    <2>2. handed \in Seq({}) /\ DOMAIN handed = {}
      BY <2>1, EmptySeq
    <2> QED  BY <2>1, <2>2 DEF TimeoutInv, With
  <1>2. TimeoutInv /\ [ConfigNext]_vars => TimeoutInv'
    BY StepRecords
  <1>3. TimeoutInv => NeverLaxer
    <2> SUFFICES ASSUME TimeoutInv, pc = "accepted",
                        NEW k \in With(handed, "authentication_timeout"),
                        NEW minutes \in 1 .. IntHalf - 1,
                        minutes = Atol(handed[k].values[1])
                 PROVE  /\ config.authentication_timeout # 0
                        /\ \A limit \in Limits(config.authentication_timeout) :
                             limit <= Minute * minutes
      BY DEF NeverLaxer
    <2>1. IntHalf \in Nat /\ Minute \in Nat
      BY ConfigFileAssumption
    <2>2. config.authentication_timeout = ToInt(minutes)
      BY DEF TimeoutInv, Recorded, Timeout
    <2>3. config.authentication_timeout = minutes
      BY <2>1, <2>2, ToIntKeeps
    <2>4. Minute * minutes \in Nat
      BY <2>1
    <2>5. ToInt(Minute * minutes) <= Minute * minutes
      BY <2>4, ToIntShrinks
    <2> QED  BY <2>3, <2>4, <2>5 DEF Limits
  <1> QED  BY <1>1, <1>2, <1>3, PTL DEF Spec

----------------------------------------------------------------------------
(* The words of a line, and the values that accumulate.                     *)

\* The elements of S up to i, and the k-th element, as Runs() counts them.
UpTo(S, i) == {j \in S : j <= i}
Nth(S, k)  == CHOOSE i \in S : Cardinality({j \in S : j <= i}) = k

\* A set of numbers up to n is finite, and so is what it holds up to any i.
LEMMA UpToFinite ==
  ASSUME NEW n \in Nat, NEW S, S \subseteq 1 .. n
  PROVE  /\ IsFiniteSet(S) /\ Cardinality(S) \in Nat
         /\ \A i : IsFiniteSet(UpTo(S, i)) /\ Cardinality(UpTo(S, i)) \in Nat
PROOF
  <1>1. IsFiniteSet(1 .. n)
    BY FS_Interval
  <1>2. \A T \in SUBSET (1 .. n) : IsFiniteSet(T) /\ Cardinality(T) \in Nat
    BY <1>1, FS_Subset, FS_CardinalityType
  <1>3. \A i : UpTo(S, i) \in SUBSET (1 .. n)
    BY DEF UpTo
  <1> QED  BY <1>2, <1>3

\* A set has a k-th element for each k up to its size.
LEMMA NthThere ==
  ASSUME NEW n \in Nat, NEW S, S \subseteq 1 .. n, NEW k \in 1 .. Cardinality(S)
  PROVE  Nth(S, k) \in S /\ Cardinality(UpTo(S, Nth(S, k))) = k
PROOF
  <1>1. /\ IsFiniteSet(S) /\ Cardinality(S) \in Nat
        /\ \A i : IsFiniteSet(UpTo(S, i)) /\ Cardinality(UpTo(S, i)) \in Nat
    BY UpToFinite
  <1>0. \A i \in S : i \in Nat /\ i \in 1 .. n
    OBVIOUS
  <1> DEFINE T == {i \in S : Cardinality(UpTo(S, i)) >= k}
  <1>2. S # {}
    BY <1>1, FS_EmptySet
  <1>3. PICK last \in S : \A j \in S : j <= last
    <2>1. S \subseteq 0 .. n
      BY <1>0
    <2> QED  BY <1>2, <2>1, LastOf
  <1>4. UpTo(S, last) = S
    BY <1>0, <1>3 DEF UpTo
  <1>5. last \in T
    BY <1>1, <1>4
  <1> DEFINE m == Min(T)
  <1>6. m \in T /\ \A i \in T : m <= i
    <2>1. T \subseteq Nat /\ T # {}
      BY <1>0, <1>5
    <2> HIDE DEF T
    <2> QED  BY <2>1, FirstOf
  <1> HIDE DEF m
  <1>7. m \in S /\ Cardinality(UpTo(S, m)) >= k
    BY <1>6
  <1>8. CASE Cardinality(UpTo(S, m)) = k
    BY <1>7, <1>8 DEF Nth, UpTo
  <1>9. CASE Cardinality(UpTo(S, m)) > k
    <2> DEFINE U == UpTo(S, m) \ {m}
    <2>1. m \in UpTo(S, m)
      BY <1>7 DEF UpTo
    <2>2. IsFiniteSet(U) /\ Cardinality(U) = Cardinality(UpTo(S, m)) - 1
      BY <1>1, <2>1, FS_RemoveElement
    <2>3. Cardinality(U) >= k /\ U # {}
      <3>1. Cardinality(U) >= k
        BY <1>1, <1>9, <2>2
      <3> HIDE DEF U
      <3> QED  BY <2>2, <3>1, FS_EmptySet
    <2>4. U \subseteq S /\ U \subseteq 0 .. n
      <3>1. U \subseteq S
        BY DEF UpTo
      <3>2. \A i \in S : i \in 0 .. n
        BY <1>0
      <3> HIDE DEF U
      <3> QED  BY <3>1, <3>2
    <2>5. PICK i \in U : \A j \in U : j <= i
      <3> HIDE DEF U
      <3> QED  BY <2>3, <2>4, LastOf
    <2>6. UpTo(S, i) = U
      <3>1. \A j \in U : j \in S /\ j <= m /\ j # m /\ j <= i
        BY <2>5 DEF UpTo
      <3>2. i \in S /\ m \in S /\ i <= m /\ i # m
        BY <1>7, <3>1
      <3>3. \A j \in S : j <= i => j <= m /\ j # m
        BY <1>0, <3>2
      <3>4. \A j \in S : j \in U <=> j <= m /\ j # m
        BY DEF UpTo
      <3>5. \A j \in S : j \in U <=> j <= i
        BY <3>1, <3>3, <3>4
      <3> HIDE DEF U
      <3> QED  BY <2>4, <3>5 DEF UpTo
    <2>7. i \in T /\ i < m
      <3>1. i \in S /\ i <= m /\ i # m
        BY <2>5 DEF UpTo
      <3>2. Cardinality(UpTo(S, i)) >= k
        BY <2>3, <2>6
      <3> QED  BY <1>0, <1>7, <3>1, <3>2
    <2>8. i \in Nat /\ m \in Nat
      BY <1>0, <1>7, <2>7
    <2> QED  BY <1>6, <2>7, <2>8
  <1> QED  BY <1>1, <1>7, <1>8, <1>9

\* Every start of a run has an end: there are as many ends as starts, at least.
LEMMA RunsEnd ==
  ASSUME NEW n \in Nat, NEW inside, inside \subseteq 1 .. n,
         NEW starts, starts = {i \in inside : i - 1 \notin inside},
         NEW ends, ends = {i \in inside : i + 1 \notin inside}
  PROVE  Cardinality(starts) <= Cardinality(ends)
PROOF
  <1> DEFINE Open(i)  == {j \in i .. n : j + 1 \notin inside}
             close(i) == Min(Open(i))
  <1>0. \A i \in inside : i \in Nat /\ i \in 1 .. n
    OBVIOUS
  <1>1. ASSUME NEW i \in inside
        PROVE  close(i) \in Open(i) /\ \A j \in Open(i) : close(i) <= j
    <2>1. n \in Open(i) /\ Open(i) \subseteq Nat
      BY <1>0
    <2> HIDE DEF Open
    <2> QED  BY <2>1, FirstOf
  <1> HIDE DEF close
  <1>2. ASSUME NEW i \in inside
        PROVE  close(i) \in ends /\ i <= close(i)
    <2>1. close(i) \in Open(i) /\ \A j \in Open(i) : close(i) <= j
      BY <1>1
    <2>2. close(i) \in inside
      <3>1. CASE close(i) = i
        BY <3>1
      <3>2. CASE close(i) # i
        <4>1. close(i) - 1 \in i .. n /\ close(i) - 1 \notin Open(i)
          BY <2>1, <3>2
        <4> QED  BY <2>1, <4>1
      <3> QED  BY <3>1, <3>2
    <2> QED  BY <2>1, <2>2
  <1>3. ASSUME NEW a \in starts, NEW b \in starts, a < b, close(a) = close(b)
        PROVE  FALSE
    <2>1. a \in inside /\ b \in inside /\ b - 1 \notin inside
      BY <1>3
    <2>2. b <= close(a) /\ \A j \in Open(a) : close(a) <= j
      BY <1>1, <1>2, <1>3, <2>1
    <2>3. b - 2 \in Open(a)
      <3>1. a \in Nat /\ b \in Nat /\ a \in 1 .. n /\ b \in 1 .. n
        BY <1>0, <2>1
      <3>2. b - 1 # a
        BY <2>1
      <3>3. b - 2 + 1 \notin inside
        BY <2>1, <3>1
      <3>4. b - 2 \in a .. n
        BY <1>3, <3>1, <3>2
      <3> QED  BY <3>3, <3>4
    <2>4. close(a) <= b - 2 /\ close(a) \in Int /\ b \in Int
      <3>1. close(a) \in Open(a) /\ a \in Int
        BY <1>0, <1>1, <2>1
      <3> QED  BY <1>0, <2>1, <2>2, <2>3, <3>1
    <2> QED  BY <2>2, <2>4
  <1> DEFINE f == [i \in starts |-> close(i)]
  <1>4. f \in Injection(starts, ends)
    <2>1. starts \subseteq inside /\ starts \subseteq Int
      <3>1. starts \subseteq inside
        OBVIOUS
      <3>2. \A i \in inside : i \in Int
        BY <1>0
      <3> QED  BY <3>1, <3>2
    <2>2. f \in [starts -> ends]
      BY <1>2, <2>1
    <2>3. \A a, b \in starts : f[a] = f[b] => a = b
      BY <1>3, <2>1
    <2> QED  BY <2>2, <2>3 DEF Injection, IsInjective
  <1>5. IsFiniteSet(ends)
    <2>1. ends \subseteq 1 .. n
      OBVIOUS
    <2> QED  BY <2>1, UpToFinite
  <1> HIDE DEF f
  <1> QED  BY <1>4, <1>5, FS_Injection

\* The runs of a sequence are sequences over the same elements.
LEMMA RunsTyped ==
  ASSUME NEW S, NEW s \in Seq(S), NEW D
  PROVE  Runs(s, D) \in Seq(Seq(S))
PROOF
  <1> DEFINE n      == Len(s)
             inside == {i \in DOMAIN s : s[i] \notin D}
             starts == {i \in inside : i - 1 \notin inside}
             ends   == {i \in inside : i + 1 \notin inside}
             c      == Cardinality(starts)
  <1>1. n \in Nat /\ DOMAIN s = 1 .. n
    BY LenProperties
  <1>2. inside \subseteq 1 .. n /\ starts \subseteq 1 .. n /\ ends \subseteq 1 .. n
    BY <1>1
  <1>3. Runs(s, D) = [k \in 1 .. c |-> SubSeq(s, Nth(starts, k), Nth(ends, k))]
    BY DEF Runs, Nth
  <1>4. c <= Cardinality(ends)
    <2> HIDE DEF inside, c
    <2> QED  BY <1>1, <1>2, RunsEnd DEF c
  <1>5. c \in Nat /\ Cardinality(ends) \in Nat
    <2> HIDE DEF starts, ends
    <2> QED  BY <1>1, <1>2, UpToFinite
  <1> HIDE DEF inside, starts, ends, c
  <1>6. ASSUME NEW k \in 1 .. c
        PROVE  SubSeq(s, Nth(starts, k), Nth(ends, k)) \in Seq(S)
    <2>1. Nth(starts, k) \in 1 .. n
      BY <1>1, <1>2, NthThere DEF c
    <2>2. k \in 1 .. Cardinality(ends)
      BY <1>4, <1>5
    <2>3. Nth(ends, k) \in 1 .. n
      BY <1>1, <1>2, <2>2, NthThere
    <2>4. \A i \in Nth(starts, k) .. Nth(ends, k) : s[i] \in S
      BY <1>1, <2>1, <2>3, ElementOfSeq
    <2> QED  BY <2>1, <2>3, <2>4, SubSeqProperties
  <1> DEFINE f == [k \in 1 .. c |-> SubSeq(s, Nth(starts, k), Nth(ends, k))]
  <1>7. f \in [1 .. c -> Seq(S)]
    BY <1>6
  <1> HIDE DEF f
  <1>8. f \in Seq(Seq(S))
    BY <1>5, <1>7
  <1> QED  BY <1>3, <1>8 DEF f

Word  == Seq(Byte)
Pairs == [key : Word \cup {None}, values : Seq(Word)]

\* What a line is made into.
LEMMA PairTyped ==
  ASSUME NEW line \in Seq(Byte)
  PROVE  Pair(line) \in Pairs
PROOF
  <1> DEFINE words == Runs(Content(line), Delimiters)
  <1>1. words \in Seq(Word)
    BY BeforeShortens, RunsTyped DEF Content, Word
  <1>2. Pair(line) = IF words = <<>> THEN [key |-> None, values |-> <<>>]
                                     ELSE [key |-> Head(words), values |-> Tail(words)]
    BY DEF Pair
  <1> HIDE DEF words
  <1>3. CASE words = <<>>
    BY <1>2, <1>3 DEF Pairs
  <1>4. CASE words # <<>>
    BY <1>1, <1>2, <1>4, HeadTailProperties DEF Pairs
  <1> QED  BY <1>3, <1>4

----------------------------------------------------------------------------
(* The values that accumulate: FlattenSeq() is a recursive function.        *)

\* f flattens the first n elements of s.
Flattens(f, s, n) == f = [i \in 1 .. n |-> IF i = 1 THEN s[i] ELSE f[i - 1] \o s[i]]

\* The value of the fold that flattens a sequence of sequences, at each place.
LEMMA FlattensAt ==
  ASSUME NEW f, NEW s, NEW n, Flattens(f, s, n), NEW i \in 1 .. n
  PROVE  f[i] = IF i = 1 THEN s[i] ELSE f[i - 1] \o s[i]
PROOF
  <1> DEFINE h == [j \in 1 .. n |-> IF j = 1 THEN s[j] ELSE f[j - 1] \o s[j]]
  <1>1. f = h
    BY DEF Flattens
  <1>2. h[i] = IF i = 1 THEN s[i] ELSE f[i - 1] \o s[i]
    OBVIOUS
  <1> HIDE DEF h
  <1> QED  BY <1>1, <1>2

\* There is such a function, and it is the only one.
LEMMA FlattensThere ==
  ASSUME NEW s, NEW n \in Nat
  PROVE  \E f : Flattens(f, s, n)
PROOF
  <1> DEFINE Without == {m \in Nat : ~ \E f : Flattens(f, s, m)}
  <1>1. CASE Without = {}
    BY <1>1
  <1>2. CASE Without # {}
    <2> DEFINE m == Min(Without)
    <2>1. m \in Without /\ \A k \in Without : m <= k
      <3>1. Without \subseteq Nat
        OBVIOUS
      <3> HIDE DEF Without
      <3> QED  BY <1>2, <3>1, FirstOf
    <2> HIDE DEF m
    <2>2. m \in Nat /\ ~ \E f : Flattens(f, s, m)
      BY <2>1
    <2>3. m # 0
      <3>1. Flattens([i \in 1 .. 0 |-> IF i = 1 THEN s[i] ELSE s[i]], s, 0)
        BY DEF Flattens
      <3> QED  BY <2>2, <3>1
    <2>4. m - 1 \in Nat /\ m - 1 \notin Without
      BY <2>1, <2>2, <2>3
    <2>5. PICK g : Flattens(g, s, m - 1)
      BY <2>4
    <2> DEFINE f == [i \in 1 .. m |-> IF i = 1 THEN s[i] ELSE g[i - 1] \o s[i]]
    <2>6. \A i \in 1 .. m - 1 : f[i] = g[i]
      <3>1. ASSUME NEW i \in 1 .. m - 1
            PROVE  g[i] = IF i = 1 THEN s[i] ELSE g[i - 1] \o s[i]
        BY <2>5, FlattensAt
      <3>2. \A i \in 1 .. m - 1 : i \in 1 .. m
        BY <2>2
      <3> QED  BY <3>1, <3>2
    <2>7. \A i \in 1 .. m : f[i] = IF i = 1 THEN s[i] ELSE f[i - 1] \o s[i]
      <3>1. ASSUME NEW i \in 1 .. m, i # 1
            PROVE  f[i - 1] = g[i - 1]
        <4>1. i - 1 \in 1 .. m - 1
          BY <2>2, <3>1
        <4> HIDE DEF f
        <4> QED  BY <2>6, <4>1
      <3>2. \A i \in 1 .. m : f[i] = IF i = 1 THEN s[i] ELSE g[i - 1] \o s[i]
        OBVIOUS
      <3> HIDE DEF f
      <3> QED  BY <3>1, <3>2
    <2>8. f = [i \in 1 .. m |-> IF i = 1 THEN s[i] ELSE f[i - 1] \o s[i]]
      BY <2>7
    <2> QED  BY <2>2, <2>8 DEF Flattens
  <1> QED  BY <1>1, <1>2

\* It depends on the elements it has flattened only.
LEMMA FlattensOnce ==
  ASSUME NEW s, NEW t, NEW f, NEW g, NEW n \in Nat, NEW m \in Nat, n <= m,
         \A i \in 1 .. n : s[i] = t[i], Flattens(f, s, n), Flattens(g, t, m)
  PROVE  \A i \in 1 .. n : f[i] = g[i]
PROOF
  <1> DEFINE Apart == {i \in 1 .. n : f[i] # g[i]}
  <1>1. SUFFICES ASSUME Apart # {} PROVE FALSE
    OBVIOUS
  <1> DEFINE k == Min(Apart)
  <1>2. k \in Apart /\ \A i \in Apart : k <= i
    <2>1. Apart \subseteq Nat
      OBVIOUS
    <2> HIDE DEF Apart
    <2> QED  BY <1>1, <2>1, FirstOf
  <1> HIDE DEF k
  <1>3. k \in 1 .. n /\ k \in 1 .. m /\ f[k] # g[k]
    BY <1>2
  <1>4. /\ f[k] = IF k = 1 THEN s[k] ELSE f[k - 1] \o s[k]
        /\ g[k] = IF k = 1 THEN t[k] ELSE g[k - 1] \o t[k]
    BY <1>3, FlattensAt
  <1>5. k # 1
    BY <1>3, <1>4
  <1>6. k - 1 \in 1 .. n /\ k - 1 \notin Apart
    BY <1>2, <1>3, <1>5
  <1> QED  BY <1>3, <1>4, <1>6

\* What the shorter of two sequences flattens to is on the way to the longer's.
LEMMA FlattensAgree ==
  ASSUME NEW s, NEW t, NEW f, NEW g, Len(s) \in Nat \ {0}, Len(t) \in Nat, Len(s) <= Len(t),
         \A i \in 1 .. Len(s) : t[i] = s[i], Flattens(f, s, Len(s)), Flattens(g, t, Len(t))
  PROVE  f[Len(s)] = g[Len(s)]
PROOF
  <1> DEFINE n == Len(s)
             m == Len(t)
  <1>1. /\ n \in Nat /\ m \in Nat /\ n <= m
        /\ \A i \in 1 .. n : s[i] = t[i]
        /\ Flattens(f, s, n) /\ Flattens(g, t, m)
    OBVIOUS
  <1>2. n \in 1 .. n
    OBVIOUS
  <1> HIDE DEF n, m
  <1>3. \A i \in 1 .. n : f[i] = g[i]
    BY <1>1, FlattensOnce, SMTT(60)
  <1>4. f[n] = g[n]
    BY <1>2, <1>3
  <1> QED  BY <1>4 DEF n

\* The fold exists, and what it gives in the end is FlattenSeq.
LEMMA FlattenIs ==
  ASSUME NEW s, Len(s) \in Nat \ {0}
  PROVE  \E f : Flattens(f, s, Len(s)) /\ FlattenSeq(s) = f[Len(s)]
PROOF
  <1> DEFINE f == CHOOSE flatten : flatten = [i \in 1 .. Len(s) |->
                                     IF i = 1 THEN s[i] ELSE flatten[i - 1] \o s[i]]
  <1>1. FlattenSeq(s) = f[Len(s)]
    BY DEF FlattenSeq
  <1>2. \E g : g = [i \in 1 .. Len(s) |-> IF i = 1 THEN s[i] ELSE g[i - 1] \o s[i]]
    BY FlattensThere DEF Flattens
  <1>3. f = [i \in 1 .. Len(s) |-> IF i = 1 THEN s[i] ELSE f[i - 1] \o s[i]]
    BY <1>2
  <1> QED  BY <1>1, <1>3 DEF Flattens

\* One sequence more is appended.
LEMMA FlattenAppend ==
  ASSUME NEW S, NEW s \in Seq(Seq(S)), NEW t \in Seq(Seq(S)),
         Len(t) = Len(s) + 1, \A i \in 1 .. Len(s) : t[i] = s[i]
  PROVE  FlattenSeq(t) = FlattenSeq(s) \o t[Len(t)]
PROOF
  <1>1. Len(s) \in Nat /\ Len(t) \in Nat \ {0}
    BY LenProperties
  <1>2. PICK g : Flattens(g, t, Len(t)) /\ FlattenSeq(t) = g[Len(t)]
    BY <1>1, FlattenIs
  <1>3. g[Len(t)] = IF Len(t) = 1 THEN t[Len(t)] ELSE g[Len(t) - 1] \o t[Len(t)]
    <2>1. Len(t) \in 1 .. Len(t)
      BY <1>1
    <2> QED  BY <1>2, <2>1, FlattensAt
  <1>4. CASE Len(s) = 0
    <2>1. FlattenSeq(s) = s /\ s = <<>>
      BY <1>4, EmptySeq DEF FlattenSeq
    <2>2. t[Len(t)] \in Seq(S)
      BY <1>1, ElementOfSeq
    <2> QED  BY <1>2, <1>3, <1>4, <2>1, <2>2, ConcatEmptySeq
  <1>5. CASE Len(s) # 0
    <2>1. PICK f : Flattens(f, s, Len(s)) /\ FlattenSeq(s) = f[Len(s)]
      BY <1>1, <1>5, FlattenIs
    <2>2. f[Len(s)] = g[Len(s)]
      <3>1. Len(s) \in Nat \ {0} /\ Len(t) \in Nat /\ Len(s) <= Len(t)
        BY <1>1, <1>5
      <3> QED  BY <1>2, <2>1, <3>1, FlattensAgree
    <2>3. Len(t) # 1 /\ Len(t) - 1 = Len(s)
      BY <1>1, <1>5
    <2> QED  BY <1>2, <1>3, <2>1, <2>2, <2>3
  <1> QED  BY <1>4, <1>5

\* A directive is a word, and none is another.
LEMMA DirectiveWords ==
  /\ \A name \in Single \cup Merged : <<name>> \in Word /\ <<name>> # None
  /\ \A a, b : <<a>> = <<b>> => a = b
PROOF
  <1>1. Single \cup Merged \subseteq Byte /\ None \notin Seq(Byte)
    BY ConfigFileAssumption, ReaderAssumption
  <1>2. ASSUME NEW name \in Single \cup Merged
        PROVE  <<name>> \in Seq(Byte)
    <2>1. name \in Byte
      BY <1>1
    <2> QED  BY <2>1
  <1>3. ASSUME NEW a, NEW b, <<a>> = <<b>>
        PROVE  a = b
    <2>1. <<a>>[1] = a /\ <<b>>[1] = b
      OBVIOUS
    <2> QED  BY <1>3, <2>1
  <1> QED  BY <1>1, <1>2, <1>3 DEF Word

\* One more line adds its number to the lines with its key and to no others.
LEMMA WithAppend ==
  ASSUME NEW ps \in Seq(Pairs), NEW p \in Pairs, NEW name
  PROVE  /\ p.key = <<name>> => With(Append(ps, p), name) = With(ps, name) \cup {Len(ps) + 1}
         /\ p.key # <<name>> => With(Append(ps, p), name) = With(ps, name)
         /\ With(ps, name) \subseteq 1 .. Len(ps)
PROOF
  <1>1. /\ DOMAIN Append(ps, p) = DOMAIN ps \cup {Len(ps) + 1}
        /\ \A k \in DOMAIN ps : Append(ps, p)[k] = ps[k]
        /\ Append(ps, p)[Len(ps) + 1] = p
    BY OnePairMore
  <1>2. Len(ps) \in Nat /\ DOMAIN ps = 1 .. Len(ps)
    BY LenProperties
  <1> DEFINE ps1 == Append(ps, p)
  <1> HIDE DEF ps1
  <1>3. With(ps1, name) = {k \in DOMAIN ps \cup {Len(ps) + 1} : ps1[k].key = <<name>>}
    BY <1>1 DEF With, ps1
  <1>4. /\ \A k \in DOMAIN ps : ps1[k] = ps[k]
        /\ ps1[Len(ps) + 1] = p
    BY <1>1 DEF ps1
  <1>5. p.key = <<name>> => With(ps1, name) = With(ps, name) \cup {Len(ps) + 1}
    BY <1>3, <1>4 DEF With
  <1>6. p.key # <<name>> => With(ps1, name) = With(ps, name)
    BY <1>3, <1>4 DEF With
  <1> QED  BY <1>2, <1>5, <1>6 DEF With, ps1

\* What a name is given, one line later.
LEMMA GivenAppend ==
  ASSUME NEW ps \in Seq(Pairs), NEW p \in Pairs, NEW name
  PROVE  /\ p.key = <<name>> => Given(Append(ps, p), name) = Given(ps, name) \o p.values
         /\ p.key # <<name>> => Given(Append(ps, p), name) = Given(ps, name) \o <<>>
PROOF
  <1> DEFINE n   == Len(ps)
             ps1 == Append(ps, p)
             s   == [k \in DOMAIN ps |-> IF k \in With(ps, name) THEN ps[k].values ELSE <<>>]
             t   == [k \in DOMAIN ps1 |-> IF k \in With(ps1, name) THEN ps1[k].values ELSE <<>>]
  <1>1. n \in Nat /\ DOMAIN ps = 1 .. n
    BY LenProperties
  <1>2. /\ DOMAIN ps1 = 1 .. n + 1
        /\ \A k \in 1 .. n : ps1[k] = ps[k]
        /\ ps1[n + 1] = p
    BY <1>1, OnePairMore
  <1>3. /\ \A k \in 1 .. n : ps[k] \in Pairs
    BY ElementOfSeq
  <1>4. Given(ps, name) = FlattenSeq(s) /\ Given(ps1, name) = FlattenSeq(t)
    BY DEF Given
  <1> HIDE DEF n, ps1
  <1>5. \A q \in Pairs : q.values \in Seq(Word)
    BY DEF Pairs
  <1>6. <<>> \in Seq(Word)
    BY EmptySeq
  <1>7. s \in [1 .. n -> Seq(Word)]
    BY <1>1, <1>3, <1>5, <1>6
  <1>8. \A k \in 1 .. n + 1 : ps1[k] \in Pairs
    BY <1>1, <1>2, <1>3
  <1>9. t \in [1 .. n + 1 -> Seq(Word)]
    BY <1>2, <1>5, <1>6, <1>8
  <1>10. \A k \in 1 .. n : k \in With(ps1, name) <=> k \in With(ps, name)
    BY <1>1, <1>2 DEF With
  <1>11. \A k \in 1 .. n : t[k] = s[k]
    BY <1>1, <1>2, <1>10
  <1>12. t[n + 1] = IF p.key = <<name>> THEN p.values ELSE <<>>
    <2>1. n + 1 \in DOMAIN ps1
      BY <1>1, <1>2
    <2> QED  BY <1>2, <2>1 DEF With
  <1> HIDE DEF s, t
  <1>13. /\ s \in Seq(Seq(Word)) /\ Len(s) = n
         /\ t \in Seq(Seq(Word)) /\ Len(t) = n + 1
    BY <1>1, <1>7, <1>9
  <1>14. FlattenSeq(t) = FlattenSeq(s) \o t[n + 1]
    <2>1. Len(t) = Len(s) + 1 /\ \A i \in 1 .. Len(s) : t[i] = s[i]
      BY <1>11, <1>13
    <2>2. FlattenSeq(t) = FlattenSeq(s) \o t[Len(t)]
      BY <1>13, <2>1, FlattenAppend
    <2> QED  BY <1>13, <2>2
  <1> QED  BY <1>4, <1>12, <1>14 DEF ps1

\* A file without lines gives no directive a value.
LEMMA GivenNothing == \A name : Given(<<>>, name) = <<>>
PROOF
  <1>1. ASSUME NEW name
        PROVE  Given(<<>>, name) = <<>>
    <2> DEFINE s == [k \in DOMAIN <<>> |-> IF k \in With(<<>>, name) THEN <<>>[k].values ELSE <<>>]
    <2>1. s = <<>>
      OBVIOUS
    <2>2. Given(<<>>, name) = FlattenSeq(s)
      BY DEF Given
    <2> HIDE DEF s
    <2>3. FlattenSeq(<<>>) = <<>>
      BY DEF FlattenSeq
    <2> QED  BY <2>1, <2>2, <2>3
  <1> QED  BY <1>1

----------------------------------------------------------------------------
(* The configuration.                                                       *)

\* struct config and the *_set flags after the lines ps have been taken in.
Taken(ps, c, set) ==
  /\ ps \in Seq(Pairs)
  /\ \A k \in DOMAIN ps : \E name \in Single \cup Merged : ps[k].key = <<name>>
  /\ \A name \in Single : \A j, k \in With(ps, name) : j = k /\ Len(ps[k].values) = 1
  /\ set = {name \in Single : With(ps, name) # {}}
  /\ DOMAIN c = DOMAIN NoConfig
  /\ \A name \in Merged : c[name] = Given(ps, name) /\ c[name] \in Seq(Word)
  /\ \A name \in Single : With(ps, name) = {} => Given(ps, name) = <<>> /\ c[name] = NoConfig[name]
  /\ \A name \in Single : With(ps, name) # {} =>
       \E w \in Word : Given(ps, name) = <<w>> /\ c[name] = Convert(name, w)

\* Before the first line the configuration is the one of config_init().
LEMMA NothingTaken == Taken(<<>>, NoConfig, {})
PROOF
  <1>1. <<>> \in Seq(Pairs) /\ <<>> \in Seq(Word)
    BY EmptySeq
  <1>2. \A name : With(<<>>, name) = {}
    BY DEF With
  <1>3. \A name \in Merged : NoConfig[name] = <<>>
    BY DEF Merged, NoConfig
  <1>4. {} = {name \in Single : With(<<>>, name) # {}}
    BY <1>2
  <1>5. \A k \in DOMAIN <<>> : \E name \in Single \cup Merged : <<>>[k].key = <<name>>
    OBVIOUS
  <1>6. \A name \in Merged : NoConfig[name] = Given(<<>>, name) /\ NoConfig[name] \in Seq(Word)
    BY <1>1, <1>3, GivenNothing
  <1>7. \A name : Given(<<>>, name) = <<>>
    BY GivenNothing
  <1> QED  BY <1>1, <1>2, <1>4, <1>5, <1>6, <1>7 DEF Taken

\* A directive that occurs once, for the first time and with one value, is taken in by ParseSingle.
LEMMA SingleTaken ==
  ASSUME NEW ps, NEW c, NEW set, Taken(ps, c, set), NEW p \in Pairs, NEW name \in Single,
         p.key = <<name>>, name \notin set, Len(p.values) = 1
  PROVE  Taken(Append(ps, p), [c EXCEPT ![name] = Convert(name, p.values[1])], set \cup {name})
PROOF
  <1> DEFINE ps1 == Append(ps, p)
             c1  == [c EXCEPT ![name] = Convert(name, p.values[1])]
  <1>1. ps \in Seq(Pairs) /\ Len(ps) \in Nat /\ DOMAIN ps = 1 .. Len(ps)
    BY LenProperties DEF Taken
  <1>2. /\ ps1 \in Seq(Pairs)
        /\ DOMAIN ps1 = DOMAIN ps \cup {Len(ps) + 1}
        /\ \A k \in DOMAIN ps : ps1[k] = ps[k]
        /\ ps1[Len(ps) + 1] = p
    BY <1>1, OnePairMore, AppendProperties
  <1>3. /\ With(ps1, name) = With(ps, name) \cup {Len(ps) + 1}
        /\ \A other : other # name => With(ps1, other) = With(ps, other)
        /\ With(ps, name) = {}
    BY <1>1, WithAppend, DirectiveWords DEF Taken
  <1>4. /\ Given(ps1, name) = Given(ps, name) \o p.values
        /\ \A other : other # name => Given(ps1, other) = Given(ps, other) \o <<>>
    <2>1. Given(ps1, name) = Given(ps, name) \o p.values
      BY <1>1, GivenAppend
    <2>2. ASSUME NEW other, other # name
          PROVE  Given(ps1, other) = Given(ps, other) \o <<>>
      <3>1. p.key # <<other>>
        BY <2>2, DirectiveWords
      <3> HIDE DEF c1
      <3> QED  BY <1>1, <3>1, GivenAppend
    <2> HIDE DEF ps1
    <2> QED  BY <2>1, <2>2
  <1>5. PICK w \in Word : p.values = <<w>>
    <2>1. p.values \in Seq(Word)
      BY DEF Pairs
    <2>2. p.values[1] \in Word
      BY <2>1, ElementOfSeq
    <2>3. <<p.values[1]>> \in Seq(Word) /\ Len(<<p.values[1]>>) = 1
      BY <2>2
    <2>4. p.values = <<p.values[1]>>
      BY <2>1, <2>3, SeqEqual
    <2> QED  BY <2>2, <2>4
  <1>6. Given(ps, name) = <<>>
    BY <1>3 DEF Taken
  <1>7. Given(ps1, name) = <<w>>
    <2>1. <<w>> \in Seq(Word)
      OBVIOUS
    <2> QED  BY <1>4, <1>5, <1>6, <2>1, ConcatEmptySeq
  <1>8. ASSUME NEW other \in Single \cup Merged, other # name
        PROVE  Given(ps1, other) = Given(ps, other)
    <2>1. Given(ps, other) \in Seq(Word)
      <3>1. CASE other \in Merged
        BY <3>1 DEF Taken
      <3>2. CASE other \in Single /\ With(ps, other) = {}
        BY <3>2, EmptySeq DEF Taken
      <3>3. CASE other \in Single /\ With(ps, other) # {}
        <4>1. PICK v \in Word : Given(ps, other) = <<v>>
          BY <3>3 DEF Taken
        <4> QED  BY <4>1
      <3> QED  BY <3>1, <3>2, <3>3
    <2> QED  BY <1>4, <1>8, <2>1, ConcatEmptySeq
  <1>9. /\ DOMAIN c1 = DOMAIN NoConfig
        /\ c1[name] = Convert(name, w)
        /\ \A other \in DOMAIN NoConfig : other # name => c1[other] = c[other]
    <2>1. DOMAIN c = DOMAIN NoConfig /\ name \in DOMAIN NoConfig
      BY DEF Taken, NoConfig, Single
    <2>2. p.values[1] = w
      BY <1>5
    <2> QED  BY <2>1, <2>2
  <1>10. name \notin Merged /\ Single \cup Merged \subseteq DOMAIN NoConfig
    BY DEF Single, Merged, NoConfig
  <1> HIDE DEF ps1, c1
  <1>11. \A k \in DOMAIN ps1 : \E other \in Single \cup Merged : ps1[k].key = <<other>>
    BY <1>2 DEF Taken
  <1>12. ASSUME NEW other \in Single, NEW j \in With(ps1, other), NEW k \in With(ps1, other)
         PROVE  j = k /\ Len(ps1[k].values) = 1
    <2>1. CASE other = name
      BY <1>2, <1>3, <1>12, <2>1
    <2>2. CASE other # name
      <3>1. j \in With(ps, other) /\ k \in With(ps, other)
        BY <1>3, <2>2
      <3>2. k \in DOMAIN ps
        BY <3>1 DEF With
      <3> QED  BY <1>2, <3>1, <3>2 DEF Taken
    <2> QED  BY <2>1, <2>2
  <1>13. set \cup {name} = {other \in Single : With(ps1, other) # {}}
    BY <1>3 DEF Taken
  <1>14. \A other \in Merged : c1[other] = Given(ps1, other) /\ c1[other] \in Seq(Word)
    BY <1>8, <1>9, <1>10 DEF Taken
  <1>15. ASSUME NEW other \in Single, With(ps1, other) = {}
         PROVE  Given(ps1, other) = <<>> /\ c1[other] = NoConfig[other]
    BY <1>3, <1>8, <1>9, <1>10, <1>15 DEF Taken
  <1>16. ASSUME NEW other \in Single, With(ps1, other) # {}
         PROVE  \E v \in Word : Given(ps1, other) = <<v>> /\ c1[other] = Convert(other, v)
    BY <1>3, <1>7, <1>8, <1>9, <1>10, <1>16 DEF Taken
  <1>17. Taken(ps1, c1, set \cup {name})
    BY <1>2, <1>9, <1>11, <1>12, <1>13, <1>14, <1>15, <1>16 DEF Taken
  <1> QED  BY <1>17 DEF ps1, c1

\* A directive that accumulates is taken in by appending its values, as ParseMerged does.
LEMMA MergedTaken ==
  ASSUME NEW ps, NEW c, NEW set, Taken(ps, c, set), NEW p \in Pairs, NEW name \in Merged,
         p.key = <<name>>
  PROVE  Taken(Append(ps, p), [c EXCEPT ![name] = @ \o p.values], set)
PROOF
  <1> DEFINE ps1 == Append(ps, p)
             c1  == [c EXCEPT ![name] = @ \o p.values]
  <1>1. ps \in Seq(Pairs) /\ Len(ps) \in Nat /\ DOMAIN ps = 1 .. Len(ps)
    BY LenProperties DEF Taken
  <1>2. /\ ps1 \in Seq(Pairs)
        /\ DOMAIN ps1 = DOMAIN ps \cup {Len(ps) + 1}
        /\ \A k \in DOMAIN ps : ps1[k] = ps[k]
        /\ ps1[Len(ps) + 1] = p
    BY <1>1, OnePairMore, AppendProperties
  <1>3. \A other : other # name => With(ps1, other) = With(ps, other)
    BY <1>1, WithAppend, DirectiveWords
  <1>4. /\ Given(ps1, name) = Given(ps, name) \o p.values
        /\ \A other : other # name => Given(ps1, other) = Given(ps, other) \o <<>>
    <2>1. Given(ps1, name) = Given(ps, name) \o p.values
      BY <1>1, GivenAppend
    <2>2. ASSUME NEW other, other # name
          PROVE  Given(ps1, other) = Given(ps, other) \o <<>>
      <3>1. p.key # <<other>>
        BY <2>2, DirectiveWords
      <3> HIDE DEF c1
      <3> QED  BY <1>1, <3>1, GivenAppend
    <2> HIDE DEF ps1
    <2> QED  BY <2>1, <2>2
  <1>5. p.values \in Seq(Word)
    BY DEF Pairs
  <1>6. name \notin Single /\ Single \cup Merged \subseteq DOMAIN NoConfig
    BY DEF Single, Merged, NoConfig
  <1>7. ASSUME NEW other \in Single \cup Merged
        PROVE  Given(ps, other) \in Seq(Word)
    <2>1. CASE other \in Merged
      BY <2>1 DEF Taken
    <2>2. CASE other \in Single /\ With(ps, other) = {}
      BY <2>2, EmptySeq DEF Taken
    <2>3. CASE other \in Single /\ With(ps, other) # {}
      <3>1. PICK v \in Word : Given(ps, other) = <<v>>
        BY <2>3 DEF Taken
      <3> QED  BY <3>1
    <2> QED  BY <2>1, <2>2, <2>3
  <1>8. ASSUME NEW other \in Single \cup Merged, other # name
        PROVE  Given(ps1, other) = Given(ps, other)
    BY <1>4, <1>7, <1>8, ConcatEmptySeq
  <1>9. /\ DOMAIN c1 = DOMAIN NoConfig
        /\ c1[name] = c[name] \o p.values
        /\ \A other \in DOMAIN NoConfig : other # name => c1[other] = c[other]
    <2>1. DOMAIN c = DOMAIN NoConfig /\ name \in DOMAIN NoConfig
      BY <1>6 DEF Taken
    <2> QED  BY <2>1
  <1> HIDE DEF ps1, c1
  <1>10. \A k \in DOMAIN ps1 : \E other \in Single \cup Merged : ps1[k].key = <<other>>
    BY <1>2 DEF Taken
  <1>11. ASSUME NEW other \in Single
         PROVE  /\ With(ps1, other) = With(ps, other)
                /\ Given(ps1, other) = Given(ps, other)
                /\ c1[other] = c[other]
    BY <1>3, <1>6, <1>8, <1>9
  <1>12. ASSUME NEW other \in Single, NEW j \in With(ps1, other), NEW k \in With(ps1, other)
         PROVE  j = k /\ Len(ps1[k].values) = 1
    <2>1. j \in With(ps, other) /\ k \in With(ps, other)
      BY <1>11
    <2>2. k \in DOMAIN ps
      BY <2>1 DEF With
    <2> QED  BY <1>2, <2>1, <2>2 DEF Taken
  <1>13. set = {other \in Single : With(ps1, other) # {}}
    BY <1>11 DEF Taken
  <1>14. ASSUME NEW other \in Merged
         PROVE  c1[other] = Given(ps1, other) /\ c1[other] \in Seq(Word)
    <2>1. CASE other = name
      <3>1. c[name] = Given(ps, name) /\ c[name] \in Seq(Word)
        BY DEF Taken
      <3> QED  BY <1>4, <1>5, <1>9, <2>1, <3>1, ConcatProperties
    <2>2. CASE other # name
      BY <1>6, <1>8, <1>9, <2>2 DEF Taken
    <2> QED  BY <2>1, <2>2
  <1>15. /\ \A other \in Single : With(ps1, other) = {} =>
              Given(ps1, other) = <<>> /\ c1[other] = NoConfig[other]
         /\ \A other \in Single : With(ps1, other) # {} =>
              \E w \in Word : Given(ps1, other) = <<w>> /\ c1[other] = Convert(other, w)
    BY <1>11 DEF Taken
  <1>16. Taken(ps1, c1, set)
    BY <1>2, <1>9, <1>10, <1>12, <1>13, <1>14, <1>15 DEF Taken
  <1> QED  BY <1>16 DEF ps1, c1

\* Read to its end without an error, a file is complete exactly if it is well
\* formed, and struct config holds what it means.
LEMMA CompleteMeans ==
  ASSUME Taken(handed, config, is_set)
  PROVE  /\ Complete <=> WellFormed(handed)
         /\ Means(handed, config)
PROOF
  <1> DEFINE ps == handed
             methods == ToSet(Given(ps, "auth_method"))
  <1>1. /\ \A name \in Merged : config[name] = Given(ps, name) /\ config[name] \in Seq(Word)
        /\ \A name \in Single : With(ps, name) = {} =>
             Given(ps, name) = <<>> /\ config[name] = NoConfig[name]
        /\ \A name \in Single : With(ps, name) # {} =>
             \E w \in Word : Given(ps, name) = <<w>> /\ config[name] = Convert(name, w)
        /\ is_set = {name \in Single : With(ps, name) # {}}
    BY DEF Taken
  <1>2. /\ "auth_method" \in Merged /\ "map_file" \in Merged
        /\ {"client_id", "client_secret", "idp_suffix", "mfa"} \subseteq Single
        /\ NoConfig["idp_suffix"] = None /\ NoConfig["client_id"] = None
        /\ NoConfig["client_secret"] = None /\ NoConfig["mfa"] = FALSE
    BY DEF Single, Merged, NoConfig
  <1>3. ASSUME NEW w \in Word
        PROVE  w # None
    BY <1>3, ReaderAssumption DEF Word
  <1>4. \A name \in {"client_id", "client_secret", "idp_suffix"} : \A w : Convert(name, w) = w
    BY DEF Convert
  <1>5. \A name \in {"client_id", "client_secret", "idp_suffix"} :
          /\ config[name] = IF With(ps, name) = {} THEN None ELSE Head(Given(ps, name))
          /\ config[name] # None <=> With(ps, name) # {}
    BY <1>1, <1>2, <1>3, <1>4
  <1>6. config.mfa <=> With(ps, "mfa") # {} /\ Head(Given(ps, "mfa")) \notin FalseWords
    <2>1. CASE With(ps, "mfa") = {}
      BY <1>1, <1>2, <2>1
    <2>2. CASE With(ps, "mfa") # {}
      <3>1. PICK w \in Word : Given(ps, "mfa") = <<w>> /\ config.mfa = Convert("mfa", w)
        BY <1>1, <1>2, <2>2
      <3>2. Convert("mfa", w) = (ConvertBool(w) # 0)
        BY DEF Convert
      <3>3. ConvertBool(w) # 0 <=> w \notin FalseWords
        <4>1. TrueWords \cap FalseWords = {}
          BY DirectiveWords DEF TrueWords, FalseWords
        <4> QED  BY <4>1 DEF ConvertBool
      <3>4. Head(<<w>>) = w
        OBVIOUS
      <3> QED  BY <2>2, <3>1, <3>2, <3>3, <3>4
    <2> QED  BY <2>1, <2>2
  <1>7. Means(ps, config)
    BY <1>1, <1>5, <1>6 DEF Means
  <1>8. /\ config.auth_method = Given(ps, "auth_method") /\ config.map_file = Given(ps, "map_file")
        /\ config.auth_method \in Seq(Word)
    BY <1>1, <1>2
  <1>9. /\ ToSet(config.auth_method) = methods
        /\ config.auth_method # <<>> <=> methods # {}
    <2>1. ASSUME NEW s \in Seq(Word)
          PROVE  s # <<>> <=> ToSet(s) # {}
      <3>1. CASE s = <<>>
        BY <3>1 DEF ToSet
      <3>2. CASE s # <<>>
        <4>1. Len(s) \in Nat \ {0} /\ DOMAIN s = 1 .. Len(s)
          BY <3>2, EmptySeq, LenProperties
        <4>2. 1 \in DOMAIN s
          BY <4>1
        <4>3. s[1] \in ToSet(s)
          BY <4>2 DEF ToSet
        <4> QED  BY <3>2, <4>3
      <3> QED  BY <3>1, <3>2
    <2> QED  BY <1>8, <2>1
  <1>10. /\ \A k \in DOMAIN ps : \E name \in Single \cup Merged : ps[k].key = <<name>>
         /\ \A name \in Single : \A j, k \in With(ps, name) : j = k /\ Len(ps[k].values) = 1
    BY DEF Taken
  <1>11. (\A m \in methods : m = <<"globus_auth">> \/ (m = <<"scitokens">> /\ WithSciTokens))
           <=> methods \subseteq {<<"globus_auth">>} \cup IF WithSciTokens THEN {<<"scitokens">>} ELSE {}
    <2> HIDE DEF methods
    <2>1. CASE WithSciTokens
      BY <2>1
    <2>2. CASE ~WithSciTokens
      BY <2>2
    <2> QED  BY <2>1, <2>2
  <1>12. Uses("globus_auth") <=> <<"globus_auth">> \in methods
    BY <1>9 DEF Uses
  <1>13. {"client_id", "client_secret"} \subseteq is_set
           <=> With(ps, "client_id") # {} /\ With(ps, "client_secret") # {}
    BY <1>1, <1>2
  <1>14. (config.idp_suffix # None \/ config.map_file # <<>>)
           <=> (With(ps, "idp_suffix") # {} \/ Given(ps, "map_file") # <<>>)
    BY <1>5, <1>8
  <1>15. WellFormed(ps) <=>
           /\ methods # {}
           /\ methods \subseteq {<<"globus_auth">>} \cup IF WithSciTokens THEN {<<"scitokens">>} ELSE {}
           /\ <<"globus_auth">> \in methods =>
                /\ With(ps, "client_id") # {} /\ With(ps, "client_secret") # {}
                /\ With(ps, "idp_suffix") # {} \/ Given(ps, "map_file") # <<>>
    BY <1>10 DEF WellFormed
  <1>16. Complete <=>
           /\ methods # {}
           /\ \A m \in methods : m = <<"globus_auth">> \/ (m = <<"scitokens">> /\ WithSciTokens)
           /\ <<"globus_auth">> \in methods =>
                /\ {"client_id", "client_secret"} \subseteq is_set
                /\ config.idp_suffix # None \/ config.map_file # <<>>
    <2> HIDE DEF methods
    <2> QED  BY <1>9, <1>12 DEF Complete
  <1> HIDE DEF methods
  <1>17. Complete <=> WellFormed(ps)
    BY <1>11, <1>13, <1>14, <1>15, <1>16
  <1> QED  BY <1>7, <1>17

\* A line that is refused makes the file one that is not well formed.
LEMMA RefusedIsMalformed ==
  ASSUME NEW before, NEW c, NEW set, Taken(before, c, set), NEW p \in Pairs,
         \/ \A name \in Single \cup Merged : p.key # <<name>>
         \/ \E name \in Single : p.key = <<name>> /\ (name \in set \/ Len(p.values) # 1)
  PROVE  ~WellFormed(Append(before, p))
PROOF
  <1> DEFINE ps == Append(before, p)
             n  == Len(before) + 1
  <1>1. before \in Seq(Pairs) /\ Len(before) \in Nat /\ DOMAIN before = 1 .. Len(before)
    BY LenProperties DEF Taken
  <1>2. n \in DOMAIN ps /\ ps[n] = p
    BY <1>1, OnePairMore
  <1> HIDE DEF n
  <1>3. CASE \A name \in Single \cup Merged : p.key # <<name>>
    <2> HIDE DEF ps
    <2>1. ~ \A k \in DOMAIN ps : \E name \in Single \cup Merged : ps[k].key = <<name>>
      BY <1>2, <1>3
    <2>2. ~WellFormed(ps)
      BY <2>1 DEF WellFormed
    <2> QED  BY <2>2 DEF ps
  <1>4. ASSUME NEW name \in Single, p.key = <<name>>, name \in set \/ Len(p.values) # 1
        PROVE  ~WellFormed(ps)
    <2>1. With(ps, name) = With(before, name) \cup {n} /\ With(before, name) \subseteq 1 .. Len(before)
      BY <1>1, <1>4, WithAppend DEF n
    <2> HIDE DEF ps
    <2>2. CASE Len(p.values) # 1
      BY <1>2, <2>1, <2>2 DEF WellFormed
    <2>3. CASE name \in set
      <3>1. PICK j \in With(before, name) : TRUE
        BY <2>3 DEF Taken
      <3>2. j # n /\ j \in With(ps, name) /\ n \in With(ps, name)
        BY <1>1, <2>1, <3>1 DEF n
      <3> QED  BY <3>2 DEF WellFormed
    <2> QED  BY <1>4, <2>2, <2>3
  <1> QED  BY <1>3, <1>4

\* The inductive invariant: what has been read is taken in as it was written, and
\* the verdict is on all of it.
FileInv ==
  /\ ReaderInv
  /\ handed \in Seq(Pairs)
  /\ pc \in {"fill", "line", "pair", "eof", "cleanup", "accepted", "rejected", "crashed"}
  /\ status \in {"success", "failure"}
  /\ pc \in {"fill", "line", "eof"} => Taken(handed, config, is_set)
  /\ pc = "pair" =>
       /\ pair \in Pairs
       /\ \E before \in Seq(Pairs) :
            handed = Append(before, pair) /\ Taken(before, config, is_set)
  /\ pc = "eof" => rest = <<>>
  /\ pc \in {"cleanup", "accepted", "rejected"} => \A k \in DOMAIN handed : handed[k].key # None
  /\ pc = "accepted" \/ (pc = "cleanup" /\ status = "success") =>
       WellFormed(handed) /\ Means(handed, config) /\ rest = <<>>
  /\ pc = "rejected" \/ (pc = "cleanup" /\ status = "failure") => ~WellFormed(handed)
  /\ pc = "crashed" => \E k \in DOMAIN handed : handed[k].key = None

\* No line that has been taken in is without a key.
LEMMA TakenHasKeys ==
  ASSUME NEW ps, NEW c, NEW set, Taken(ps, c, set)
  PROVE  \A k \in DOMAIN ps : ps[k].key # None
PROOF
  <1>1. \A k \in DOMAIN ps : \E name \in Single \cup Merged : ps[k].key = <<name>>
    BY DEF Taken
  <1> QED  BY <1>1, DirectiveWords

----------------------------------------------------------------------------
(* The steps.                                                               *)

\* Before the first line nothing has been taken in.
LEMMA FileInit == ConfigInit => FileInv
PROOF
  <1> SUFFICES ASSUME ConfigInit PROVE FileInv
    OBVIOUS
  <1>1. /\ rest \in Seq(Byte) /\ pc = "fill" /\ buffer = <<>> /\ length = ReadLen /\ written = 0
        /\ handed = <<>> /\ config = NoConfig /\ is_set = {} /\ status = "failure"
    BY ReaderAssumption DEF ConfigInit, ReaderInit
  <1>2. ReaderInv
    BY <1>1, ReaderAssumption, EmptySeq DEF ReaderInv
  <1>3. handed \in Seq(Pairs)
    BY <1>1, EmptySeq
  <1>4. Taken(handed, config, is_set)
    BY <1>1, NothingTaken
  <1> QED  BY <1>1, <1>2, <1>3, <1>4 DEF FileInv

\* The reader takes nothing in; it has the end of the file when it says so.
LEMMA ReaderFile ==
  ASSUME FileInv, ReadNextPair, UNCHANGED <<config, is_set, status>>, ReaderInv'
  PROVE  FileInv'
PROOF
  <1>1. CASE Fill
    <2>1. /\ pc = "fill" /\ pc' \in {"fill", "eof", "line"} /\ UNCHANGED <<handed, pair>>
      BY <1>1 DEF Fill, FillWith
    <2>2. pc' = "eof" => rest' = <<>>
      <3>1. SUFFICES ASSUME pc' = "eof" PROVE rest' = <<>>
        OBVIOUS
      <3> DEFINE chunk == Fgets(rest, ReadLen)
                 text  == Before(buffer \o chunk, {Nul})
      <3>2. text = <<>> /\ (rest = <<>> \/ Newline \in ToSet(text))
        BY <1>1, <3>1 DEF Fill, FillWith
      <3>3. Newline \notin ToSet(<<>>)
        BY DEF ToSet
      <3>4. rest = <<>>
        <4> HIDE DEF text
        <4> QED  BY <3>2, <3>3
      <3>5. chunk \in Seq(Byte) /\ Len(chunk) \in Nat
        BY FgetsFits, ReaderAssumption DEF FileInv, ReaderInv
      <3>6. rest' = SubSeq(rest, Len(chunk) + 1, Len(rest))
        BY <1>1 DEF Fill, FillWith
      <3> HIDE DEF chunk
      <3>7. Len(rest) = 0
        BY <3>4, EmptySeq
      <3>8. Len(chunk) + 1 \in Int /\ 0 \in Int /\ 0 < Len(chunk) + 1
        BY <3>5
      <3> QED  BY <3>6, <3>7, <3>8, SubSeqEmpty
    <2>3. Taken(handed, config, is_set)'
      BY <2>1 DEF FileInv
    <2> QED  BY <2>1, <2>2, <2>3 DEF FileInv
  <1>2. CASE SkipLine
    <2>1. pc = "line" /\ pc' = "fill" /\ UNCHANGED <<handed, pair>>
      BY <1>2 DEF SkipLine
    <2> QED  BY <2>1 DEF FileInv
  <1>3. CASE ReturnPair
    <2>1. /\ pc = "line" /\ pc' = "pair" /\ pair' = Pair(buffer) /\ handed' = Append(handed, pair')
      BY <1>3 DEF ReturnPair
    <2>2. pair' \in Pairs
      BY <2>1, PairTyped DEF FileInv, ReaderInv
    <2>3. handed' \in Seq(Pairs)
      BY <2>1, <2>2, AppendProperties DEF FileInv
    <2>4. Taken(handed, config', is_set')
      BY <2>1 DEF FileInv
    <2>5. handed \in Seq(Pairs)
      BY DEF FileInv
    <2> QED  BY <2>1, <2>2, <2>3, <2>4, <2>5 DEF FileInv
  <1> QED  BY <1>1, <1>2, <1>3 DEF ReadNextPair

\* The invariant under the branches of parse_file() for directives that occur once.
LEMMA SingleFile ==
  ASSUME FileInv, NEW name \in Single, ParseSingle(name), ReaderInv'
  PROVE  FileInv'
PROOF
  <1>1. pc = "pair" /\ pair.key = <<name>> /\ pair \in Pairs /\ UNCHANGED handed /\ handed \in Seq(Pairs)
    BY DEF ParseSingle, Named, FileInv
  <1>2. PICK before \in Seq(Pairs) : handed = Append(before, pair) /\ Taken(before, config, is_set)
    BY <1>1 DEF FileInv
  <1>3. CASE ~ValidSingle(name, pair.values)
    <2>1. pc' = "cleanup" /\ status' = "failure"
      BY <1>3 DEF ParseSingle, Stop
    <2>2. name \in is_set \/ Len(pair.values) # 1
      BY <1>3 DEF ValidSingle
    <2>3. ~WellFormed(handed)
      BY <1>1, <1>2, <2>2, RefusedIsMalformed
    <2>4. \A k \in DOMAIN handed : handed[k].key # None
      <3>1. /\ DOMAIN handed = DOMAIN before \cup {Len(before) + 1}
            /\ \A k \in DOMAIN before : handed[k] = before[k]
            /\ handed[Len(before) + 1] = pair
        BY <1>2, OnePairMore
      <3>2. \A k \in DOMAIN before : before[k].key # None
        BY <1>2, TakenHasKeys
      <3>3. pair.key # None
        BY <1>1, DirectiveWords
      <3> QED  BY <3>1, <3>2, <3>3
    <2> QED  BY <1>1, <2>1, <2>3, <2>4 DEF FileInv
  <1>4. CASE ValidSingle(name, pair.values)
    <2>1. /\ config' = [config EXCEPT ![name] = Convert(name, pair.values[1])]
          /\ is_set' = is_set \cup {name}
          /\ status' = "success" /\ pc' = "fill"
      BY <1>4 DEF ParseSingle, NextPair
    <2>2. name \notin is_set /\ Len(pair.values) = 1
      BY <1>4 DEF ValidSingle
    <2>3. Taken(handed, config', is_set')
      BY <1>1, <1>2, <2>1, <2>2, SingleTaken
    <2> QED  BY <1>1, <2>1, <2>3 DEF FileInv
  <1> QED  BY <1>3, <1>4

\* The invariant under the branches for directives that accumulate.
LEMMA MergedFile ==
  ASSUME FileInv, NEW name \in Merged, ParseMerged(name), ReaderInv'
  PROVE  FileInv'
PROOF
  <1>1. /\ pc = "pair" /\ pair.key = <<name>> /\ pair \in Pairs
        /\ UNCHANGED <<handed, status, is_set>> /\ handed \in Seq(Pairs) /\ pc' = "fill"
        /\ config' = [config EXCEPT ![name] = @ \o pair.values]
    BY DEF ParseMerged, Named, NextPair, FileInv
  <1>2. PICK before \in Seq(Pairs) : handed = Append(before, pair) /\ Taken(before, config, is_set)
    BY <1>1 DEF FileInv
  <1>3. Taken(handed, config', is_set')
    BY <1>1, <1>2, MergedTaken
  <1> QED  BY <1>1, <1>3 DEF FileInv

\* The invariant under the branch for an unknown directive.
LEMMA UnknownFile ==
  ASSUME FileInv, ParseUnknown, ReaderInv'
  PROVE  FileInv'
PROOF
  <1>1. /\ pc = "pair" /\ pair \in Pairs /\ UNCHANGED handed /\ handed \in Seq(Pairs)
        /\ pair.key # None /\ \A name \in Single \cup Merged : pair.key # <<name>>
        /\ pc' = "cleanup" /\ status' = "failure"
    BY DEF ParseUnknown, Stop, FileInv
  <1>2. PICK before \in Seq(Pairs) : handed = Append(before, pair) /\ Taken(before, config, is_set)
    BY <1>1 DEF FileInv
  <1>3. ~WellFormed(handed)
    BY <1>1, <1>2, RefusedIsMalformed
  <1>4. \A k \in DOMAIN handed : handed[k].key # None
    <2>1. /\ DOMAIN handed = DOMAIN before \cup {Len(before) + 1}
          /\ \A k \in DOMAIN before : handed[k] = before[k]
          /\ handed[Len(before) + 1] = pair
      BY <1>2, OnePairMore
    <2>2. \A k \in DOMAIN before : before[k].key # None
      BY <1>2, TakenHasKeys
    <2> QED  BY <1>1, <2>1, <2>2
  <1> QED  BY <1>1, <1>3, <1>4 DEF FileInv

\* The invariant where a line has no key to compare.
LEMMA NoKeyFile ==
  ASSUME FileInv, ParseNoKey, ReaderInv'
  PROVE  FileInv'
PROOF
  <1>1. /\ pc = "pair" /\ UNCHANGED <<handed, status>> /\ handed \in Seq(Pairs) /\ status \in {"success", "failure"}
        /\ pair.key = None /\ pc' = "crashed"
    BY DEF ParseNoKey, FileInv
  <1>2. PICK before \in Seq(Pairs) : handed = Append(before, pair)
    BY <1>1 DEF FileInv
  <1>3. \E k \in DOMAIN handed : handed[k].key = None
    <2>1. /\ DOMAIN handed = DOMAIN before \cup {Len(before) + 1}
          /\ handed[Len(before) + 1] = pair
      BY <1>2, OnePairMore
    <2> QED  BY <1>1, <2>1
  <1> QED  BY <1>1, <1>3 DEF FileInv

\* Every step of the reader and of parse_file() keeps the invariant.
LEMMA FileStep == FileInv /\ [ConfigNext]_vars => FileInv'
PROOF
  <1> SUFFICES ASSUME FileInv, [ConfigNext]_vars PROVE FileInv'
    OBVIOUS
  <1>1. ReaderInv'
    BY StepFits DEF FileInv
  <1>2. CASE ReadNextPair /\ UNCHANGED <<config, is_set, status>>
    BY <1>1, <1>2, ReaderFile
  <1>3. ASSUME NEW name \in Single, ParseSingle(name)
        PROVE  FileInv'
    BY <1>1, <1>3, SingleFile
  <1>4. ASSUME NEW name \in Merged, ParseMerged(name)
        PROVE  FileInv'
    BY <1>1, <1>4, MergedFile
  <1>5. CASE ParseUnknown
    BY <1>1, <1>5, UnknownFile
  <1>6. CASE ParseNoKey
    BY <1>1, <1>6, NoKeyFile
  <1>7. CASE EndOfFile
    <2>1. /\ pc = "eof" /\ pc' = "cleanup" /\ UNCHANGED <<handed, config, is_set, rest>>
          /\ status' = IF Complete THEN "success" ELSE "failure"
          /\ Taken(handed, config, is_set) /\ rest = <<>> /\ handed \in Seq(Pairs)
      BY <1>7 DEF EndOfFile, Stop, FileInv
    <2>2. (Complete <=> WellFormed(handed)) /\ Means(handed, config)
      BY <2>1, CompleteMeans
    <2>3. \A k \in DOMAIN handed : handed[k].key # None
      BY <2>1, TakenHasKeys
    <2> HIDE DEF Complete
    <2> QED  BY <1>1, <2>1, <2>2, <2>3 DEF FileInv
  <1>8. CASE Cleanup
    <2>1. /\ pc = "cleanup" /\ pc' = (IF status = "success" THEN "accepted" ELSE "rejected")
          /\ UNCHANGED <<handed, config, is_set, rest, status>>
      BY <1>8 DEF Cleanup
    <2>2. CASE status = "success"
      BY <1>1, <2>1, <2>2 DEF FileInv
    <2>3. CASE status = "failure"
      BY <1>1, <2>1, <2>3 DEF FileInv
    <2> QED  BY <2>2, <2>3 DEF FileInv
  <1>9. CASE UNCHANGED vars
    <2>1. UNCHANGED <<handed, config, is_set, rest, status, pc, pair>>
      BY <1>9 DEF vars, reader_vars
    <2> QED  BY <1>1, <2>1 DEF FileInv
  <1> QED
    BY <1>2, <1>3, <1>4, <1>5, <1>6, <1>7, <1>8, <1>9 DEF ConfigNext

\* parse_file() accepts exactly the files that are well formed, and fills in what
\* they mean: for every file, of any number of lines of any length, in any order.
THEOREM AcceptsWhatIsMeant == Spec => []AcceptedAsMeant
PROOF
  <1>1. FileInv => AcceptedAsMeant
    <2> SUFFICES ASSUME FileInv, Ended PROVE
            /\ pc = "accepted" <=> WellFormed(handed) /\ rest = <<>>
            /\ pc = "accepted" => Means(handed, config)
            /\ pc = "crashed" <=> \E k \in DOMAIN handed : handed[k].key = None
      BY DEF AcceptedAsMeant
    <2>1. CASE pc = "accepted"
      BY <2>1 DEF FileInv
    <2>2. CASE pc = "rejected"
      BY <2>2 DEF FileInv
    <2>3. CASE pc = "crashed"
      <3>1. PICK k \in DOMAIN handed : handed[k].key = None
        BY <2>3 DEF FileInv
      <3>2. ~ \E name \in Single \cup Merged : handed[k].key = <<name>>
        BY <3>1, DirectiveWords
      <3>3. ~WellFormed(handed)
        BY <3>2 DEF WellFormed
      <3> QED  BY <2>3, <3>1, <3>3
    <2> QED  BY <2>1, <2>2, <2>3 DEF Ended
  <1> QED  BY <1>1, FileInit, FileStep, PTL DEF Spec

----------------------------------------------------------------------------
(* The types.                                                               *)

\* What is stored in an int is one.
LEMMA ToIntRange ==
  ASSUME NEW n \in Int
  PROVE  ToInt(n) \in -IntHalf .. IntHalf - 1
PROOF
  <1>1. IntHalf \in Nat /\ IntHalf > 0
    BY ConfigFileAssumption
  <1>2. ASSUME NEW a \in Int, NEW b \in Nat, b > 0
        PROVE  a % b \in 0 .. b - 1
    BY <1>2
  <1>3. n + IntHalf \in Int /\ 2 * IntHalf \in Nat /\ 2 * IntHalf > 0
    BY <1>1
  <1>4. (n + IntHalf) % (2 * IntHalf) \in 0 .. 2 * IntHalf - 1
    BY <1>2, <1>3
  <1> DEFINE m == (n + IntHalf) % (2 * IntHalf)
  <1>5. m \in 0 .. 2 * IntHalf - 1
    BY <1>4
  <1>6. ToInt(n) = m - IntHalf
    BY DEF ToInt
  <1> HIDE DEF m
  <1> QED  BY <1>1, <1>5, <1>6

\* atol() gives a number for every word.
LEMMA AtolIsInt ==
  ASSUME NEW word
  PROVE  Atol(word) \in Int
  BY ConfigFileAssumption DEF Atol

ConfigTyped ==
  /\ file \in Seq(Byte)
  /\ DOMAIN config = DOMAIN NoConfig
  /\ config.mfa \in BOOLEAN
  /\ config.authentication_timeout \in -IntHalf .. IntHalf - 1
  /\ is_set \subseteq Single

\* Every step keeps the types.
LEMMA TypedStep == ConfigTyped /\ [ConfigNext]_vars => ConfigTyped'
PROOF
  <1> SUFFICES ASSUME ConfigTyped, [ConfigNext]_vars PROVE ConfigTyped'
    OBVIOUS
  <1>1. ASSUME UNCHANGED <<file, config, is_set>>
        PROVE  ConfigTyped'
    BY <1>1 DEF ConfigTyped
  <1>2. CASE ReadNextPair /\ UNCHANGED <<config, is_set, status>>
    BY <1>1, <1>2 DEF ReadNextPair, Fill, FillWith, SkipLine, ReturnPair
  <1>3. ASSUME NEW name \in Single, ParseSingle(name)
        PROVE  ConfigTyped'
    <2>1. CASE ~ValidSingle(name, pair.values)
      BY <1>1, <1>3, <2>1 DEF ParseSingle
    <2>2. CASE ValidSingle(name, pair.values)
      <3> DEFINE w == pair.values[1]
      <3>1. /\ config' = [config EXCEPT ![name] = Convert(name, w)]
            /\ is_set' = is_set \cup {name} /\ file' = file
        BY <1>3, <2>2 DEF ParseSingle
      <3> HIDE DEF w
      <3>2. {"mfa", "authentication_timeout"} \subseteq DOMAIN config
        BY DEF ConfigTyped, NoConfig
      <3>3. Convert("mfa", w) \in BOOLEAN
        BY DEF Convert
      <3>4. Convert("authentication_timeout", w) \in -IntHalf .. IntHalf - 1
        <4>1. Convert("authentication_timeout", w) = ToInt(Atol(w))
          BY DEF Convert
        <4> QED  BY <4>1, AtolIsInt, ToIntRange
      <3>5. DOMAIN config' = DOMAIN config
        BY <3>1
      <3>6. config'.mfa \in BOOLEAN
        BY <3>1, <3>2, <3>3 DEF ConfigTyped
      <3>7. config'.authentication_timeout \in -IntHalf .. IntHalf - 1
        <4>1. CASE name = "authentication_timeout"
          BY <3>1, <3>2, <3>4, <4>1
        <4>2. CASE name # "authentication_timeout"
          <5>1. config'.authentication_timeout = config.authentication_timeout
            BY <3>1, <3>2, <4>2
          <5> QED  BY <5>1 DEF ConfigTyped
        <4> QED  BY <4>1, <4>2
      <3> QED  BY <3>1, <3>5, <3>6, <3>7 DEF ConfigTyped
    <2> QED  BY <2>1, <2>2
  <1>4. ASSUME NEW name \in Merged, ParseMerged(name)
        PROVE  ConfigTyped'
    <2>1. /\ config' = [config EXCEPT ![name] = @ \o pair.values]
          /\ is_set' = is_set /\ file' = file
      BY <1>4 DEF ParseMerged
    <2>2. name \notin {"mfa", "authentication_timeout"}
      BY DEF Merged
    <2>3. /\ DOMAIN config' = DOMAIN config
          /\ config'.mfa = config.mfa
          /\ config'.authentication_timeout = config.authentication_timeout
      BY <2>1, <2>2 DEF ConfigTyped, NoConfig
    <2> QED  BY <2>1, <2>3 DEF ConfigTyped
  <1>5. CASE ParseUnknown \/ ParseNoKey \/ EndOfFile \/ Cleanup
    BY <1>1, <1>5 DEF ParseUnknown, ParseNoKey, EndOfFile, Cleanup
  <1>6. CASE UNCHANGED vars
    BY <1>1, <1>6 DEF vars, reader_vars
  <1> QED  BY <1>2, <1>3, <1>4, <1>5, <1>6 DEF ConfigNext

\* The types at the start of parse_file().
LEMMA TypedInit == ConfigInit => ConfigTyped
PROOF
  <1> SUFFICES ASSUME ConfigInit PROVE ConfigTyped
    OBVIOUS
  <1>1. file \in Seq(Byte) /\ config = NoConfig /\ is_set = {}
    BY ReaderAssumption DEF ConfigInit, ReaderInit
  <1>2. NoConfig.mfa = FALSE /\ NoConfig.authentication_timeout = 0
    BY DEF NoConfig
  <1>3. 0 \in -IntHalf .. IntHalf - 1
    BY ConfigFileAssumption
  <1> QED  BY <1>1, <1>2, <1>3 DEF ConfigTyped

\* The reader's strings are strings, and struct config has what its types hold:
\* a number of minutes that fits no int is wrapped into one.
THEOREM ConfigTypeCorrect == Spec => []ConfigTypeOK
PROOF
  <1>1. ConfigTyped /\ FileInv => ConfigTypeOK
    BY DEF ConfigTyped, FileInv, ReaderInv, ConfigTypeOK, ReaderTypeOK
  <1> QED  BY <1>1, TypedInit, TypedStep, FileInit, FileStep, PTL DEF Spec

----------------------------------------------------------------------------
(* The lines of a file, one after the other.                                *)

\* The k-th element is the one that k elements are up to.
LEMMA NthIs ==
  ASSUME NEW n \in Nat, NEW S, S \subseteq 1 .. n, NEW i \in S
  PROVE  Nth(S, Cardinality(UpTo(S, i))) = i
PROOF
  <1> DEFINE c == Cardinality(UpTo(S, i))
             m == Nth(S, c)
  <1>1. /\ IsFiniteSet(S) /\ Cardinality(S) \in Nat
        /\ \A j : IsFiniteSet(UpTo(S, j)) /\ Cardinality(UpTo(S, j)) \in Nat
    BY UpToFinite
  <1>0. \A j \in S : j \in Nat
    OBVIOUS
  <1>2. m \in S /\ Cardinality(UpTo(S, m)) = c
    BY DEF Nth, UpTo
  <1>3. ASSUME NEW a \in S, NEW b \in S, a < b
        PROVE  Cardinality(UpTo(S, a)) # Cardinality(UpTo(S, b))
    <2>1. UpTo(S, a) \in SUBSET UpTo(S, b)
      <3>1. \A j \in S : j <= a => j <= b
        BY <1>0, <1>3
      <3> QED  BY <3>1 DEF UpTo
    <2>2. b \in UpTo(S, b) /\ b \notin UpTo(S, a)
      BY <1>0, <1>3 DEF UpTo
    <2>3. UpTo(S, a) # UpTo(S, b)
      BY <2>2
    <2> QED  BY <1>1, <2>1, <2>3, FS_Subset
  <1> HIDE DEF m
  <1>4. m < i \/ i < m \/ m = i
    BY <1>0, <1>2
  <1> QED  BY <1>2, <1>3, <1>4 DEF m

\* What comes behind the elements of S leaves them where they are.
LEMMA NthStands ==
  ASSUME NEW n \in Nat, NEW m \in Nat, NEW S \in SUBSET (1 .. n),
         NEW U \in SUBSET (1 .. m), S \subseteq U, \A i \in U : i <= n => i \in S,
         NEW k \in 1 .. Cardinality(S)
  PROVE  Nth(U, k) = Nth(S, k)
PROOF
  <1> DEFINE i == Nth(S, k)
  <1>1. i \in S /\ Cardinality(UpTo(S, i)) = k
    BY NthThere
  <1> HIDE DEF i
  <1>2. UpTo(U, i) = UpTo(S, i)
    <2>1. i <= n /\ i \in Nat /\ \A j \in U : j \in Nat
      BY <1>1
    <2>2. \A j \in U : j <= i => j \in S
      BY <2>1
    <2> QED  BY <2>2 DEF UpTo
  <1>3. i \in U
    BY <1>1
  <1>4. Nth(U, Cardinality(UpTo(U, i))) = i
    BY <1>3, NthIs
  <1> QED  BY <1>1, <1>2, <1>4 DEF i

\* One element behind all others is the last.
LEMMA NthLast ==
  ASSUME NEW n \in Nat, NEW S, S \subseteq 1 .. n, NEW i \in Nat, i > n
  PROVE  /\ Cardinality(S \cup {i}) = Cardinality(S) + 1
         /\ Nth(S \cup {i}, Cardinality(S) + 1) = i
PROOF
  <1>1. IsFiniteSet(S) /\ Cardinality(S) \in Nat
    BY UpToFinite
  <1>2. i \notin S
    OBVIOUS
  <1>3. Cardinality(S \cup {i}) = Cardinality(S) + 1
    BY <1>1, <1>2, FS_AddElement
  <1>4. UpTo(S \cup {i}, i) = S \cup {i}
    <2>1. \A j \in S \cup {i} : j <= i
      OBVIOUS
    <2> QED  BY <2>1 DEF UpTo
  <1>5. S \cup {i} \subseteq 1 .. i
    OBVIOUS
  <1>6. Nth(S \cup {i}, Cardinality(UpTo(S \cup {i}, i))) = i
    BY <1>5, NthIs
  <1> QED  BY <1>3, <1>4, <1>6

\* A set of indices and its mirror image have as many elements.
LEMMA MirrorSize ==
  ASSUME NEW n \in Nat, NEW S, S \subseteq 1 .. n
  PROVE  Cardinality({n + 1 - i : i \in S}) = Cardinality(S)
PROOF
  <1> DEFINE T == {n + 1 - i : i \in S}
             f == [i \in S |-> n + 1 - i]
  <1>1. IsFiniteSet(S)
    BY UpToFinite
  <1>2. f \in [S -> T] /\ \A i, j \in S : f[i] = f[j] => i = j
    OBVIOUS
  <1>3. \A t \in T : \E i \in S : f[i] = t
    OBVIOUS
  <1> HIDE DEF f, T
  <1>4. f \in Bijection(S, T)
    BY <1>2, <1>3 DEF Bijection, Injection, Surjection, IsInjective
  <1> QED  BY <1>1, <1>4, FS_Bijection DEF ExistsBijection, T

\* There are as many starts as ends.
LEMMA RunsPair ==
  ASSUME NEW n \in Nat, NEW inside, inside \subseteq 1 .. n,
         NEW starts, starts = {i \in inside : i - 1 \notin inside},
         NEW ends, ends = {i \in inside : i + 1 \notin inside}
  PROVE  Cardinality(starts) = Cardinality(ends)
PROOF
  <1> DEFINE M(S) == {n + 1 - i : i \in S}
             first == {i \in M(inside) : i - 1 \notin M(inside)}
             last  == {i \in M(inside) : i + 1 \notin M(inside)}
  <1>1. \A i \in Int : i \in M(inside) <=> n + 1 - i \in inside
    <2>1. \A i \in inside : i \in Int
      OBVIOUS
    <2> QED  BY <2>1
  <1>2. M(inside) \subseteq 1 .. n
    OBVIOUS
  <1>3. first = M(ends)
    <2>1. \A i \in first : i \in M(ends)
      <3> SUFFICES ASSUME NEW i \in first PROVE i \in M(ends)
        OBVIOUS
      <3>1. i \in M(inside) /\ i \in Int /\ i - 1 \notin M(inside)
        BY <1>2
      <3>2. n + 1 - i \in inside /\ n + 1 - i + 1 \notin inside
        <4>1. n + 1 - (i - 1) = n + 1 - i + 1 /\ i - 1 \in Int
          BY <3>1
        <4> HIDE DEF M
        <4> QED  BY <1>1, <3>1, <4>1
      <3>3. i = n + 1 - (n + 1 - i)
        BY <3>1
      <3> QED  BY <3>2, <3>3
    <2>2. \A i \in ends : n + 1 - i \in first
      <3> SUFFICES ASSUME NEW i \in ends PROVE n + 1 - i \in first
        OBVIOUS
      <3>1. i \in inside /\ i \in Int /\ i + 1 \notin inside
        OBVIOUS
      <3>2. n + 1 - i \in M(inside)
        BY <3>1
      <3>3. n + 1 - i - 1 \notin M(inside)
        <4>1. n + 1 - i - 1 \in Int /\ n + 1 - (n + 1 - i - 1) = i + 1
          BY <3>1
        <4> HIDE DEF M
        <4> QED  BY <1>1, <3>1, <4>1
      <3> HIDE DEF M
      <3> QED  BY <3>2, <3>3
    <2> HIDE DEF first
    <2> QED  BY <2>1, <2>2
  <1>4. last = M(starts)
    <2>1. \A i \in last : i \in M(starts)
      <3> SUFFICES ASSUME NEW i \in last PROVE i \in M(starts)
        OBVIOUS
      <3>1. i \in M(inside) /\ i \in Int /\ i + 1 \notin M(inside)
        BY <1>2
      <3>2. n + 1 - i \in inside /\ n + 1 - i - 1 \notin inside
        <4>1. n + 1 - (i + 1) = n + 1 - i - 1 /\ i + 1 \in Int
          BY <3>1
        <4> HIDE DEF M
        <4> QED  BY <1>1, <3>1, <4>1
      <3>3. i = n + 1 - (n + 1 - i)
        BY <3>1
      <3> QED  BY <3>2, <3>3
    <2>2. \A i \in starts : n + 1 - i \in last
      <3> SUFFICES ASSUME NEW i \in starts PROVE n + 1 - i \in last
        OBVIOUS
      <3>1. i \in inside /\ i \in Int /\ i - 1 \notin inside
        OBVIOUS
      <3>2. n + 1 - i \in M(inside)
        BY <3>1
      <3>3. n + 1 - i + 1 \notin M(inside)
        <4>1. n + 1 - i + 1 \in Int /\ n + 1 - (n + 1 - i + 1) = i - 1
          BY <3>1
        <4> HIDE DEF M
        <4> QED  BY <1>1, <3>1, <4>1
      <3> HIDE DEF M
      <3> QED  BY <3>2, <3>3
    <2> HIDE DEF last
    <2> QED  BY <2>1, <2>2
  <1>5. starts \subseteq 1 .. n /\ ends \subseteq 1 .. n
    OBVIOUS
  <1>6. Cardinality(M(starts)) = Cardinality(starts) /\ Cardinality(M(ends)) = Cardinality(ends)
    BY <1>5, MirrorSize
  <1>7. Cardinality(first) <= Cardinality(last)
    <2> HIDE DEF M
    <2> QED  BY <1>2, RunsEnd
  <1>8. Cardinality(starts) <= Cardinality(ends)
    BY RunsEnd
  <1>9. Cardinality(starts) \in Nat /\ Cardinality(ends) \in Nat
    BY <1>5, UpToFinite
  <1> HIDE DEF M, first, last
  <1> QED  BY <1>3, <1>4, <1>6, <1>7, <1>8, <1>9

----------------------------------------------------------------------------
\* A line of the file is a run of bytes that are no line ends.
Inside(s) == {i \in DOMAIN s : s[i] \notin {Newline}}
Starts(s) == {i \in Inside(s) : i - 1 \notin Inside(s)}
Ends(s)   == {i \in Inside(s) : i + 1 \notin Inside(s)}
Lines(s)  == Runs(s, {Newline})

\* Nothing, or lines that have all ended.
Closed(s) == s = <<>> \/ s[Len(s)] = Newline

\* As many lines as starts, and each from its start to its end.
LEMMA LinesAre ==
  ASSUME NEW s \in Seq(Byte)
  PROVE  /\ Len(s) \in Nat /\ Inside(s) \subseteq 1 .. Len(s)
         /\ Starts(s) \subseteq 1 .. Len(s) /\ Ends(s) \subseteq 1 .. Len(s)
         /\ Cardinality(Starts(s)) \in Nat /\ Cardinality(Ends(s)) = Cardinality(Starts(s))
         /\ Lines(s) \in Seq(Seq(Byte)) /\ Len(Lines(s)) = Cardinality(Starts(s))
         /\ \A k \in 1 .. Cardinality(Starts(s)) :
              Lines(s)[k] = SubSeq(s, Nth(Starts(s), k), Nth(Ends(s), k))
PROOF
  <1>1. Len(s) \in Nat /\ DOMAIN s = 1 .. Len(s)
    BY LenProperties
  <1>2. /\ Inside(s) \subseteq 1 .. Len(s)
        /\ Starts(s) \subseteq 1 .. Len(s) /\ Ends(s) \subseteq 1 .. Len(s)
    BY <1>1 DEF Inside, Starts, Ends
  <1>3. Cardinality(Starts(s)) \in Nat
    BY <1>1, <1>2, UpToFinite
  <1>4. Cardinality(Ends(s)) = Cardinality(Starts(s))
    <2>1. /\ Starts(s) = {i \in Inside(s) : i - 1 \notin Inside(s)}
          /\ Ends(s) = {i \in Inside(s) : i + 1 \notin Inside(s)}
      BY DEF Starts, Ends
    <2>2. ASSUME NEW inside, inside = Inside(s), NEW starts, starts = Starts(s),
                 NEW ends, ends = Ends(s)
          PROVE  Cardinality(ends) = Cardinality(starts)
      <3>1. /\ inside \subseteq 1 .. Len(s)
            /\ starts = {i \in inside : i - 1 \notin inside}
            /\ ends = {i \in inside : i + 1 \notin inside}
        BY <1>2, <2>1, <2>2
      <3> QED  BY <1>1, <3>1, RunsPair
    <2> QED  BY <2>2
  <1>5. Lines(s) \in Seq(Seq(Byte))
    BY RunsTyped DEF Lines
  <1>6. Lines(s) = [k \in 1 .. Cardinality(Starts(s)) |->
                      SubSeq(s, Nth(Starts(s), k), Nth(Ends(s), k))]
    <2> DEFINE inside == {i \in DOMAIN s : s[i] \notin {Newline}}
               starts == {i \in inside : i - 1 \notin inside}
               ends   == {i \in inside : i + 1 \notin inside}
    <2>1. Starts(s) = starts /\ Ends(s) = ends
      BY DEF Starts, Ends, Inside
    <2>2. Lines(s) = [k \in 1 .. Cardinality(starts) |-> SubSeq(s, Nth(starts, k), Nth(ends, k))]
      BY DEF Lines, Runs, Nth
    <2> HIDE DEF starts, ends
    <2> QED  BY <2>1, <2>2
  <1>7. DOMAIN Lines(s) = 1 .. Cardinality(Starts(s))
    BY <1>6
  <1>8. Len(Lines(s)) \in Nat /\ DOMAIN Lines(s) = 1 .. Len(Lines(s))
    BY <1>5, LenProperties
  <1>9. Len(Lines(s)) = Cardinality(Starts(s))
    <2> DEFINE a == Len(Lines(s))
               b == Cardinality(Starts(s))
    <2>1. a \in Nat /\ b \in Nat /\ 1 .. a = 1 .. b
      BY <1>3, <1>7, <1>8
    <2> HIDE DEF a, b
    <2>2. a = b
      BY <2>1
    <2> QED  BY <2>2 DEF a, b
  <1> QED  BY <1>1, <1>2, <1>3, <1>4, <1>5, <1>6, <1>9

\* More bytes after the end of a line add starts and ends behind it.
LEMMA LinesBehind ==
  ASSUME NEW s \in Seq(Byte), NEW t \in Seq(Byte), Closed(s)
  PROVE  LET n == Len(s) IN
         /\ Starts(s \o t) = Starts(s) \cup {i \in Starts(s \o t) : i > n}
         /\ Ends(s \o t) = Ends(s) \cup {i \in Ends(s \o t) : i > n}
         /\ Inside(s \o t) = Inside(s) \cup {n + i : i \in Inside(t)}
         /\ n \notin Inside(s \o t)
PROOF
  <1> DEFINE n == Len(s)
             m == Len(t)
             w == s \o t
  <1>1. n \in Nat /\ DOMAIN s = 1 .. n /\ m \in Nat /\ DOMAIN t = 1 .. m
    BY LenProperties
  <1>2. /\ DOMAIN w = 1 .. n + m
        /\ \A i \in 1 .. n + m : w[i] = IF i <= n THEN s[i] ELSE t[i - n]
    <2>1. /\ w \in Seq(Byte) /\ Len(w) = n + m
          /\ \A i \in 1 .. n + m : w[i] = IF i <= n THEN s[i] ELSE t[i - n]
      BY ConcatProperties
    <2> HIDE DEF w
    <2> QED  BY <2>1, LenProperties
  <1> HIDE DEF w, n, m
  <1>3. \A i \in Inside(s) : i \in 1 .. n /\ i \in Inside(w)
    BY <1>1, <1>2 DEF Inside
  <1>4. \A i \in Inside(w) : i <= n => i \in Inside(s)
    BY <1>1, <1>2 DEF Inside
  <1>5. n \notin Inside(s) /\ n \notin Inside(w)
    <2>1. CASE s = <<>>
      <3>1. n = 0
        BY <2>1, EmptySeq DEF n
      <3> QED  BY <1>1, <1>2, <3>1 DEF Inside
    <2>2. CASE s[n] = Newline
      BY <1>1, <1>3, <1>4, <2>2 DEF Inside
    <2> QED  BY <2>1, <2>2 DEF Closed, n
  <1>6. Inside(w) = Inside(s) \cup {n + i : i \in Inside(t)}
    <2>1. \A i \in Inside(w) : i > n => i - n \in Inside(t) /\ i = n + (i - n)
      BY <1>1, <1>2 DEF Inside
    <2>2. \A i \in Inside(t) : n + i \in Inside(w)
      <3> SUFFICES ASSUME NEW i \in Inside(t) PROVE n + i \in Inside(w)
        OBVIOUS
      <3>1. i \in 1 .. m /\ t[i] # Newline
        BY <1>1 DEF Inside
      <3> DEFINE j == n + i
      <3>2. j \in 1 .. n + m /\ ~(j <= n) /\ j - n = i
        BY <1>1, <3>1
      <3> HIDE DEF j
      <3>3. w[j] = t[i]
        BY <1>2, <3>2
      <3>4. j \in Inside(w)
        BY <1>2, <3>1, <3>2, <3>3 DEF Inside
      <3> QED  BY <3>4 DEF j
    <2>3. \A i \in Inside(w) : i <= n \/ i > n
      BY <1>1, <1>2 DEF Inside
    <2> QED  BY <1>3, <1>4, <2>1, <2>2, <2>3
  <1>7. Inside(w) \subseteq Int /\ Inside(s) \subseteq Int
    BY <1>1, <1>2 DEF Inside
  <1>8. Starts(w) = Starts(s) \cup {i \in Starts(w) : i > n}
    <2>1. \A i \in Starts(s) : i \in Starts(w)
      BY <1>1, <1>3, <1>4, <1>7 DEF Starts
    <2>2. \A i \in Starts(w) : i > n \/ i \in Starts(s)
      BY <1>1, <1>3, <1>4, <1>7 DEF Starts
    <2> QED  BY <2>1, <2>2
  <1>9. Ends(w) = Ends(s) \cup {i \in Ends(w) : i > n}
    <2>1. \A i \in Ends(s) : i \in Ends(w)
      <3> SUFFICES ASSUME NEW i \in Ends(s) PROVE i \in Ends(w)
        OBVIOUS
      <3>1. i \in Inside(s) /\ i \in Inside(w) /\ i + 1 \notin Inside(s) /\ i # n /\ i <= n /\ i \in Int
        BY <1>3, <1>5, <1>7 DEF Ends
      <3>2. i + 1 <= n
        BY <1>1, <3>1
      <3> QED  BY <1>4, <3>1, <3>2 DEF Ends
    <2>2. \A i \in Ends(w) : i > n \/ i \in Ends(s)
      <3> SUFFICES ASSUME NEW i \in Ends(w), ~(i > n) PROVE i \in Ends(s)
        OBVIOUS
      <3>1. i \in Inside(w) /\ i \in Int /\ i + 1 \notin Inside(w)
        BY <1>7 DEF Ends
      <3>2. i \in Inside(s) /\ i + 1 \notin Inside(s)
        BY <1>1, <1>3, <1>4, <3>1
      <3> QED  BY <3>2 DEF Ends
    <2> QED  BY <2>1, <2>2
  <1> QED  BY <1>5, <1>6, <1>8, <1>9 DEF w, n

\* The lines that have ended stay what they are, whatever follows.
LEMMA LinesStand ==
  ASSUME NEW s \in Seq(Byte), NEW t \in Seq(Byte), Closed(s)
  PROVE  /\ Len(Lines(s)) <= Len(Lines(s \o t))
         /\ \A k \in 1 .. Len(Lines(s)) : Lines(s \o t)[k] = Lines(s)[k]
PROOF
  <1> DEFINE n == Len(s)
             m == Len(t)
             w == s \o t
  <1>1. w \in Seq(Byte) /\ Len(w) = n + m /\ n \in Nat /\ m \in Nat
    BY ConcatProperties, LenProperties
  <1>2. /\ Starts(w) = Starts(s) \cup {i \in Starts(w) : i > n}
        /\ Ends(w) = Ends(s) \cup {i \in Ends(w) : i > n}
    BY LinesBehind
  <1> HIDE DEF w
  <1>3. /\ Starts(s) \subseteq 1 .. n /\ Ends(s) \subseteq 1 .. n
        /\ Cardinality(Starts(s)) \in Nat /\ Cardinality(Ends(s)) = Cardinality(Starts(s))
        /\ Len(Lines(s)) = Cardinality(Starts(s))
        /\ \A k \in 1 .. Cardinality(Starts(s)) :
             Lines(s)[k] = SubSeq(s, Nth(Starts(s), k), Nth(Ends(s), k))
    BY LinesAre
  <1>4. /\ Starts(w) \subseteq 1 .. n + m /\ Ends(w) \subseteq 1 .. n + m
        /\ Cardinality(Starts(w)) \in Nat
        /\ Len(Lines(w)) = Cardinality(Starts(w))
        /\ \A k \in 1 .. Cardinality(Starts(w)) :
             Lines(w)[k] = SubSeq(w, Nth(Starts(w), k), Nth(Ends(w), k))
    BY <1>1, LinesAre
  <1> HIDE DEF n, m
  <1>5. Cardinality(Starts(s)) <= Cardinality(Starts(w))
    <2>1. IsFiniteSet(Starts(w))
      <3>1. n + m \in Nat
        BY <1>1
      <3> QED  BY <1>4, <3>1, UpToFinite
    <2>2. Starts(s) \in SUBSET Starts(w)
      BY <1>2
    <2> QED  BY <2>1, <2>2, FS_Subset
  <1>6. ASSUME NEW k \in 1 .. Cardinality(Starts(s))
        PROVE  Lines(w)[k] = Lines(s)[k]
    <2>1. n + m \in Nat /\ k \in 1 .. Cardinality(Starts(w))
      BY <1>1, <1>3, <1>4, <1>5
    <2>3. Nth(Starts(w), k) = Nth(Starts(s), k)
      <3>1. /\ n \in Nat /\ n + m \in Nat /\ k \in 1 .. Cardinality(Starts(s))
            /\ Starts(s) \in SUBSET (1 .. n) /\ Starts(w) \in SUBSET (1 .. n + m)
            /\ Starts(s) \subseteq Starts(w) /\ \A i \in Starts(w) : i <= n => i \in Starts(s)
        BY <1>1, <1>2, <1>3, <1>4, <2>1
      <3> QED  BY <3>1, NthStands
    <2>4. Nth(Ends(w), k) = Nth(Ends(s), k)
      <3>1. /\ n \in Nat /\ n + m \in Nat /\ k \in 1 .. Cardinality(Ends(s))
            /\ Ends(s) \in SUBSET (1 .. n) /\ Ends(w) \in SUBSET (1 .. n + m)
            /\ Ends(s) \subseteq Ends(w) /\ \A i \in Ends(w) : i <= n => i \in Ends(s)
        BY <1>1, <1>2, <1>3, <1>4, <2>1
      <3> QED  BY <3>1, NthStands
    <2>5. Nth(Starts(s), k) \in 1 .. n /\ Nth(Ends(s), k) \in 1 .. n
      <3>1. Nth(Starts(s), k) \in Starts(s)
        BY <1>1, <1>3, NthThere
      <3>2. Nth(Ends(s), k) \in Ends(s)
        BY <1>1, <1>3, NthThere
      <3> QED  BY <1>3, <3>1, <3>2
    <2>6. SubSeq(w, Nth(Starts(s), k), Nth(Ends(s), k)) = SubSeq(s, Nth(Starts(s), k), Nth(Ends(s), k))
      BY <2>5, SubSeqOfConcat1 DEF w, n
    <2> QED  BY <1>3, <1>4, <2>1, <2>3, <2>4, <2>6
  <1> QED  BY <1>3, <1>4, <1>5, <1>6 DEF w

\* A line that follows is one more.
LEMMA LinesMore ==
  ASSUME NEW s \in Seq(Byte), NEW t \in Seq(Byte), Closed(s), t # <<>>,
         \A i \in 1 .. Len(t) : t[i] # Newline
  PROVE  Len(Lines(s \o t)) = Len(Lines(s)) + 1 /\ Lines(s \o t)[Len(Lines(s)) + 1] = t
PROOF
  <1> DEFINE n == Len(s)
             m == Len(t)
             w == s \o t
             c == Cardinality(Starts(s))
  <1>1. w \in Seq(Byte) /\ Len(w) = n + m /\ n \in Nat /\ m \in Nat /\ m > 0
    BY ConcatProperties, LenProperties, EmptySeq
  <1>2. /\ Starts(w) = Starts(s) \cup {i \in Starts(w) : i > n}
        /\ Ends(w) = Ends(s) \cup {i \in Ends(w) : i > n}
        /\ Inside(w) = Inside(s) \cup {n + i : i \in Inside(t)}
        /\ n \notin Inside(w)
    BY LinesBehind
  <1>3. /\ Starts(s) \subseteq 1 .. n /\ Ends(s) \subseteq 1 .. n /\ Inside(s) \subseteq 1 .. n
        /\ c \in Nat /\ Cardinality(Ends(s)) = c /\ Len(Lines(s)) = c
    BY LinesAre
  <1>4. /\ Len(Lines(w)) = Cardinality(Starts(w))
        /\ \A k \in 1 .. Cardinality(Starts(w)) :
             Lines(w)[k] = SubSeq(w, Nth(Starts(w), k), Nth(Ends(w), k))
    BY <1>1, LinesAre
  <1>5. Inside(t) = 1 .. m
    BY LenProperties DEF Inside
  <1> HIDE DEF w, n, m
  <1>6. \A i \in Int : i > n => (i \in Inside(w) <=> i <= n + m)
    <2>1. \A i \in Int : i > n /\ i <= n + m => i \in Inside(w)
      <3> SUFFICES ASSUME NEW i \in Int, i > n, i <= n + m PROVE i \in Inside(w)
        OBVIOUS
      <3>1. i - n \in 1 .. m /\ i = n + (i - n)
        BY <1>1
      <3> QED  BY <1>2, <1>5, <3>1
    <2>2. \A i \in Inside(w) : i <= n + m
      <3>1. \A i \in Inside(s) : i <= n + m
        BY <1>1, <1>3
      <3>2. \A i \in Inside(t) : n + i <= n + m
        BY <1>1, <1>5
      <3> QED  BY <1>2, <3>1, <3>2
    <2> QED  BY <2>1, <2>2
  <1>7. Inside(w) \subseteq Int
    <2>1. \A i \in Inside(s) : i \in Int
      BY <1>3
    <2>2. \A i \in Inside(t) : n + i \in Int
      BY <1>1, <1>5
    <2> QED  BY <1>2, <2>1, <2>2
  <1>8. Starts(w) = Starts(s) \cup {n + 1}
    <2>1. n + 1 \in Starts(w)
      <3> DEFINE j == n + 1
      <3>1. j \in Inside(w) /\ j - 1 = n
        BY <1>1, <1>6
      <3> HIDE DEF j
      <3>2. j \in Starts(w)
        BY <1>2, <3>1 DEF Starts
      <3> QED  BY <3>2 DEF j
    <2>2. ASSUME NEW i \in Starts(w), i > n
          PROVE  i = n + 1
      <3>1. i \in Inside(w) /\ i \in Int /\ i - 1 \notin Inside(w) /\ i <= n + m
        BY <1>6, <1>7, <2>2 DEF Starts
      <3>2. ~(i - 1 > n)
        BY <1>1, <1>6, <3>1
      <3> QED  BY <1>1, <2>2, <3>1, <3>2
    <2> QED  BY <1>1, <1>2, <2>1, <2>2
  <1>9. Ends(w) = Ends(s) \cup {n + m}
    <2>1. n + m \in Ends(w)
      <3>1. n + m \in Inside(w) /\ n + m + 1 \notin Inside(w)
        BY <1>1, <1>6
      <3> QED  BY <3>1 DEF Ends
    <2>2. ASSUME NEW i \in Ends(w), i > n
          PROVE  i = n + m
      <3>1. i \in Inside(w) /\ i \in Int /\ i + 1 \notin Inside(w) /\ i <= n + m
        BY <1>6, <1>7, <2>2 DEF Ends
      <3>2. ~(i + 1 <= n + m)
        BY <1>1, <1>6, <2>2, <3>1
      <3> QED  BY <1>1, <3>1, <3>2
    <2> QED  BY <1>1, <1>2, <2>1, <2>2
  <1>10. Cardinality(Starts(w)) = c + 1 /\ Nth(Starts(w), c + 1) = n + 1
    <2>1. n + 1 \in Nat /\ n + 1 > n
      BY <1>1
    <2>2. ASSUME NEW S, S = Starts(s), NEW i, i = n + 1
          PROVE  Cardinality(S \cup {i}) = c + 1 /\ Nth(S \cup {i}, c + 1) = i
      <3>1. /\ n \in Nat /\ S \subseteq 1 .. n /\ i \in Nat /\ i > n
            /\ Cardinality(S) = c
        BY <1>1, <1>3, <2>1, <2>2
      <3> HIDE DEF c
      <3> QED  BY <3>1, NthLast
    <2> QED  BY <1>8, <2>2
  <1>11. Nth(Ends(w), c + 1) = n + m
    <2>1. n + m \in Nat /\ n + m > n
      BY <1>1
    <2>2. ASSUME NEW S, S = Ends(s), NEW i, i = n + m
          PROVE  Nth(S \cup {i}, c + 1) = i
      <3>1. /\ n \in Nat /\ S \subseteq 1 .. n /\ i \in Nat /\ i > n
            /\ Cardinality(S) = c
        BY <1>1, <1>3, <2>1, <2>2
      <3> HIDE DEF c
      <3> QED  BY <3>1, NthLast
    <2> QED  BY <1>9, <2>2
  <1> HIDE DEF c
  <1>12. SubSeq(w, n + 1, n + m) = t
    <2>1. n + 1 \in n + 1 .. n + m /\ n + m \in n + 1 .. n + m
      BY <1>1
    <2>2. SubSeq(w, n + 1, n + m) = SubSeq(t, n + 1 - n, n + m - n)
      BY <2>1, SubSeqOfConcat2 DEF w, n, m
    <2>3. n + 1 - n = 1 /\ n + m - n = m
      BY <1>1
    <2>4. SubSeq(t, 1, m) = t
      BY SubSeqFull DEF m
    <2> QED  BY <2>2, <2>3, <2>4
  <1>13. c + 1 \in 1 .. Cardinality(Starts(w))
    BY <1>3, <1>10
  <1> QED  BY <1>3, <1>4, <1>10, <1>11, <1>12, <1>13 DEF w

\* The end of a line adds none.
LEMMA LinesEnd ==
  ASSUME NEW s \in Seq(Byte)
  PROVE  Lines(s \o <<Newline>>) = Lines(s)
PROOF
  <1> DEFINE n == Len(s)
             w == s \o <<Newline>>
  <1>1. <<Newline>> \in Seq(Byte) /\ Len(<<Newline>>) = 1 /\ <<Newline>>[1] = Newline
    BY ReaderAssumption
  <1>2. /\ n \in Nat /\ DOMAIN s = 1 .. n
        /\ w \in Seq(Byte) /\ Len(w) = n + 1
        /\ \A i \in 1 .. n + 1 : w[i] = IF i <= n THEN s[i] ELSE <<Newline>>[i - n]
    BY <1>1, ConcatProperties, LenProperties
  <1>3. DOMAIN w = 1 .. n + 1
    BY <1>2, LenProperties
  <1> HIDE DEF w, n
  <1>4. Inside(w) = Inside(s)
    <2>1. \A i \in 1 .. n : w[i] = s[i]
      BY <1>2
    <2>2. w[n + 1] = Newline
      <3>1. n + 1 \in 1 .. n + 1 /\ ~(n + 1 <= n) /\ n + 1 - n = 1
        BY <1>2
      <3> QED  BY <1>1, <1>2, <3>1
    <2>3. 1 .. n + 1 = (1 .. n) \cup {n + 1}
      BY <1>2
    <2> QED  BY <1>2, <1>3, <2>1, <2>2, <2>3 DEF Inside
  <1>5. Starts(w) = Starts(s) /\ Ends(w) = Ends(s)
    BY <1>4 DEF Starts, Ends
  <1>6. /\ Starts(s) \subseteq 1 .. n /\ Ends(s) \subseteq 1 .. n
        /\ Cardinality(Ends(s)) = Cardinality(Starts(s))
        /\ Lines(s) \in Seq(Seq(Byte)) /\ Len(Lines(s)) = Cardinality(Starts(s))
        /\ \A k \in 1 .. Cardinality(Starts(s)) :
             Lines(s)[k] = SubSeq(s, Nth(Starts(s), k), Nth(Ends(s), k))
    BY LinesAre DEF n
  <1>7. /\ Lines(w) \in Seq(Seq(Byte)) /\ Len(Lines(w)) = Cardinality(Starts(w))
        /\ \A k \in 1 .. Cardinality(Starts(w)) :
             Lines(w)[k] = SubSeq(w, Nth(Starts(w), k), Nth(Ends(w), k))
    BY <1>2, LinesAre
  <1>8. ASSUME NEW k \in 1 .. Len(Lines(s))
        PROVE  Lines(w)[k] = Lines(s)[k]
    <2>1. Nth(Starts(s), k) \in 1 .. n /\ Nth(Ends(s), k) \in 1 .. n
      <3>1. Nth(Starts(s), k) \in Starts(s)
        BY <1>2, <1>6, NthThere
      <3>2. Nth(Ends(s), k) \in Ends(s)
        BY <1>2, <1>6, NthThere
      <3> QED  BY <1>6, <3>1, <3>2
    <2>2. SubSeq(w, Nth(Starts(s), k), Nth(Ends(s), k)) = SubSeq(s, Nth(Starts(s), k), Nth(Ends(s), k))
      BY <1>1, <2>1, SubSeqOfConcat1 DEF w, n
    <2> QED  BY <1>5, <1>6, <1>7, <2>2
  <1>9. Len(Lines(w)) = Len(Lines(s))
    BY <1>5, <1>6, <1>7
  <1>10. Lines(w) = Lines(s)
    BY <1>6, <1>7, <1>8, <1>9, SeqEqual
  <1> QED  BY <1>10 DEF w

----------------------------------------------------------------------------
\* What a line gives: a pair, or nothing.
Part(line) == IF Blank(line) THEN <<>> ELSE <<Pair(line)>>
Parts(s)   == [k \in DOMAIN Lines(s) |-> Part(Lines(s)[k])]

\* What a line gives is a sequence of pairs.
LEMMA PartTyped ==
  ASSUME NEW line \in Seq(Byte)
  PROVE  Part(line) \in Seq(Pairs)
PROOF
  <1>1. Pair(line) \in Pairs
    BY PairTyped
  <1> QED  BY <1>1 DEF Part

\* PairsOf flattens what the lines give, one by one.
LEMMA PartsAre ==
  ASSUME NEW s \in Seq(Byte)
  PROVE  /\ Parts(s) \in Seq(Seq(Pairs)) /\ Len(Parts(s)) = Len(Lines(s))
         /\ \A k \in 1 .. Len(Lines(s)) : Parts(s)[k] = Part(Lines(s)[k])
         /\ PairsOf(s) = FlattenSeq(Parts(s))
PROOF
  <1>1. /\ Len(Lines(s)) \in Nat /\ DOMAIN Lines(s) = 1 .. Len(Lines(s))
        /\ \A k \in 1 .. Len(Lines(s)) : Lines(s)[k] \in Seq(Byte)
    <2>1. Lines(s) \in Seq(Seq(Byte))
      BY LinesAre
    <2> QED  BY <2>1, LenProperties, ElementOfSeq
  <1>2. \A k \in 1 .. Len(Lines(s)) : Part(Lines(s)[k]) \in Seq(Pairs)
    BY <1>1, PartTyped
  <1>3. Parts(s) = [k \in 1 .. Len(Lines(s)) |-> Part(Lines(s)[k])]
    BY <1>1 DEF Parts
  <1>4. Parts(s) \in Seq(Seq(Pairs)) /\ Len(Parts(s)) = Len(Lines(s))
    <2> DEFINE n == Len(Lines(s))
               X == Seq(Pairs)
    <2>1. n \in Nat /\ Parts(s) \in [1 .. n -> X]
      BY <1>1, <1>2, <1>3
    <2> HIDE DEF n, X
    <2>2. Parts(s) \in Seq(X) /\ Len(Parts(s)) = n
      BY <2>1
    <2> QED  BY <2>2 DEF n, X
  <1>5. PairsOf(s) = FlattenSeq(Parts(s))
    BY DEF PairsOf, Parts, Part, Lines
  <1> QED  BY <1>3, <1>4, <1>5

\* A prefix of a sequence is one of a longer sequence.
LEMMA PrefixGrows ==
  ASSUME NEW S, NEW a \in Seq(S), NEW b \in Seq(S), NEW c \in Seq(S), IsPrefix(a, b)
  PROVE  IsPrefix(a, b \o c)
PROOF
  <1> DEFINE n == Len(a)
  <1>1. n \in Nat /\ Len(b) \in Nat /\ Len(c) \in Nat /\ n <= Len(b)
    BY LenProperties DEF IsPrefix
  <1>2. Len(b \o c) = Len(b) + Len(c)
    BY ConcatProperties
  <1>3. SubSeq(a, 1, n) = SubSeq(b, 1, n)
    BY DEF IsPrefix
  <1> HIDE DEF n
  <1>4. SubSeq(b \o c, 1, n) = SubSeq(b, 1, n)
    <2>1. CASE n = 0
      BY <2>1, SubSeqEmpty
    <2>2. CASE n > 0
      <3>1. 1 \in 1 .. Len(b) /\ n \in 1 .. Len(b)
        BY <1>1, <2>2
      <3> QED  BY <3>1, SubSeqOfConcat1
    <2> QED  BY <1>1, <2>1, <2>2
  <1>5. n <= Len(b \o c)
    BY <1>1, <1>2
  <1> QED  BY <1>3, <1>4, <1>5 DEF IsPrefix, n

\* What has been flattened is typed, and a prefix of what will be.
LEMMA FlattensGrow ==
  ASSUME NEW S, NEW t \in Seq(Seq(S)), NEW f, Flattens(f, t, Len(t)), NEW a \in 1 .. Len(t),
         NEW i \in a .. Len(t)
  PROVE  f[a] \in Seq(S) /\ f[i] \in Seq(S) /\ IsPrefix(f[a], f[i])
PROOF
  <1> DEFINE n == Len(t)
             Typed(j) == f[j] \in Seq(S)
             Bad == {j \in 1 .. n : ~Typed(j)}
             Apart == {j \in a .. n : ~IsPrefix(f[a], f[j])}
  <1>1. n \in Nat /\ \A j \in 1 .. n : t[j] \in Seq(S)
    BY LenProperties, ElementOfSeq
  <1>2. \A j \in 1 .. n : f[j] = IF j = 1 THEN t[j] ELSE f[j - 1] \o t[j]
    BY FlattensAt
  <1> HIDE DEF n
  <1>3. Bad = {}
    <2> SUFFICES ASSUME Bad # {} PROVE FALSE
      OBVIOUS
    <2> DEFINE k == Min(Bad)
    <2>1. k \in Bad /\ \A j \in Bad : k <= j
      <3>1. Bad \subseteq Nat
        OBVIOUS
      <3> HIDE DEF Bad
      <3> QED  BY <3>1, FirstOf
    <2> HIDE DEF k
    <2>2. k \in 1 .. n /\ ~Typed(k)
      BY <2>1
    <2>3. k # 1
      BY <1>1, <1>2, <2>2
    <2>4. k - 1 \in 1 .. n /\ k - 1 \notin Bad
      <3>1. k - 1 \in 1 .. n /\ ~(k <= k - 1)
        BY <1>1, <2>2, <2>3
      <3> HIDE DEF Bad
      <3> QED  BY <2>1, <3>1
    <2>5. f[k - 1] \in Seq(S)
      BY <2>4
    <2>6. f[k] = f[k - 1] \o t[k] /\ t[k] \in Seq(S)
      BY <1>1, <1>2, <2>2, <2>3
    <2>7. f[k] \in Seq(S)
      BY <2>5, <2>6, ConcatProperties
    <2> QED  BY <2>2, <2>7
  <1>4. \A j \in 1 .. n : f[j] \in Seq(S)
    BY <1>3
  <1>5. a \in 1 .. n /\ i \in a .. n
    BY DEF n
  <1>6. Apart = {}
    <2> SUFFICES ASSUME Apart # {} PROVE FALSE
      OBVIOUS
    <2> DEFINE k == Min(Apart)
    <2>1. k \in Apart /\ \A j \in Apart : k <= j
      <3>1. Apart \subseteq Nat
        BY <1>5
      <3> HIDE DEF Apart
      <3> QED  BY <3>1, FirstOf
    <2> HIDE DEF k
    <2>2. k \in a .. n /\ ~IsPrefix(f[a], f[k])
      BY <2>1
    <2>3. IsPrefix(f[a], f[a])
      <3>1. Len(f[a]) \in Nat
        BY <1>4, <1>5, LenProperties
      <3> QED  BY <3>1 DEF IsPrefix
    <2>4. k # a /\ k - 1 \in a .. n /\ k \in 1 .. n /\ k # 1 /\ k - 1 \in 1 .. n
      <3>1. k # a
        BY <2>2, <2>3
      <3> QED  BY <1>1, <1>5, <2>2, <3>1
    <2>5. k - 1 \notin Apart
      <3>1. ~(k <= k - 1)
        BY <1>1, <1>5, <2>2
      <3> HIDE DEF Apart
      <3> QED  BY <2>1, <3>1
    <2>6. IsPrefix(f[a], f[k - 1])
      BY <2>4, <2>5
    <2>7. f[k] = f[k - 1] \o t[k] /\ t[k] \in Seq(S) /\ f[k - 1] \in Seq(S) /\ f[a] \in Seq(S)
      BY <1>1, <1>2, <1>4, <1>5, <2>4
    <2> QED  BY <2>2, <2>6, <2>7, PrefixGrows
  <1>7. i \in 1 .. n
    BY <1>1, <1>5
  <1> QED  BY <1>4, <1>5, <1>6, <1>7

\* So is what a longer sequence of sequences flattens to.
LEMMA FlattenPrefix ==
  ASSUME NEW S, NEW s \in Seq(Seq(S)), NEW t \in Seq(Seq(S)), Len(s) <= Len(t),
         \A i \in 1 .. Len(s) : t[i] = s[i]
  PROVE  /\ FlattenSeq(s) \in Seq(S) /\ FlattenSeq(t) \in Seq(S)
         /\ IsPrefix(FlattenSeq(s), FlattenSeq(t))
PROOF
  <1>1. Len(s) \in Nat /\ Len(t) \in Nat
    BY LenProperties
  <1>2. ASSUME NEW u \in Seq(Seq(S))
        PROVE  FlattenSeq(u) \in Seq(S)
    <2>1. CASE Len(u) = 0
      <3>1. u = <<>>
        BY <2>1, EmptySeq
      <3>2. FlattenSeq(u) = u
        BY <2>1, <3>1 DEF FlattenSeq
      <3> QED  BY <3>1, <3>2, EmptySeq
    <2>2. CASE Len(u) # 0
      <3>1. Len(u) \in Nat \ {0} /\ Len(u) \in 1 .. Len(u) /\ Len(u) \in Len(u) .. Len(u)
        BY <2>2, LenProperties
      <3>2. PICK f : Flattens(f, u, Len(u)) /\ FlattenSeq(u) = f[Len(u)]
        BY <3>1, FlattenIs
      <3>3. f[Len(u)] \in Seq(S)
        BY <3>1, <3>2, FlattensGrow
      <3> QED  BY <3>2, <3>3
    <2> QED  BY <2>1, <2>2
  <1>3. FlattenSeq(s) \in Seq(S) /\ FlattenSeq(t) \in Seq(S)
    BY <1>2
  <1>4. CASE Len(s) = 0
    <2>1. FlattenSeq(s) = <<>>
      <3>1. s = <<>>
        BY <1>4, EmptySeq
      <3> QED  BY <1>4, <3>1 DEF FlattenSeq
    <2>2. Len(FlattenSeq(t)) \in Nat /\ Len(<<>>) = 0
      BY <1>3, LenProperties, EmptySeq
    <2>3. SubSeq(<<>>, 1, 0) = <<>> /\ SubSeq(FlattenSeq(t), 1, 0) = <<>>
      BY SubSeqEmpty
    <2> QED  BY <1>3, <2>1, <2>2, <2>3 DEF IsPrefix
  <1>5. CASE Len(s) # 0
    <2>1. Len(s) \in Nat \ {0} /\ Len(t) \in Nat \ {0}
      BY <1>1, <1>5
    <2>2. PICK f : Flattens(f, s, Len(s)) /\ FlattenSeq(s) = f[Len(s)]
      BY <2>1, FlattenIs
    <2>3. PICK g : Flattens(g, t, Len(t)) /\ FlattenSeq(t) = g[Len(t)]
      BY <2>1, FlattenIs
    <2>4. f[Len(s)] = g[Len(s)]
      BY <2>1, <2>2, <2>3, FlattensAgree
    <2>5. Len(s) \in 1 .. Len(t) /\ Len(t) \in Len(s) .. Len(t)
      BY <2>1
    <2>6. IsPrefix(g[Len(s)], g[Len(t)])
      BY <2>3, <2>5, FlattensGrow
    <2> QED  BY <1>3, <2>2, <2>3, <2>4, <2>6
  <1> QED  BY <1>3, <1>4, <1>5

----------------------------------------------------------------------------
\* The pairs of the lines that have ended stand, a line that follows adds its
\* own, and its end adds none.
LEMMA PairsStand ==
  ASSUME NEW s \in Seq(Byte), NEW t \in Seq(Byte), Closed(s)
  PROVE  IsPrefix(PairsOf(s), PairsOf(s \o t))
PROOF
  <1>1. s \o t \in Seq(Byte)
    BY ConcatProperties
  <1> DEFINE w == s \o t
  <1>2. /\ Len(Lines(s)) <= Len(Lines(w))
        /\ \A k \in 1 .. Len(Lines(s)) : Lines(w)[k] = Lines(s)[k]
    BY LinesStand
  <1> HIDE DEF w
  <1>3. /\ Parts(s) \in Seq(Seq(Pairs)) /\ Len(Parts(s)) = Len(Lines(s))
        /\ \A k \in 1 .. Len(Lines(s)) : Parts(s)[k] = Part(Lines(s)[k])
        /\ PairsOf(s) = FlattenSeq(Parts(s))
    BY PartsAre
  <1>4. /\ Parts(w) \in Seq(Seq(Pairs)) /\ Len(Parts(w)) = Len(Lines(w))
        /\ \A k \in 1 .. Len(Lines(w)) : Parts(w)[k] = Part(Lines(w)[k])
        /\ PairsOf(w) = FlattenSeq(Parts(w))
    BY <1>1, PartsAre DEF w
  <1>5. Len(Lines(s)) \in Nat /\ Len(Lines(w)) \in Nat
    BY <1>3, <1>4, LenProperties
  <1>6. \A k \in 1 .. Len(Parts(s)) : Parts(w)[k] = Parts(s)[k]
    BY <1>2, <1>3, <1>4, <1>5
  <1>7. IsPrefix(FlattenSeq(Parts(s)), FlattenSeq(Parts(w)))
    BY <1>2, <1>3, <1>4, <1>6, FlattenPrefix
  <1> QED  BY <1>3, <1>4, <1>7 DEF w

\* A line that follows closed text adds what it gives, and changes nothing before it.
LEMMA PairsMore ==
  ASSUME NEW s \in Seq(Byte), NEW t \in Seq(Byte), Closed(s),
         \A i \in 1 .. Len(t) : t[i] # Newline
  PROVE  PairsOf(s \o t) = PairsOf(s) \o Part(t)
PROOF
  <1> DEFINE w == s \o t
  <1>1. w \in Seq(Byte)
    BY ConcatProperties
  <1>3. /\ Parts(s) \in Seq(Seq(Pairs)) /\ Len(Parts(s)) = Len(Lines(s))
        /\ \A k \in 1 .. Len(Lines(s)) : Parts(s)[k] = Part(Lines(s)[k])
        /\ PairsOf(s) = FlattenSeq(Parts(s))
    BY PartsAre
  <1>4. CASE t = <<>>
    <2>1. w = s
      BY <1>4, ConcatEmptySeq
    <2>2. Part(t) = <<>>
      <3>1. DOMAIN t = {}
        BY <1>4
      <3>2. Content(t) = t
        BY <3>1 DEF Content, Before
      <3>3. ToSet(t) = {}
        BY <3>1 DEF ToSet
      <3> QED  BY <3>2, <3>3 DEF Part, Blank
    <2>3. PairsOf(s) \in Seq(Pairs)
      BY <1>3, FlattenPrefix
    <2> QED  BY <2>1, <2>2, <2>3, ConcatEmptySeq
  <1>5. CASE t # <<>>
    <2>1. /\ Len(Lines(s)) <= Len(Lines(w))
          /\ \A k \in 1 .. Len(Lines(s)) : Lines(w)[k] = Lines(s)[k]
      BY LinesStand
    <2>2. Len(Lines(w)) = Len(Lines(s)) + 1 /\ Lines(w)[Len(Lines(s)) + 1] = t
      BY <1>5, LinesMore
    <2> HIDE DEF w
    <2>3. /\ Parts(w) \in Seq(Seq(Pairs)) /\ Len(Parts(w)) = Len(Lines(w))
          /\ \A k \in 1 .. Len(Lines(w)) : Parts(w)[k] = Part(Lines(w)[k])
          /\ PairsOf(w) = FlattenSeq(Parts(w))
      BY <1>1, PartsAre
    <2>4. Len(Lines(s)) \in Nat /\ Len(Lines(w)) \in Nat
      BY <1>3, <2>3, LenProperties
    <2>5. \A k \in 1 .. Len(Parts(s)) : Parts(w)[k] = Parts(s)[k]
      BY <1>3, <2>1, <2>3, <2>4
    <2>6. Len(Parts(w)) = Len(Parts(s)) + 1
      BY <1>3, <2>2, <2>3
    <2>7. Parts(w)[Len(Parts(w))] = Part(t)
      <3>1. Len(Lines(s)) + 1 \in 1 .. Len(Lines(w))
        BY <2>2, <2>4
      <3> QED  BY <2>2, <2>3, <3>1
    <2>8. FlattenSeq(Parts(w)) = FlattenSeq(Parts(s)) \o Parts(w)[Len(Parts(w))]
      BY <1>3, <2>3, <2>5, <2>6, FlattenAppend
    <2> QED  BY <1>3, <2>3, <2>7, <2>8 DEF w
  <1> QED  BY <1>4, <1>5

\* The line end itself adds no pair.
LEMMA PairsEnd ==
  ASSUME NEW s \in Seq(Byte)
  PROVE  PairsOf(s \o <<Newline>>) = PairsOf(s)
  BY LinesEnd DEF PairsOf, Lines

----------------------------------------------------------------------------
\* The byte b is nowhere in s.
Without(s, b) == \A i \in 1 .. Len(s) : s[i] # b

\* A byte is nowhere in s if it is not in its range.
LEMMA WithoutIs ==
  ASSUME NEW s \in Seq(Byte), NEW b
  PROVE  b \notin ToSet(s) <=> Without(s, b)
PROOF
  <1>1. DOMAIN s = 1 .. Len(s)
    BY LenProperties
  <1> QED  BY <1>1 DEF Without, ToSet

\* A byte is nowhere in two texts put together if it is in neither.
LEMMA WithoutBoth ==
  ASSUME NEW s \in Seq(Byte), NEW t \in Seq(Byte), NEW b
  PROVE  Without(s \o t, b) <=> Without(s, b) /\ Without(t, b)
PROOF
  <1> DEFINE n == Len(s)
             m == Len(t)
             w == s \o t
  <1>1. /\ n \in Nat /\ m \in Nat /\ Len(w) = n + m
        /\ \A i \in 1 .. n + m : w[i] = IF i <= n THEN s[i] ELSE t[i - n]
    BY ConcatProperties, LenProperties
  <1> HIDE DEF n, m, w
  <1>2. ASSUME Without(w, b)
        PROVE  (\A i \in 1 .. n : s[i] # b) /\ (\A i \in 1 .. m : t[i] # b)
    <2>1. ASSUME NEW i \in 1 .. n
          PROVE  s[i] # b
      <3>1. i \in 1 .. n + m /\ i <= n
        BY <1>1
      <3> QED  BY <1>1, <1>2, <3>1 DEF Without
    <2>2. ASSUME NEW i \in 1 .. m
          PROVE  t[i] # b
      <3> DEFINE j == n + i
      <3>1. j \in 1 .. n + m /\ ~(j <= n) /\ j - n = i
        BY <1>1
      <3> HIDE DEF j
      <3> QED  BY <1>1, <1>2, <3>1 DEF Without
    <2> QED  BY <2>1, <2>2
  <1>3. ASSUME \A i \in 1 .. n : s[i] # b, \A i \in 1 .. m : t[i] # b, NEW i \in 1 .. n + m
        PROVE  w[i] # b
    <2>1. i <= n => i \in 1 .. n
      BY <1>1
    <2>2. ~(i <= n) => i - n \in 1 .. m
      BY <1>1
    <2> QED  BY <1>1, <1>3, <2>1, <2>2
  <1> QED  BY <1>1, <1>2, <1>3 DEF Without, n, m, w

\* strchr() finds nothing.
LEMMA BeforeNone ==
  ASSUME NEW s \in Seq(Byte), NEW b, Without(s, b)
  PROVE  Before(s, {b}) = s
PROOF
  <1>1. DOMAIN s = 1 .. Len(s)
    BY LenProperties
  <1>2. {k \in DOMAIN s : s[k] \in {b}} = {}
    BY <1>1 DEF Without
  <1> QED  BY <1>2 DEF Before

\* A line and its end.
LEMMA BeforeLast ==
  ASSUME NEW s \in Seq(Byte), s # <<>>, s[Len(s)] = Newline,
         \A i \in 1 .. Len(s) - 1 : s[i] # Newline
  PROVE  LET u == Before(s, {Newline}) IN
         u \in Seq(Byte) /\ Without(u, Newline) /\ s = u \o <<Newline>>
PROOF
  <1> DEFINE n == Len(s)
             u == SubSeq(s, 1, n - 1)
             ends == {k \in DOMAIN s : s[k] \in {Newline}}
  <1>1. n \in Nat /\ n > 0 /\ DOMAIN s = 1 .. n /\ \A i \in 1 .. n : s[i] \in Byte
    BY LenProperties, EmptySeq, ElementOfSeq
  <1>2. ends = {n}
    <2>1. s[n] = Newline /\ \A i \in 1 .. n - 1 : s[i] # Newline
      OBVIOUS
    <2> HIDE DEF n
    <2>2. \A i \in 1 .. n : i = n \/ i \in 1 .. n - 1
      BY <1>1
    <2>3. n \in 1 .. n
      BY <1>1
    <2> QED  BY <1>1, <2>1, <2>2, <2>3
  <1>3. Min(ends) = n
    <2>1. ends \subseteq Nat /\ ends # {}
      BY <1>1, <1>2
    <2> HIDE DEF ends
    <2>2. Min(ends) \in ends
      BY <2>1, FirstOf
    <2> QED  BY <1>2, <2>2
  <1>4. Before(s, {Newline}) = u
    <2>1. ends # {}
      BY <1>2
    <2> QED  BY <1>3, <2>1 DEF Before
  <1>5. u \in Seq(Byte) /\ Len(u) = n - 1 /\ \A i \in 1 .. n - 1 : u[i] = s[i]
    <2>1. \A i \in 1 .. n - 1 : s[i] \in Byte
      BY <1>1
    <2> DEFINE e == n - 1
    <2>2. e \in Int /\ 1 \in Int /\ (\A i \in 1 .. e : s[i] \in Byte)
      BY <1>1, <2>1
    <2> HIDE DEF e
    <2>3. /\ SubSeq(s, 1, e) \in Seq(Byte)
          /\ Len(SubSeq(s, 1, e)) = IF 1 <= e THEN e - 1 + 1 ELSE 0
          /\ \A i \in 1 .. e - 1 + 1 : SubSeq(s, 1, e)[i] = s[1 + i - 1]
      BY <2>2, SubSeqProperties
    <2>4. e - 1 + 1 = e /\ e >= 0 /\ \A i \in 1 .. e : 1 + i - 1 = i
      BY <1>1 DEF e
    <2>5. SubSeq(s, 1, e) = u /\ e = n - 1
      BY DEF e
    <2> HIDE DEF n, u
    <2>6. Len(u) = e /\ \A i \in 1 .. e : u[i] = s[i]
      BY <2>2, <2>3, <2>4, <2>5
    <2> QED  BY <2>3, <2>5, <2>6
  <1>6. s = u \o <<Newline>>
    <2>1. 1 \in 1 .. n /\ n \in 1 .. n
      BY <1>1
    <2>2. SubSeq(s, 1, n) = SubSeq(s, 1, n - 1) \o <<s[n]>>
      BY <2>1, SubSeqRecursiveSecond
    <2> QED  BY <2>2, SubSeqFull
  <1>7. Without(u, Newline)
    BY <1>5 DEF Without
  <1> HIDE DEF u
  <1> QED  BY <1>4, <1>5, <1>6, <1>7

\* fgets() takes the beginning of what is left, and no more than a line of it.
LEMMA FgetsTakes ==
  ASSUME NEW s \in Seq(Byte), NEW n \in Nat, n >= 2
  PROVE  LET c == Fgets(s, n)
             r == SubSeq(s, Len(c) + 1, Len(s))
         IN  /\ c \in Seq(Byte) /\ r \in Seq(Byte) /\ s = c \o r
             /\ \A i \in 1 .. Len(c) - 1 : c[i] # Newline
PROOF
  <1> DEFINE c == Fgets(s, n)
             r == SubSeq(s, Len(c) + 1, Len(s))
             before == Before(s, {Newline})
             ends == {k \in DOMAIN s : s[k] \in {Newline}}
             line == Len(before)
             stop(l, len) == IF l = len /\ l < n THEN l
                             ELSE IF l < n - 1 THEN l + 1 ELSE n - 1
             e == stop(line, Len(s))
  <1>1. Len(s) \in Nat /\ DOMAIN s = 1 .. Len(s) /\ \A i \in 1 .. Len(s) : s[i] \in Byte
    BY LenProperties, ElementOfSeq
  <1>2. c = SubSeq(s, 1, e)
    BY DEF Fgets
  <1>3. /\ line \in Nat /\ line <= Len(s)
        /\ \A i \in 1 .. line : s[i] # Newline
    <2>1. before \in Seq(Byte) /\ line <= Len(s)
      BY BeforeShortens
    <2>2. line \in Nat
      BY <2>1, LenProperties
    <2>3. CASE ends = {}
      <3>1. before = s
        BY <2>3 DEF Before
      <3>2. \A i \in 1 .. Len(s) : s[i] # Newline
        BY <1>1, <2>3
      <3> QED  BY <1>1, <3>1, <3>2
    <2>4. CASE ends # {}
      <3>1. ends \subseteq Nat
        BY <1>1
      <3>2. Min(ends) \in ends /\ \A k \in ends : Min(ends) <= k
        <4> HIDE DEF ends
        <4> QED  BY <2>4, <3>1, FirstOf
      <3> DEFINE m == Min(ends)
      <3>3. before = SubSeq(s, 1, m - 1)
        BY <2>4 DEF Before
      <3>4. m \in 1 .. Len(s) /\ \A k \in 1 .. Len(s) : s[k] = Newline => m <= k
        BY <1>1, <3>2
      <3> HIDE DEF m, before
      <3>5. line = m - 1
        <4>1. \A i \in 1 .. m - 1 : s[i] \in Byte
          BY <1>1, <3>4
        <4>2. Len(SubSeq(s, 1, m - 1)) = IF 1 <= m - 1 THEN m - 1 - 1 + 1 ELSE 0
          BY <3>4, <4>1, SubSeqProperties
        <4> QED  BY <3>3, <3>4, <4>2
      <3>6. \A i \in 1 .. m - 1 : s[i] # Newline
        BY <1>1, <3>4
      <3> QED  BY <2>1, <2>2, <3>5, <3>6
    <2> QED  BY <2>3, <2>4
  <1> HIDE DEF line
  <1>4. e \in 0 .. Len(s) /\ e - 1 <= line
    <2>1. ASSUME NEW l \in Nat, NEW len \in Nat, l <= len
          PROVE  stop(l, len) \in 0 .. len /\ stop(l, len) - 1 <= l
      BY <2>1
    <2> HIDE DEF stop
    <2> QED  BY <1>1, <1>3, <2>1
  <1> HIDE DEF e
  <1>5. /\ c \in Seq(Byte) /\ Len(c) = e
        /\ \A i \in 1 .. e : c[i] = s[i]
    <2>1. \A i \in 1 .. e : s[i] \in Byte
      BY <1>1, <1>4
    <2>2. e \in Int
      BY <1>4
    <2>3. /\ SubSeq(s, 1, e) \in Seq(Byte)
          /\ Len(SubSeq(s, 1, e)) = IF 1 <= e THEN e - 1 + 1 ELSE 0
          /\ \A i \in 1 .. e - 1 + 1 : SubSeq(s, 1, e)[i] = s[1 + i - 1]
      BY <2>1, <2>2, SubSeqProperties
    <2>4. e - 1 + 1 = e /\ e >= 0 /\ \A i \in 1 .. e : 1 + i - 1 = i
      BY <1>4
    <2> HIDE DEF c
    <2>5. Len(c) = e /\ \A i \in 1 .. e : c[i] = s[i]
      BY <1>2, <2>2, <2>3, <2>4
    <2> QED  BY <1>2, <2>3, <2>5
  <1> HIDE DEF c
  <1>6. r = SubSeq(s, e + 1, Len(s))
    BY <1>5
  <1> HIDE DEF r
  <1>7. r \in Seq(Byte)
    <2>1. \A i \in e + 1 .. Len(s) : s[i] \in Byte
      BY <1>1, <1>4
    <2>2. e + 1 \in Int /\ Len(s) \in Int
      BY <1>1, <1>4
    <2>3. SubSeq(s, e + 1, Len(s)) \in Seq(Byte)
      BY <2>1, <2>2, SubSeqProperties
    <2> QED  BY <1>6, <2>3
  <1>8. s = c \o r
    <2>1. 1 \in 1 .. Len(s) + 1 /\ e \in 1 - 1 .. Len(s) /\ Len(s) \in e .. Len(s)
      BY <1>1, <1>4
    <2>2. SubSeq(s, 1, e) \o SubSeq(s, e + 1, Len(s)) = SubSeq(s, 1, Len(s))
      BY <2>1, ConcatAdjacentSubSeq
    <2> QED  BY <1>2, <1>6, <2>2, SubSeqFull
  <1>9. \A i \in 1 .. Len(c) - 1 : c[i] # Newline
    <2>1. \A i \in 1 .. e - 1 : i \in 1 .. e /\ i \in 1 .. line
      BY <1>3, <1>4
    <2> QED  BY <1>3, <1>5, <2>1
  <1> QED  BY <1>5, <1>7, <1>8, <1>9 DEF c, r

----------------------------------------------------------------------------
(* Every line is handed over once.                                          *)

\* done is what the pairs were made of: with the line under way, with a line
\* that is not looked at yet, or alone, it is what has been read.
Filling(done) ==
  /\ file = (done \o buffer) \o rest /\ Without(buffer, Newline)
  /\ Closed(done) \/ (buffer = <<>> /\ rest = <<>>)

Whole(done) ==
  /\ Closed(done) /\ Without(buffer, Newline)
  /\ \/ file = (done \o buffer) \o (<<Newline>> \o rest)
     \/ file = done \o buffer /\ rest = <<>>

Through(done) == file = done \o rest /\ (Closed(done) \/ rest = <<>>)

\* The inductive invariant of a file without a NUL byte.
LineInv ==
  Without(file, Nul) =>
    \E done \in Seq(Byte) :
      /\ handed = PairsOf(done)
      /\ pc = "fill" => Filling(done)
      /\ pc = "line" => Whole(done)
      /\ pc \notin {"fill", "line"} => Through(done)

\* A line end is what it seems.
LEMMA EndTyped == <<Newline>> \in Seq(Byte) /\ Len(<<Newline>>) = 1 /\ <<Newline>>[1] = Newline
  BY ReaderAssumption

\* What is read next belongs to what has been read.
LEMMA Regroup ==
  ASSUME NEW a \in Seq(Byte), NEW b \in Seq(Byte), NEW c \in Seq(Byte), NEW d \in Seq(Byte)
  PROVE  (a \o b) \o (c \o d) = (a \o (b \o c)) \o d
PROOF
  <1>1. (a \o b) \o c = a \o (b \o c)
    BY ConcatAssociative, SMTT(60)
  <1> DEFINE ab == a \o b
  <1>2. ab \in Seq(Byte)
    BY ConcatProperties
  <1> HIDE DEF ab
  <1>3. (ab \o c) \o d = ab \o (c \o d)
    BY <1>2, ConcatAssociative, SMTT(60)
  <1> QED  BY <1>1, <1>3 DEF ab

\* One round of _read_full_line() loses nothing and adds nothing.
LEMMA FillWritten ==
  ASSUME NEW done \in Seq(Byte), file \in Seq(Byte), rest \in Seq(Byte), buffer \in Seq(Byte),
         Without(file, Nul), Filling(done), Fill
  PROVE  /\ pc' = "fill" => Filling(done)'
         /\ pc' = "line" => Whole(done)'
         /\ pc' \notin {"fill", "line"} => Through(done)'
PROOF
  <1> DEFINE c == Fgets(rest, ReadLen)
             r == SubSeq(rest, Len(c) + 1, Len(rest))
             t == buffer \o c
  <1>1. ReadLen \in Nat /\ ReadLen >= 2
    BY ReaderAssumption
  <1>2. /\ c \in Seq(Byte) /\ r \in Seq(Byte) /\ rest = c \o r
        /\ \A i \in 1 .. Len(c) - 1 : c[i] # Newline
    BY <1>1, FgetsTakes
  <1>3. t \in Seq(Byte)
    BY <1>2, ConcatProperties
  <1>4. Before(t, {Nul}) = t
    <2>1. file = (done \o buffer) \o rest /\ done \o buffer \in Seq(Byte)
      BY ConcatProperties DEF Filling
    <2>2. Without(done \o buffer, Nul) /\ Without(rest, Nul)
      BY <2>1, WithoutBoth
    <2> HIDE DEF c, r
    <2>3. Without(buffer, Nul) /\ Without(c, Nul)
      <3>1. c \in Seq(Byte) /\ r \in Seq(Byte) /\ Without(c \o r, Nul)
        BY <1>2, <2>2
      <3>2. Without(c, Nul)
        BY <3>1, WithoutBoth
      <3>3. Without(buffer, Nul)
        BY <2>2, WithoutBoth
      <3> QED  BY <3>2, <3>3
    <2>4. Without(t, Nul)
      BY <1>2, <2>3, WithoutBoth
    <2> QED  BY <1>3, <2>4, BeforeNone
  <1>5. /\ pc' = IF rest # <<>> /\ Newline \notin ToSet(t) THEN "fill"
                 ELSE IF t = <<>> THEN "eof" ELSE "line"
        /\ buffer' = Before(t, {Newline}) /\ rest' = r /\ file' = file
    <2> HIDE DEF t
    <2>1. Before(t, {Nul}) = t
      BY <1>4
    <2> QED  BY <2>1 DEF Fill, FillWith, t
  <1> HIDE DEF r, c
  <1>6. file = (done \o t) \o r
    <2>1. file = (done \o buffer) \o (c \o r)
      BY <1>2 DEF Filling
    <2>2. c \in Seq(Byte) /\ r \in Seq(Byte)
      BY <1>2
    <2>3. \A x, y, z \in Seq(Byte) : (done \o x) \o (y \o z) = (done \o (x \o y)) \o z
      BY Regroup
    <2>4. (done \o buffer) \o (c \o r) = (done \o (buffer \o c)) \o r
      BY <2>2, <2>3, ZenonT(60)
    <2> QED  BY <2>1, <2>4
  <1>7. Without(buffer, Newline) /\ (Closed(done) \/ (buffer = <<>> /\ rest = <<>>))
    BY DEF Filling
  <1>8. rest = <<>> => c = <<>> /\ r = <<>>
    BY <1>2, ConcatSimplifications
  <1>9. CASE Newline \notin ToSet(t)
    <2>1. Without(t, Newline)
      BY <1>3, <1>9, WithoutIs
    <2>2. buffer' = t
      BY <1>3, <1>5, <2>1, BeforeNone
    <2>3. CASE rest # <<>>
      <3>1. pc' = "fill" /\ Closed(done)
        BY <1>5, <1>7, <1>9, <2>3
      <3>2. Filling(done)'
        BY <1>5, <1>6, <2>1, <2>2, <3>1 DEF Filling, Closed, Without
      <3> QED  BY <3>1, <3>2
    <2>4. CASE rest = <<>>
      <3>1. r = <<>> /\ t = buffer
        BY <1>8, <2>4, ConcatEmptySeq
      <3>2. done \o t \in Seq(Byte)
        BY <1>3, ConcatProperties
      <3>3. file = done \o t
        BY <1>6, <3>1, <3>2, ConcatEmptySeq
      <3>4. CASE t = <<>>
        <4>1. pc' = "eof" /\ rest' = <<>>
          BY <1>5, <2>4, <3>1, <3>4
        <4>2. file' = done \o rest'
          BY <1>5, <3>3, <3>4, <4>1
        <4> QED  BY <4>1, <4>2 DEF Through
      <3>5. CASE t # <<>>
        <4>1. pc' = "line" /\ rest' = <<>> /\ Closed(done)
          BY <1>5, <1>7, <2>4, <3>1, <3>5
        <4>2. Whole(done)'
          BY <1>5, <2>1, <2>2, <3>3, <4>1 DEF Whole, Closed, Without
        <4> QED  BY <4>1, <4>2
      <3> QED  BY <3>4, <3>5
    <2> QED  BY <2>3, <2>4
  <1>10. CASE Newline \in ToSet(t)
    <2>1. rest # <<>>
      <3> SUFFICES ASSUME rest = <<>> PROVE FALSE
        OBVIOUS
      <3>1. t = buffer
        BY <1>8, ConcatEmptySeq
      <3>2. Newline \notin ToSet(t)
        BY <1>7, <3>1, WithoutIs
      <3> QED  BY <1>10, <3>2
    <2>2. Closed(done)
      BY <1>7, <2>1
    <2>3. t # <<>>
      <3>1. Newline \notin ToSet(<<>>)
        BY DEF ToSet
      <3> QED  BY <1>10, <3>1
    <2>4. pc' = "line"
      BY <1>5, <1>10, <2>3
    <2>5. t[Len(t)] = Newline /\ \A i \in 1 .. Len(t) - 1 : t[i] # Newline
      <3>0. /\ Len(buffer) \in Nat /\ Len(c) \in Nat /\ Len(t) = Len(buffer) + Len(c)
            /\ \A i \in 1 .. Len(buffer) + Len(c) :
                 t[i] = IF i <= Len(buffer) THEN buffer[i] ELSE c[i - Len(buffer)]
        BY <1>2, ConcatProperties, LenProperties
      <3>1. ~Without(t, Newline)
        BY <1>3, <1>10, WithoutIs
      <3> HIDE DEF t
      <3>2. \A i \in 1 .. Len(t) - 1 : t[i] # Newline
        <4> SUFFICES ASSUME NEW i \in 1 .. Len(t) - 1 PROVE t[i] # Newline
          OBVIOUS
        <4>1. CASE i <= Len(buffer)
          <5>1. t[i] = buffer[i] /\ i \in 1 .. Len(buffer)
            BY <3>0, <4>1
          <5> QED  BY <1>7, <5>1 DEF Without
        <4>2. CASE ~(i <= Len(buffer))
          <5>1. t[i] = c[i - Len(buffer)] /\ i - Len(buffer) \in 1 .. Len(c) - 1
            BY <3>0, <4>2
          <5> QED  BY <1>2, <5>1
        <4> QED  BY <4>1, <4>2
      <3>3. PICK i \in 1 .. Len(t) : t[i] = Newline
        BY <3>1 DEF Without
      <3>4. i = Len(t)
        BY <3>0, <3>2, <3>3
      <3> QED  BY <3>2, <3>3, <3>4
    <2>6. buffer' \in Seq(Byte) /\ Without(buffer', Newline) /\ t = buffer' \o <<Newline>>
      BY <1>3, <1>5, <2>3, <2>5, BeforeLast
    <2>7. file = (done \o buffer') \o (<<Newline>> \o r)
      <3> DEFINE u == buffer'
      <3>1. u \in Seq(Byte) /\ t = u \o <<Newline>>
        BY <2>6
      <3> HIDE DEF u, t
      <3>2. done \o (u \o <<Newline>>) = (done \o u) \o <<Newline>>
        BY <3>1, EndTyped, ConcatAssociative
      <3>3. done \o u \in Seq(Byte)
        BY <3>1, ConcatProperties
      <3>4. ((done \o u) \o <<Newline>>) \o r = (done \o u) \o (<<Newline>> \o r)
        BY <1>2, <3>3, EndTyped, ConcatAssociative, SMTT(60)
      <3>5. file = (done \o u) \o (<<Newline>> \o r)
        BY <1>6, <3>1, <3>2, <3>4
      <3> QED  BY <3>5 DEF u
    <2>8. Whole(done)'
      BY <1>5, <2>2, <2>6, <2>7 DEF Whole, Closed, Without
    <2> QED  BY <2>4, <2>8
  <1> QED  BY <1>9, <1>10

\* With its line, done is through, and the line has given its pair.
LEMMA LineTaken ==
  ASSUME NEW done \in Seq(Byte), rest \in Seq(Byte), buffer \in Seq(Byte), Whole(done)
  PROVE  /\ PairsOf(done) \in Seq(Pairs)
         /\ \E next \in Seq(Byte) : Through(next) /\ PairsOf(next) = PairsOf(done) \o Part(buffer)
PROOF
  <1> DEFINE line == done \o buffer
             next == line \o <<Newline>>
  <1>1. line \in Seq(Byte) /\ next \in Seq(Byte)
    BY EndTyped, ConcatProperties
  <1>2. PairsOf(line) = PairsOf(done) \o Part(buffer)
    BY PairsMore DEF Whole, Without
  <1>3. PairsOf(next) = PairsOf(line)
    BY <1>1, PairsEnd
  <1>4. Closed(next)
    <2>1. Len(next) = Len(line) + 1 /\ Len(line) \in Nat
      BY <1>1, EndTyped, ConcatProperties, LenProperties
    <2>2. next[Len(line) + 1] = <<Newline>>[Len(line) + 1 - Len(line)]
      <3>1. Len(line) + 1 \in 1 .. Len(line) + Len(<<Newline>>) /\ ~(Len(line) + 1 <= Len(line))
        BY <2>1, EndTyped
      <3> HIDE DEF line
      <3> QED  BY <1>1, <3>1, EndTyped, ConcatProperties
    <2>3. Len(line) + 1 - Len(line) = 1
      BY <2>1
    <2> HIDE DEF line, next
    <2> QED  BY <2>1, <2>2, <2>3, EndTyped DEF Closed
  <1>5. PairsOf(done) \in Seq(Pairs)
    <2>1. Parts(done) \in Seq(Seq(Pairs)) /\ PairsOf(done) = FlattenSeq(Parts(done))
      BY PartsAre
    <2> QED  BY <2>1, FlattenPrefix
  <1>6. CASE file = line \o (<<Newline>> \o rest)
    <2> HIDE DEF line
    <2>1. (line \o <<Newline>>) \o rest = line \o (<<Newline>> \o rest)
      BY <1>1, EndTyped, ConcatAssociative
    <2>2. Through(next)
      BY <1>4, <1>6, <2>1 DEF Through
    <2> QED  BY <1>1, <1>2, <1>3, <1>5, <2>2 DEF line
  <1>7. CASE file = line /\ rest = <<>>
    <2> HIDE DEF line
    <2>1. line \o rest = line
      BY <1>1, <1>7, ConcatEmptySeq
    <2>2. Through(line)
      BY <1>7, <2>1 DEF Through
    <2> QED  BY <1>1, <1>2, <1>5, <2>2
  <1> QED  BY <1>6, <1>7 DEF Whole

\* The steps of the reader.
LEMMA ReadWritten ==
  ASSUME FileInv, ConfigTyped, LineInv, ReadNextPair
  PROVE  LineInv'
PROOF
  <1>1. rest \in Seq(Byte) /\ buffer \in Seq(Byte) /\ file \in Seq(Byte) /\ handed \in Seq(Pairs)
    BY DEF FileInv, ReaderInv, ConfigTyped
  <1>2. file' = file
    BY DEF ReadNextPair, Fill, FillWith, SkipLine, ReturnPair
  <1>3. SUFFICES ASSUME Without(file, Nul)
                 PROVE  \E done \in Seq(Byte) :
                          /\ handed' = PairsOf(done)
                          /\ pc' = "fill" => Filling(done)'
                          /\ pc' = "line" => Whole(done)'
                          /\ pc' \notin {"fill", "line"} => Through(done)'
    BY <1>2 DEF LineInv, Without
  <1>4. PICK done \in Seq(Byte) :
          /\ handed = PairsOf(done)
          /\ pc = "fill" => Filling(done)
          /\ pc = "line" => Whole(done)
    BY <1>3 DEF LineInv
  <1>5. CASE Fill
    <2>1. pc = "fill" /\ handed' = handed
      BY <1>5 DEF Fill, FillWith
    <2>2. /\ pc' = "fill" => Filling(done)'
          /\ pc' = "line" => Whole(done)'
          /\ pc' \notin {"fill", "line"} => Through(done)'
      BY <1>1, <1>3, <1>4, <1>5, <2>1, FillWritten
    <2> QED  BY <1>4, <2>1, <2>2
  <1>6. ASSUME pc = "line"
        PROVE  \E next \in Seq(Byte) : Through(next) /\ PairsOf(next) = handed \o Part(buffer)
    BY <1>1, <1>4, <1>6, LineTaken
  <1>7. CASE SkipLine
    <2>1. /\ pc = "line" /\ pc' = "fill" /\ Blank(buffer) /\ buffer' = <<>>
          /\ rest' = rest /\ handed' = handed
      BY <1>7 DEF SkipLine, NewBuffer
    <2>2. PICK next \in Seq(Byte) : Through(next) /\ PairsOf(next) = handed \o Part(buffer)
      BY <1>6, <2>1
    <2>3. PairsOf(next) = handed
      <3>1. Part(buffer) = <<>>
        BY <2>1 DEF Part
      <3> QED  BY <1>1, <2>2, <3>1, ConcatEmptySeq
    <2>4. next \o <<>> = next
      BY ConcatEmptySeq
    <2>5. Without(<<>>, Newline)
      BY DEF Without
    <2>6. Filling(next)'
      BY <1>2, <2>1, <2>2, <2>4, <2>5 DEF Filling, Through, Closed, Without
    <2> QED  BY <2>1, <2>3, <2>6
  <1>8. CASE ReturnPair
    <2>1. /\ pc = "line" /\ pc' = "pair" /\ ~Blank(buffer)
          /\ rest' = rest /\ handed' = Append(handed, Pair(buffer))
      BY <1>8 DEF ReturnPair
    <2>2. PICK next \in Seq(Byte) : Through(next) /\ PairsOf(next) = handed \o Part(buffer)
      BY <1>6, <2>1
    <2>3. PairsOf(next) = handed'
      <3>1. Part(buffer) = <<Pair(buffer)>>
        BY <2>1 DEF Part
      <3>2. Pair(buffer) \in Pairs
        BY <1>1, PairTyped
      <3> QED  BY <1>1, <2>1, <2>2, <3>1, <3>2, AppendIsConcat
    <2>4. Through(next)'
      BY <1>2, <2>1, <2>2 DEF Through, Closed
    <2> QED  BY <2>1, <2>3, <2>4
  <1> QED  BY <1>5, <1>7, <1>8 DEF ReadNextPair

\* parse_file() asks for the next line, or stops.
LEMMA ParseWritten ==
  ASSUME LineInv, UNCHANGED <<file, rest, handed>>, pc \notin {"fill", "line"}, pc' # "line",
         pc' = "fill" => buffer' = <<>>
  PROVE  LineInv'
PROOF
  <1>1. SUFFICES ASSUME Without(file, Nul)
                 PROVE  \E done \in Seq(Byte) :
                          /\ handed' = PairsOf(done)
                          /\ pc' = "fill" => Filling(done)'
                          /\ pc' \notin {"fill", "line"} => Through(done)'
    BY DEF LineInv, Without
  <1>2. PICK done \in Seq(Byte) : handed = PairsOf(done) /\ Through(done)
    BY <1>1 DEF LineInv
  <1>3. Through(done)'
    BY <1>2 DEF Through, Closed
  <1>4. ASSUME pc' = "fill"
        PROVE  Filling(done)'
    <2>1. done \o <<>> = done /\ buffer' = <<>>
      BY <1>4, ConcatEmptySeq
    <2>2. Without(<<>>, Newline)
      BY DEF Without
    <2> QED  BY <1>2, <2>1, <2>2 DEF Filling, Through, Closed, Without
  <1> QED  BY <1>2, <1>3, <1>4

\* Before the first read nothing of the file is under way.
LEMMA LineInit == ConfigInit => LineInv
PROOF
  <1> SUFFICES ASSUME ConfigInit PROVE LineInv
    OBVIOUS
  <1>1. file \in Seq(Byte) /\ rest = file /\ pc = "fill" /\ buffer = <<>> /\ handed = <<>>
    BY ReaderAssumption DEF ConfigInit, ReaderInit
  <1>2. <<>> \in Seq(Byte) /\ Len(<<>>) = 0
    BY EmptySeq
  <1>3. PairsOf(<<>>) = <<>>
    <2>1. Inside(<<>>) = {}
      BY DEF Inside
    <2>2. Starts(<<>>) = {}
      BY <2>1 DEF Starts
    <2>3. Len(Lines(<<>>)) = 0
      BY <1>2, <2>2, LinesAre, FS_EmptySet
    <2>4. /\ Parts(<<>>) \in Seq(Seq(Pairs)) /\ Len(Parts(<<>>)) = 0
          /\ PairsOf(<<>>) = FlattenSeq(Parts(<<>>))
      BY <1>2, <2>3, PartsAre
    <2>5. Parts(<<>>) = <<>>
      BY <2>4, EmptySeq
    <2>6. FlattenSeq(Parts(<<>>)) = Parts(<<>>)
      BY <2>4 DEF FlattenSeq
    <2> QED  BY <2>4, <2>5, <2>6
  <1>4. Filling(<<>>)
    <2>1. (<<>> \o <<>>) \o file = file
      BY <1>1, <1>2, ConcatEmptySeq
    <2> QED  BY <1>1, <1>2, <2>1 DEF Filling, Closed, Without
  <1> QED  BY <1>1, <1>2, <1>3, <1>4 DEF LineInv

\* Every round of fgets(), every line handed over and every step of parse_file() keeps the invariant.
LEMMA LineStep == FileInv /\ ConfigTyped /\ LineInv /\ [ConfigNext]_vars => LineInv'
PROOF
  <1> SUFFICES ASSUME FileInv, ConfigTyped, LineInv, [ConfigNext]_vars PROVE LineInv'
    OBVIOUS
  <1>1. CASE ReadNextPair
    BY <1>1, ReadWritten
  <1>2. ASSUME NEW name \in Single, ParseSingle(name)
        PROVE  LineInv'
    <2>1. /\ UNCHANGED <<file, rest, handed>> /\ pc \notin {"fill", "line"} /\ pc' # "line"
          /\ pc' = "fill" => buffer' = <<>>
      BY <1>2 DEF ParseSingle, Named, Stop, NextPair, NewBuffer
    <2> QED  BY <2>1, ParseWritten
  <1>3. ASSUME NEW name \in Merged, ParseMerged(name)
        PROVE  LineInv'
    <2>1. /\ UNCHANGED <<file, rest, handed>> /\ pc \notin {"fill", "line"} /\ pc' # "line"
          /\ pc' = "fill" => buffer' = <<>>
      BY <1>3 DEF ParseMerged, Named, NextPair, NewBuffer
    <2> QED  BY <2>1, ParseWritten
  <1>4. CASE ParseUnknown \/ ParseNoKey \/ EndOfFile \/ Cleanup
    <2>1. /\ UNCHANGED <<file, rest, handed>> /\ pc \notin {"fill", "line"} /\ pc' # "line"
          /\ pc' # "fill"
      BY <1>4 DEF ParseUnknown, ParseNoKey, EndOfFile, Cleanup, Stop
    <2> QED  BY <2>1, ParseWritten
  <1>5. CASE UNCHANGED vars
    BY <1>5 DEF vars, reader_vars, LineInv, Filling, Whole, Through, Closed, Without
  <1> QED  BY <1>1, <1>2, <1>3, <1>4, <1>5 DEF ConfigNext

\* read_next_pair() hands over the pairs of the file's lines, in their order and
\* each once, for every length of line, every PARSER_READ_LEN and every file
\* without a NUL byte; parse_file() has seen all of them when it accepts.
THEOREM HandsOverWhatIsWritten == Spec => []PairsAsWritten
PROOF
  <1>1. FileInv /\ ConfigTyped /\ LineInv => PairsAsWritten
    <2> SUFFICES ASSUME FileInv, ConfigTyped, LineInv, Ended, Nul \notin ToSet(file)
                 PROVE  IsPrefix(handed, PairsOf(file)) /\ (pc = "accepted" => handed = PairsOf(file))
      BY DEF PairsAsWritten
    <2>1. rest \in Seq(Byte) /\ file \in Seq(Byte) /\ handed \in Seq(Pairs)
      BY DEF FileInv, ReaderInv, ConfigTyped
    <2>2. Without(file, Nul)
      BY <2>1, WithoutIs
    <2>3. PICK done \in Seq(Byte) : handed = PairsOf(done) /\ Through(done)
      BY <2>2 DEF LineInv, Ended
    <2>4. rest = <<>> => file = done
      BY <2>3, ConcatEmptySeq DEF Through
    <2>5. CASE Closed(done)
      <3>1. IsPrefix(PairsOf(done), PairsOf(done \o rest))
        BY <2>1, <2>5, PairsStand
      <3>2. IsPrefix(handed, PairsOf(file))
        BY <2>3, <3>1 DEF Through
      <3> QED  BY <2>3, <2>4, <3>2 DEF FileInv
    <2>6. CASE rest = <<>>
      <3>1. handed = PairsOf(file)
        BY <2>3, <2>4, <2>6
      <3>2. Len(handed) \in Nat
        BY <2>1, LenProperties
      <3> QED  BY <3>1, <3>2 DEF IsPrefix
    <2> QED  BY <2>3, <2>5, <2>6 DEF Through
  <1> QED
    BY <1>1, LineInit, LineStep, TypedInit, TypedStep, FileInit, FileStep, PTL DEF Spec
=============================================================================
