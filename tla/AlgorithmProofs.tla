--------------------------- MODULE AlgorithmProofs --------------------------
(***************************************************************************)
(* The algorithms of modules Decimal, LatencyMean and WorkerIndex are      *)
(* right for every limit, every number of jobs and every number of ids,    *)
(* and the ring buffer of JobQueue implements the sequence of JobFifo for  *)
(* every capacity.  The tasks of module Task compute what they are asked   *)
(* to and notice a cancel, for every limit within the word.                *)
(***************************************************************************)
EXTENDS Decimal, LatencyMean, WorkerIndex, JobQueue, Task, FiniteSetTheorems,
        SequenceTheorems, WellFoundedInduction, NaturalsInduction, TLAPS

USE SMTT(30), ZenonT(30), SMTT(60)

-----------------------------------------------------------------------------
(* Decimal.                                                                *)

\* The three tests say the same: one more digit takes the number over the
\* limit.
LEMMA SplitTest ==
  ASSUME NEW limit \in Nat, NEW v \in Nat, NEW digit \in 0..9
  PROVE  SplitRejects(limit, v, digit) <=> v * 10 + digit > limit
<1> DEFINE q == limit \div 10
           r == limit % 10
<1>1. limit = 10 * q + r /\ q \in Nat /\ r \in 0..9
  OBVIOUS
<1> QED
  BY <1>1 DEF SplitRejects

LEMMA SubtractTest ==
  ASSUME NEW limit \in Nat, limit >= 9, NEW v \in Nat, NEW digit \in 0..9
  PROVE  SubtractRejects(limit, v, digit) <=> v * 10 + digit > limit
<1> DEFINE q == (limit - digit) \div 10
           r == (limit - digit) % 10
<1>1. limit - digit = 10 * q + r /\ q \in Nat /\ r \in 0..9
  OBVIOUS
<1> QED
  BY <1>1 DEF SubtractRejects

LEMMA AfterTest ==
  ASSUME NEW limit \in Nat, NEW v \in 0..limit, NEW digit \in 0..9, 10 * limit + 9 < WIDTH
  PROVE  AfterRejects(limit, v, digit) <=> v * 10 + digit > limit
<1>1. v * 10 + digit \in 0..(WIDTH - 1)
  BY DecimalConstants
<1>2. (v * 10 + digit) % WIDTH = v * 10 + digit
  BY <1>1, DecimalConstants
<1> QED
  BY <1>2 DEF AfterRejects

\* While a parser reads, it holds the number the text denotes.
DecimalInv ==
  /\ parser \in Parsers /\ value \in Nat /\ length \in Nat /\ exact \in Nat
  /\ strange \in BOOLEAN /\ verdict \in {"reading", "accepted", "rejected"}
  /\ verdict = "reading" => ~strange /\ value = exact
  /\ ParsersExact

\* Every parser, with every limit, accepts exactly the numbers in its range.
THEOREM ParsersAreExact == DecimalSpec => []ParsersExact
<1>1. DecimalInit => DecimalInv
  <2> SUFFICES ASSUME DecimalInit PROVE DecimalInv
    OBVIOUS
  <2>1. parser \in Parsers /\ parser.limit \in Nat
    BY DecimalConstants DEF DecimalInit
  <2>2. value <= parser.limit
    BY <2>1 DEF DecimalInit
  <2> QED
    BY <2>1, <2>2, ZenonT(30) DEF DecimalInit, DecimalInv, ParsersExact
<1>2. DecimalInv /\ [DecimalNext]_decimalVars => DecimalInv'
  <2> SUFFICES ASSUME DecimalInv, [DecimalNext]_decimalVars PROVE DecimalInv'
    OBVIOUS
  <2>0. /\ parser.check \in {"split", "subtract", "after"}
        /\ parser.limit \in Nat /\ parser.zero \in BOOLEAN
        /\ parser.check = "subtract" => parser.limit >= 9
        /\ parser.check = "after" => 10 * parser.limit + 9 < WIDTH
    BY DecimalConstants DEF DecimalInv
  <2>1. ASSUME NEW digit \in 0..9, Digit(digit) PROVE DecimalInv'
    <3>1. Rejects(parser, value, digit) <=> value * 10 + digit > parser.limit
      <4>1. value \in 0..parser.limit
        BY <2>0 DEF DecimalInv, ParsersExact
      <4>2. CASE parser.check = "split"
        BY <2>0, <4>1, <4>2, SplitTest DEF Rejects
      <4>3. CASE parser.check = "subtract"
        BY <2>0, <4>1, <4>3, SubtractTest DEF Rejects
      <4>4. CASE parser.check = "after"
        BY <2>0, <4>1, <4>4, AfterTest DEF Rejects
      <4> QED
        BY <2>0, <4>2, <4>3, <4>4
    <3>2. CASE Rejects(parser, value, digit)
      BY <2>0, <2>1, <3>1, <3>2 DEF Digit, DecimalInv, ParsersExact
    <3>3. CASE ~Rejects(parser, value, digit)
      BY <2>0, <2>1, <3>1, <3>3 DEF Digit, DecimalInv, ParsersExact
    <3> QED
      BY <3>2, <3>3
  <2>2. CASE OtherCharacter
    BY <2>0, <2>2 DEF OtherCharacter, DecimalInv, ParsersExact
  <2>3. CASE EndOfText
    BY <2>0, <2>3 DEF EndOfText, DecimalInv, ParsersExact
  <2>4. CASE UNCHANGED decimalVars
    BY <2>4 DEF decimalVars, DecimalInv, ParsersExact
  <2> QED
    BY <2>1, <2>2, <2>3, <2>4 DEF DecimalNext
<1>3. DecimalInv => ParsersExact
  BY DEF DecimalInv
<1> QED
  BY <1>1, <1>2, <1>3, PTL DEF DecimalSpec

-----------------------------------------------------------------------------
(* LatencyMean.                                                            *)

LEMMA Product ==
  ASSUME NEW a \in Nat, NEW b \in Nat, NEW c \in Nat
  PROVE  a * c \in Nat /\ (a <= b => a * c <= b * c)
  OBVIOUS

LEMMA Cancel ==
  ASSUME NEW a \in Nat, NEW b \in Nat, NEW c \in Nat \ {0}, a * c <= b * c
  PROVE  a <= b
<1> SUFFICES ASSUME a >= b + 1 PROVE FALSE
  OBVIOUS
<1>1. (b + 1) * c <= a * c
  BY Product
<1>2. (b + 1) * c = b * c + c
  OBVIOUS
<1> QED
  BY <1>1, <1>2, Product

LEMMA Division ==
  ASSUME NEW a \in Nat, NEW c \in Nat \ {0}
  PROVE  /\ a \div c \in Nat /\ a % c \in 0..(c - 1)
         /\ a = (a \div c) * c + (a % c)
  OBVIOUS

LEMMA Quotient ==
  ASSUME NEW q \in Nat, NEW c \in Nat \ {0}, NEW r \in 0..(c - 1)
  PROVE  (q * c + r) \div c = q
<1> DEFINE a == q * c + r
           p == a \div c
           s == a % c
<1>0. a \in Nat
  BY Product
<1> HIDE DEF a
<1>1. p \in Nat /\ s \in 0..(c - 1) /\ a = p * c + s
  BY <1>0, Division, ZenonT(30)
<1> HIDE DEF p, s
<1> USE DEF a
<1>2. p <= q
  <2> SUFFICES ASSUME p >= q + 1 PROVE FALSE
    BY <1>1
  <2>1. (q + 1) * c <= p * c
    BY <1>1, Product
  <2>2. (q + 1) * c = q * c + c
    OBVIOUS
  <2> QED
    BY <1>1, <2>1, <2>2, Product
<1>3. q <= p
  <2> SUFFICES ASSUME q >= p + 1 PROVE FALSE
    BY <1>1
  <2>1. (p + 1) * c <= q * c
    BY <1>1, Product
  <2>2. (p + 1) * c = p * c + c
    BY <1>1
  <2> QED
    BY <1>1, <2>1, <2>2, Product
<1> QED
  BY <1>1, <1>2, <1>3 DEF p

\* Quotients and remainders together are the sum, and neither has wrapped.
MeanInv ==
  /\ completed \in 1..COMPLETED_MAX /\ seen \in 0..completed
  /\ average \in Nat /\ remainder \in Nat /\ sum \in Nat
  /\ sum = average * completed + remainder
  /\ sum <= seen * LATENCY_MAX
  /\ remainder <= seen * (completed - 1)

LEMMA MeanStep ==
  ASSUME MeanInv, NEW latency \in 0..LATENCY_MAX, Visit(latency)
  PROVE  MeanInv'
<1> DEFINE q == latency \div completed
           r == latency % completed
<1>0. /\ completed \in Nat \ {0} /\ seen \in Nat /\ seen + 1 <= completed
      /\ latency \in Nat /\ LATENCY_MAX \in Nat /\ WORD \in Nat /\ LATENCY_MAX < WORD
      /\ average \in Nat /\ remainder \in Nat /\ sum \in Nat
  BY MeanConstants DEF MeanInv, Visit
<1>1. q \in Nat /\ r \in 0..(completed - 1) /\ latency = q * completed + r
  BY <1>0, Division, ZenonT(30)
<1> HIDE DEF q, r
<1>2. sum + latency = (average + q) * completed + (remainder + r)
  <2>1. (average + q) * completed = average * completed + q * completed
    BY <1>0, <1>1
  <2> QED
    BY <1>0, <1>1, <2>1, Product DEF MeanInv
<1>3. sum + latency <= (seen + 1) * LATENCY_MAX
  <2>1. (seen + 1) * LATENCY_MAX = seen * LATENCY_MAX + LATENCY_MAX
    BY <1>0
  <2> QED
    BY <1>0, <2>1, Product DEF MeanInv
<1>4. remainder + r <= (seen + 1) * (completed - 1)
  <2>1. (seen + 1) * (completed - 1) = seen * (completed - 1) + (completed - 1)
    BY <1>0
  <2>2. completed - 1 \in Nat
    BY <1>0
  <2>3. seen * (completed - 1) \in Nat
    BY <1>0, <2>2, Product
  <2> QED
    BY <1>0, <1>1, <2>1, <2>3 DEF MeanInv
<1>5. average + q < WORD
  <2>1. (seen + 1) * LATENCY_MAX <= completed * LATENCY_MAX
    BY <1>0, Product
  <2>2. (average + q) * completed \in Nat /\ completed * LATENCY_MAX \in Nat
    BY <1>0, <1>1, Product
  <2>3. (average + q) * completed <= completed * LATENCY_MAX
    BY <1>0, <1>1, <1>2, <1>3, <2>1, <2>2
  <2>4. average + q <= LATENCY_MAX
    BY <1>0, <1>1, <2>3, Cancel
  <2> QED
    BY <1>0, <1>1, <2>4
<1>6. remainder + r < WORD
  <2>1. (seen + 1) * (completed - 1) <= completed * (completed - 1)
    BY <1>0, Product
  <2>2. completed * (completed - 1) <= completed * completed
    BY <1>0, Product
  <2>3. completed * completed <= COMPLETED_MAX * COMPLETED_MAX
    <3>1. completed * completed <= COMPLETED_MAX * completed
      BY <1>0, Product, MeanConstants DEF MeanInv
    <3>2. completed * COMPLETED_MAX <= COMPLETED_MAX * COMPLETED_MAX
      BY <1>0, Product, MeanConstants DEF MeanInv
    <3> QED
      BY <1>0, <3>1, <3>2, Product, MeanConstants
  <2> QED
    BY <1>0, <1>1, <1>4, <2>1, <2>2, <2>3, Product, MeanConstants
<1>7. average' = average + q /\ remainder' = remainder + r
  <2>1. (average + q) % WORD = average + q
    BY <1>0, <1>1, <1>5
  <2>2. (remainder + r) % WORD = remainder + r
    BY <1>0, <1>1, <1>6
  <2> QED
    BY <2>1, <2>2 DEF Visit, q, r
<1>8. sum' = sum + latency /\ seen' = seen + 1 /\ completed' = completed
  BY DEF Visit
<1> QED
  BY <1>0, <1>1, <1>2, <1>3, <1>4, <1>7, <1>8 DEF MeanInv

\* The mean is exact for every number of jobs and every latency in range.
THEOREM MeanIsExact == MeanSpec => []MeanExact
<1>1. MeanInit => MeanInv
  BY MeanConstants DEF MeanInit, MeanInv
<1>2. MeanInv /\ [MeanNext]_meanVars => MeanInv'
  <2>1. ASSUME MeanInv, MeanNext PROVE MeanInv'
    BY <2>1, MeanStep DEF MeanNext
  <2>2. ASSUME MeanInv, UNCHANGED meanVars PROVE MeanInv'
    BY <2>2 DEF MeanInv, meanVars
  <2> QED
    BY <2>1, <2>2
<1>3. MeanInv => MeanExact
  <2> SUFFICES ASSUME MeanInv, seen = completed PROVE Mean = sum \div completed
    BY DEF MeanExact
  <2> DEFINE q == remainder \div completed
             r == remainder % completed
  <2>0. /\ completed \in Nat \ {0} /\ average \in Nat /\ remainder \in Nat /\ sum \in Nat
        /\ LATENCY_MAX \in Nat /\ WORD \in Nat /\ LATENCY_MAX < WORD
    BY MeanConstants DEF MeanInv
  <2>1. q \in Nat /\ r \in 0..(completed - 1) /\ remainder = q * completed + r
    BY <2>0, Division, ZenonT(30)
  <2> HIDE DEF q, r
  <2>2. sum = (average + q) * completed + r
    <3>1. (average + q) * completed = average * completed + q * completed
      BY <2>0, <2>1
    <3> QED
      BY <2>0, <2>1, <3>1, Product DEF MeanInv
  <2>3. sum \div completed = average + q
    BY <2>0, <2>1, <2>2, Quotient
  <2>4. (average + q) * completed <= LATENCY_MAX * completed
    <3>1. sum <= completed * LATENCY_MAX /\ completed * LATENCY_MAX = LATENCY_MAX * completed
      BY <2>0 DEF MeanInv
    <3>2. (average + q) * completed \in Nat /\ LATENCY_MAX * completed \in Nat
      BY <2>0, <2>1, Product
    <3> QED
      BY <2>0, <2>1, <2>2, <3>1, <3>2
  <2>5. average + q <= LATENCY_MAX
    BY <2>0, <2>1, <2>4, Cancel
  <2> QED
    BY <2>0, <2>1, <2>3, <2>5 DEF Mean, q
<1> QED
  BY <1>1, <1>2, <1>3, PTL DEF MeanSpec

-----------------------------------------------------------------------------
(* WorkerIndex.                                                            *)

RangeType == [first : Nat, last : Nat]

\* The ranges lie apart in increasing order and cover the allocated ids.
RangesOK ==
  /\ ranges \in Seq(RangeType) /\ highest \in Nat /\ allocated \subseteq Nat
  /\ \A k \in 1..Len(ranges) : ranges[k].first <= ranges[k].last /\ ranges[k].last <= highest
  /\ \A k, j \in 1..Len(ranges) : k < j => ranges[k].last < ranges[j].first
  /\ \A id \in Nat :
       id \in allocated <=>
         \E k \in 1..Len(ranges) : ranges[k].first <= id /\ id <= ranges[k].last

\* What a search has excluded lies below or above the wanted id.
SearchOK ==
  /\ low \in Nat /\ high \in Nat /\ wanted \in Nat
  /\ found \in {"none", "searching", "yes", "no"}
  /\ wanted = 0 => found = "none"
  /\ found = "searching" =>
       /\ high <= Len(ranges)
       /\ \A k \in 1..Len(ranges) : k <= low => ranges[k].last < wanted
       /\ \A k \in 1..Len(ranges) : k > high => wanted < ranges[k].first

IndexInv == RangesOK /\ SearchOK /\ SearchExact

LEMMA RangesTyped ==
  ASSUME IndexInv
  PROVE  /\ Len(ranges) \in Nat /\ DOMAIN ranges = 1..Len(ranges)
         /\ \A k \in 1..Len(ranges) :
              /\ ranges[k] \in RangeType
              /\ ranges[k].first \in Nat /\ ranges[k].last \in Nat
<1>1. ranges \in Seq(RangeType)
  BY DEF IndexInv, RangesOK, SearchOK
<1>2. /\ Len(ranges) \in Nat /\ DOMAIN ranges = 1..Len(ranges)
      /\ \A k \in 1..Len(ranges) : ranges[k] \in RangeType
  BY <1>1
<1>3. \A r \in RangeType : r.first \in Nat /\ r.last \in Nat
  BY DEF RangeType
<1> QED
  BY <1>2, <1>3

LEMMA AllocateStep ==
  ASSUME IndexInv, NEW id \in 1..MAX_ID, AllocateWorker(id)
  PROVE  IndexInv'
<1> DEFINE n == Len(ranges)
<1>0. n \in Nat /\ id \in Nat /\ id > highest /\ MAX_ID \in Nat
  BY IndexConstants, RangesTyped DEF IndexInv, RangesOK, SearchOK, AllocateWorker
<1>t. /\ DOMAIN ranges = 1..n /\ ranges \in Seq(RangeType)
      /\ \A k \in 1..n : /\ ranges[k] \in RangeType
                         /\ ranges[k].first \in Nat /\ ranges[k].last \in Nat
  BY RangesTyped DEF IndexInv, RangesOK, SearchOK
<1>r. /\ \A k \in 1..n : ranges[k].first <= ranges[k].last /\ ranges[k].last <= highest
      /\ \A k, j \in 1..n : k < j => ranges[k].last < ranges[j].first
      /\ \A x \in Nat :
           x \in allocated <=> \E k \in 1..n : ranges[k].first <= x /\ x <= ranges[k].last
  BY DEF IndexInv, RangesOK, SearchOK
<1>1. CASE ranges # <<>> /\ Last.last + 1 = id
  <2>1. /\ n > 0 /\ Len(ranges') = n
        /\ ranges' \in Seq(RangeType)
        /\ \A k \in 1..n : ranges'[k].first = ranges[k].first
        /\ \A k \in 1..n : k < n => ranges'[k] = ranges[k]
        /\ ranges'[n].last = id /\ ranges[n].last + 1 = id
    <3>1. n > 0 /\ n \in 1..n /\ ranges[n].last + 1 = id
      BY <1>0, <1>1, <1>t DEF Last
    <3>2. ranges' = [ranges EXCEPT ![n] = [ranges[n] EXCEPT !.last = id]]
      BY <1>1 DEF AllocateWorker
    <3>3. [ranges[n] EXCEPT !.last = id] \in RangeType
      BY <1>0, <1>t, <3>1 DEF RangeType
    <3>4. /\ [ranges[n] EXCEPT !.last = id].first = ranges[n].first
          /\ [ranges[n] EXCEPT !.last = id].last = id
      BY <1>t, <3>1 DEF RangeType
    <3>5. Len(ranges') = n /\ ranges' \in Seq(RangeType)
      BY <1>t, <3>1, <3>2, <3>3
    <3>6. /\ ranges'[n] = [ranges[n] EXCEPT !.last = id]
          /\ \A k \in 1..n : k < n => ranges'[k] = ranges[k]
      BY <1>0, <1>t, <3>1, <3>2
    <3>7. ASSUME NEW k \in 1..n PROVE ranges'[k].first = ranges[k].first
      <4>1. CASE k = n
        BY <3>4, <3>6, <4>1, ZenonT(30)
      <4>2. CASE k < n
        BY <3>6, <4>2
      <4> QED
        BY <1>0, <4>1, <4>2
    <3> QED
      BY <3>1, <3>4, <3>5, <3>6, <3>7
  <2>2. \A x \in Nat :
          x \in allocated' <=>
            \E k \in 1..Len(ranges') : ranges'[k].first <= x /\ x <= ranges'[k].last
    <3> TAKE x \in Nat
    <3>1. ASSUME x \in allocated'
          PROVE  \E k \in 1..n : ranges'[k].first <= x /\ x <= ranges'[k].last
      <4>1. CASE x = id
        BY <1>0, <2>1, <4>1, <1>t, <1>r
      <4>2. CASE x \in allocated
        <5>1. PICK k \in 1..n : ranges[k].first <= x /\ x <= ranges[k].last
          BY <4>2, <1>t, <1>r
        <5> QED
          BY <1>0, <2>1, <5>1, <1>t, <1>r
      <4> QED
        BY <3>1, <4>1, <4>2 DEF AllocateWorker
    <3>2. ASSUME NEW k \in 1..n, ranges'[k].first <= x, x <= ranges'[k].last
          PROVE  x \in allocated'
      <4>1. CASE x = id
        BY <4>1 DEF AllocateWorker
      <4>2. CASE x # id
        <5>1. ranges[k].first <= x /\ x <= ranges[k].last
          BY <1>0, <2>1, <3>2, <4>2, <1>t, <1>r
        <5> QED
          BY <1>r, <5>1 DEF AllocateWorker
      <4> QED
        BY <4>1, <4>2
    <3> QED
      BY <2>1, <3>1, <3>2
  <2>3. ASSUME NEW k \in 1..n
        PROVE  ranges'[k].first <= ranges'[k].last /\ ranges'[k].last <= id
    <3>1. ranges[k].first \in Nat /\ ranges[k].last \in Nat /\ highest \in Nat
      BY <1>t DEF IndexInv, RangesOK, SearchOK
    <3>2. CASE k = n
      BY <1>0, <1>r, <2>1, <3>1, <3>2
    <3>3. CASE k < n
      BY <1>0, <1>r, <2>1, <3>1, <3>3
    <3> QED
      BY <1>0, <3>2, <3>3
  <2>4. ASSUME NEW k \in 1..n, NEW j \in 1..n, k < j
        PROVE  ranges'[k].last < ranges'[j].first
    <3>1. k < n
      BY <1>0, <2>4
    <3>2. ranges'[k].last = ranges[k].last /\ ranges'[j].first = ranges[j].first
      BY <2>1, <3>1
    <3> QED
      BY <1>r, <2>4, <3>2
  <2>5. highest' = id /\ allocated' \subseteq Nat /\ UNCHANGED <<low, high, wanted, found>>
    BY <1>0 DEF IndexInv, RangesOK, SearchOK, AllocateWorker
  <2>6. wanted = 0 /\ found = "none"
    BY DEF IndexInv, RangesOK, SearchOK, AllocateWorker
  <2> QED
    BY <1>0, <2>1, <2>2, <2>3, <2>4, <2>5, <2>6 DEF IndexInv, RangesOK, SearchOK, SearchExact
<1>2. CASE ~(ranges # <<>> /\ Last.last + 1 = id)
  <2>1. /\ Len(ranges') = n + 1
        /\ ranges' \in Seq(RangeType)
        /\ \A k \in 1..n : ranges'[k] = ranges[k]
        /\ ranges'[n + 1].first = id /\ ranges'[n + 1].last = id
    <3> DEFINE new == [first |-> id, last |-> id]
    <3>1. new \in RangeType /\ new.first = id /\ new.last = id
      BY <1>0 DEF RangeType
    <3>2. ranges' = Append(ranges, new)
      BY <1>2 DEF AllocateWorker
    <3> HIDE DEF new
    <3>3. /\ Len(ranges') = n + 1 /\ ranges' \in Seq(RangeType)
          /\ ranges'[n + 1] = new /\ \A k \in 1..n : ranges'[k] = ranges[k]
      BY <1>t, <3>1, <3>2
    <3> QED
      BY <3>1, <3>3
  <2>2. \A x \in Nat :
          x \in allocated' <=>
            \E k \in 1..Len(ranges') : ranges'[k].first <= x /\ x <= ranges'[k].last
    <3> TAKE x \in Nat
    <3>1. ASSUME x \in allocated'
          PROVE  \E k \in 1..(n + 1) : ranges'[k].first <= x /\ x <= ranges'[k].last
      <4>1. CASE x = id
        BY <1>0, <2>1, <4>1
      <4>2. CASE x \in allocated
        <5>1. PICK k \in 1..n : ranges[k].first <= x /\ x <= ranges[k].last
          BY <4>2, <1>t, <1>r
        <5> QED
          BY <1>0, <2>1, <5>1
      <4> QED
        BY <3>1, <4>1, <4>2 DEF AllocateWorker
    <3>2. ASSUME NEW k \in 1..(n + 1), ranges'[k].first <= x, x <= ranges'[k].last
          PROVE  x \in allocated'
      <4>1. CASE k = n + 1
        BY <1>0, <2>1, <3>2, <4>1 DEF AllocateWorker
      <4>2. CASE k \in 1..n
        BY <1>r, <2>1, <3>2, <4>2 DEF AllocateWorker
      <4> QED
        BY <1>0, <4>1, <4>2
    <3> QED
      BY <2>1, <3>1, <3>2
  <2>3. ASSUME NEW k \in 1..(n + 1)
        PROVE  ranges'[k].first <= ranges'[k].last /\ ranges'[k].last <= id
    <3>1. CASE k = n + 1
      BY <1>0, <2>1, <3>1
    <3>2. CASE k \in 1..n
      <4>1. ranges[k].first \in Nat /\ ranges[k].last \in Nat /\ highest \in Nat
        BY <1>t, <3>2 DEF IndexInv, RangesOK, SearchOK
      <4> QED
        BY <1>0, <1>r, <2>1, <3>2, <4>1
    <3> QED
      BY <1>0, <3>1, <3>2
  <2>4. ASSUME NEW k \in 1..(n + 1), NEW j \in 1..(n + 1), k < j
        PROVE  ranges'[k].last < ranges'[j].first
    <3>1. k \in 1..n /\ ranges'[k] = ranges[k]
      BY <1>0, <2>1, <2>4
    <3>2. CASE j = n + 1
      <4>1. ranges[k].last \in Nat /\ highest \in Nat
        BY <1>t, <3>1 DEF IndexInv, RangesOK, SearchOK
      <4> QED
        BY <1>0, <1>r, <2>1, <3>1, <3>2, <4>1
    <3>3. CASE j \in 1..n
      BY <1>r, <2>1, <2>4, <3>1, <3>3
    <3> QED
      BY <1>0, <3>2, <3>3
  <2>5. highest' = id /\ allocated' \subseteq Nat /\ UNCHANGED <<low, high, wanted, found>>
    BY <1>0 DEF IndexInv, RangesOK, SearchOK, AllocateWorker
  <2>6. wanted = 0 /\ found = "none"
    BY DEF IndexInv, RangesOK, SearchOK, AllocateWorker
  <2> QED
    BY <1>0, <2>1, <2>2, <2>3, <2>4, <2>5, <2>6 DEF IndexInv, RangesOK, SearchOK, SearchExact
<1> QED
  BY <1>1, <1>2

LEMMA BisectStep ==
  ASSUME IndexInv, Bisect
  PROVE  IndexInv'
<1> DEFINE middle == low + (high - low) \div 2
           range  == ranges[middle + 1]
<1>0. /\ middle \in Nat /\ low <= middle /\ middle < high /\ middle + 1 \in 1..Len(ranges)
      /\ found = "searching" /\ high <= Len(ranges) /\ Len(ranges) \in Nat
  BY RangesTyped DEF IndexInv, RangesOK, SearchOK, Bisect
<1>t. /\ \A k \in 1..Len(ranges) : ranges[k].first \in Nat /\ ranges[k].last \in Nat
      /\ \A k \in 1..Len(ranges) : ranges[k].first <= ranges[k].last
      /\ \A k, j \in 1..Len(ranges) : k < j => ranges[k].last < ranges[j].first
      /\ wanted \in Nat /\ low \in Nat /\ high \in Nat
  BY RangesTyped, ZenonT(30) DEF IndexInv, RangesOK, SearchOK
<1>k. /\ UNCHANGED <<ranges, highest, allocated>>
      /\ wanted # 0 /\ found \notin {"yes", "no"}
  BY DEF Bisect
<1>o. RangesOK'
  BY <1>k DEF IndexInv, RangesOK
<1> HIDE DEF middle
<1>1. CASE wanted < range.first /\ high' = middle /\ UNCHANGED <<low, wanted, found>>
  <2>1. \A k \in 1..Len(ranges) : k > middle => wanted < ranges[k].first
    BY <1>0, <1>1, <1>t
  <2> QED
    BY <1>0, <1>1, <1>k, <1>o, <2>1 DEF IndexInv, SearchOK, SearchExact
<1>2. CASE wanted > range.last /\ low' = middle + 1 /\ UNCHANGED <<high, wanted, found>>
  <2>1. \A k \in 1..Len(ranges) : k <= middle + 1 => ranges[k].last < wanted
    BY <1>0, <1>2, <1>t
  <2> QED
    BY <1>0, <1>2, <1>k, <1>o, <2>1 DEF IndexInv, SearchOK, SearchExact
<1>3. CASE /\ wanted >= range.first /\ wanted <= range.last
           /\ found' = "yes" /\ UNCHANGED <<low, high, wanted>>
  <2>1. wanted \in allocated
    BY <1>0, <1>3 DEF IndexInv, RangesOK, SearchOK
  <2> QED
    BY <1>3, <1>k, <1>o, <2>1 DEF IndexInv, SearchOK, SearchExact
<1> QED
  BY <1>1, <1>2, <1>3 DEF Bisect, middle

\* Whatever ids were allocated, bisection over the ranges finds exactly them.
THEOREM SearchIsExact == IndexSpec => []SearchExact
<1>1. IndexInit => IndexInv
  BY DEF IndexInit, IndexInv, RangesOK, SearchOK, SearchExact
<1>2. IndexInv /\ [IndexNext]_indexVars => IndexInv'
  <2> SUFFICES ASSUME IndexInv, [IndexNext]_indexVars PROVE IndexInv'
    OBVIOUS
  <2>1. ASSUME NEW id \in 1..MAX_ID, AllocateWorker(id) PROVE IndexInv'
    BY <2>1, AllocateStep
  <2>2. ASSUME NEW id \in 1..MAX_ID, Search(id) PROVE IndexInv'
    BY <2>2, IndexConstants DEF IndexInv, RangesOK, SearchOK, Search, SearchExact
  <2>3. CASE Bisect
    BY <2>3, BisectStep
  <2>4. CASE NotFound
    <3>1. wanted \notin allocated
      <4> SUFFICES ASSUME NEW k \in 1..Len(ranges),
                          ranges[k].first <= wanted, wanted <= ranges[k].last
                   PROVE  FALSE
        BY DEF IndexInv, RangesOK, SearchOK
      <4>1. ranges[k].first \in Nat /\ ranges[k].last \in Nat /\ wanted \in Nat
        BY RangesTyped DEF IndexInv, RangesOK, SearchOK
      <4>2. k <= low \/ k > high
        BY <2>4, RangesTyped DEF NotFound, IndexInv, RangesOK, SearchOK
      <4> QED
        BY <2>4, <4>1, <4>2 DEF NotFound, IndexInv, RangesOK, SearchOK
    <3> QED
      BY <2>4, <3>1 DEF IndexInv, RangesOK, SearchOK, NotFound, SearchExact
  <2>5. CASE Return
    BY <2>5 DEF IndexInv, RangesOK, SearchOK, Return, SearchExact
  <2>6. CASE UNCHANGED indexVars
    BY <2>6 DEF IndexInv, RangesOK, SearchOK, indexVars, SearchExact
  <2> QED
    BY <2>1, <2>2, <2>3, <2>4, <2>5, <2>6 DEF IndexNext
<1>3. IndexInv => SearchExact
  BY DEF IndexInv, RangesOK, SearchOK
<1> QED
  BY <1>1, <1>2, <1>3, PTL DEF IndexSpec

-----------------------------------------------------------------------------
(* JobQueue.                                                               *)

Cap == JOB_QUEUE_CAPACITY

\* An index that runs at most once past the end of the array.
LEMMA Wrap ==
  ASSUME NEW a \in Nat, a < 2 * Cap
  PROVE  a % Cap = (IF a < Cap THEN a ELSE a - Cap) /\ a % Cap \in 0..Cap - 1
<1>1. CASE a < Cap
  <2>1. a % Cap = a
    BY <1>1, QueueConstants, SMTT(30) DEF Cap
  <2> QED  BY <1>1, <2>1, QueueConstants DEF Cap
<1>2. CASE ~(a < Cap)
  <2>1. a % Cap = a - Cap
    BY <1>2, QueueConstants, SMTT(30) DEF Cap
  <2> QED  BY <1>2, <2>1, QueueConstants DEF Cap
<1> QED  BY <1>1, <1>2

\* Entries have different positions.
LEMMA DistinctPositions ==
  ASSUME NEW h \in 0..Cap - 1, NEW k \in 0..Cap - 1, NEW j \in 0..Cap - 1
  PROVE  /\ (h + k) % Cap \in Positions
         /\ (h + k) % Cap = (h + j) % Cap => k = j
<1>1. /\ (h + k) % Cap = (IF h + k < Cap THEN h + k ELSE h + k - Cap)
      /\ (h + k) % Cap \in 0..Cap - 1
  BY Wrap, QueueConstants DEF Cap
<1>2. (h + j) % Cap = IF h + j < Cap THEN h + j ELSE h + j - Cap
  BY Wrap, QueueConstants DEF Cap
<1> QED  BY <1>1, <1>2, QueueConstants DEF Cap, Positions

\* The entry after the oldest becomes the oldest.
LEMMA NextHead ==
  ASSUME NEW h \in 0..Cap - 1, NEW k \in 0..Cap - 1
  PROVE  (h + 1) % Cap \in Positions /\ (((h + 1) % Cap) + k) % Cap = (h + (k + 1)) % Cap
<1>1. (h + 1) % Cap = IF h + 1 = Cap THEN 0 ELSE h + 1
  BY Wrap, QueueConstants DEF Cap
<1>2. CASE h + 1 = Cap
  <2>1. (0 + k) % Cap = k
    BY Wrap, QueueConstants DEF Cap
  <2>2. (h + (k + 1)) % Cap = k
    <3>1. h + (k + 1) = k + Cap /\ k + Cap \in Nat /\ k + Cap < 2 * Cap
      BY <1>2, QueueConstants DEF Cap
    <3>2. (k + Cap) % Cap = k
      BY <3>1, Wrap, QueueConstants DEF Cap
    <3> QED  BY <3>1, <3>2
  <2> QED  BY <1>1, <1>2, <2>1, <2>2, QueueConstants DEF Cap, Positions
<1>3. CASE h + 1 # Cap
  <2>1. h + 1 + k = h + (k + 1)
    BY QueueConstants DEF Cap
  <2> QED  BY <1>1, <1>3, <2>1, QueueConstants DEF Cap, Positions
<1> QED  BY <1>2, <1>3

\* Once round the ring is back at the oldest.
LEMMA FullCircle ==
  ASSUME NEW h \in 0..Cap - 1
  PROVE  h \in Positions /\ (h + 0) % Cap = h /\ (h + Cap) % Cap = h
<1> DEFINE round == h + Cap
<1>1. Cap \in Nat \ {0} /\ h \in Nat /\ h < 2 * Cap /\ h < Cap /\ h + 0 = h
  BY QueueConstants DEF Cap
<1>2. round \in Nat /\ round < 2 * Cap /\ ~(round < Cap) /\ round - Cap = h
  BY <1>1
<1>3. h % Cap = h
  BY <1>1, Wrap, ZenonT(30)
<1> HIDE DEF round
<1>4. round % Cap = round - Cap
  BY <1>2, Wrap, ZenonT(30)
<1> QED  BY <1>1, <1>2, <1>3, <1>4 DEF Positions, Cap, round

\* The ring stays within its array, and exactly the entries are nonzero.
RingInv == TypeOK /\ EntriesAreJobs

LEMMA RingTypes ==
  ASSUME TypeOK
  PROVE  /\ head \in 0..Cap - 1 /\ count \in 0..Cap /\ Cap \in Nat \ {0}
         /\ ids \in [Positions -> JobIds \cup {0}]
         /\ Contents \in Seq(JobIds \cup {0}) /\ Len(Contents) = count
         /\ DOMAIN Contents = 1..count
         /\ \A k \in 1..count : Contents[k] = ids[Position(k - 1)]
<1>1. /\ head \in 0..Cap - 1 /\ count \in 0..Cap /\ Cap \in Nat \ {0} /\ count \in Nat
      /\ ids \in [Positions -> JobIds \cup {0}]
  BY QueueConstants DEF TypeOK, Positions, Cap
<1>2. \A k \in 1..count : ids[Position(k - 1)] \in JobIds \cup {0}
  <2>1. ASSUME NEW k \in 1..count
        PROVE  Position(k - 1) \in Positions
    <3>1. k - 1 \in 0..Cap - 1
      BY <1>1
    <3> QED  BY <1>1, <3>1, DistinctPositions, ZenonT(30) DEF Position, Cap
  <2> QED  BY <1>1, <2>1
<1>3. Contents \in [1..count -> JobIds \cup {0}]
  BY <1>2 DEF Contents
<1> QED  BY <1>1, <1>3 DEF Contents

\* A push appends.
LEMMA PushStep ==
  ASSUME RingInv, NEW job \in Jobs, Push(job)
  PROVE  RingInv' /\ Fifo!Push(job.id) /\ job.id \in JobIds
<1> DEFINE id   == job.id
           tail == Position(count)
<1>1. TypeOK /\ EntriesAreJobs
  BY DEF RingInv
<1>2. /\ head \in 0..Cap - 1 /\ count \in 0..Cap - 1 /\ Cap \in Nat \ {0}
      /\ ids \in [Positions -> JobIds \cup {0}]
      /\ Contents \in Seq(JobIds \cup {0}) /\ Len(Contents) = count
      /\ DOMAIN Contents = 1..count
      /\ \A k \in 1..count : Contents[k] = ids[Position(k - 1)]
  <2>1. count # Cap
    BY DEF Push, Cap
  <2> QED  BY <1>1, <2>1, RingTypes
<1>3. /\ id \in JobIds /\ id # 0
      /\ ids' = [ids EXCEPT ![tail] = id] /\ count' = count + 1 /\ head' = head
      /\ job_id' = job_id
      /\ \A k \in 0..count - 1 : ids[Position(k)] # id
  BY DEF Push, Jobs
<1>4. \A k \in 0..Cap - 1 : Position(k) \in Positions /\ Position(k)' = Position(k)
                           /\ (Position(k) = tail => k = count)
  BY <1>2, <1>3, DistinctPositions, ZenonT(30) DEF Position, Cap
<1>5. tail \in Positions
  BY <1>2, <1>4
<1> HIDE DEF id, tail
<1>6. ids' \in [Positions -> JobIds \cup {0}] /\ ids'[tail] = id
      /\ \A k \in 0..Cap - 1 : k # count => ids'[Position(k)] = ids[Position(k)]
  BY <1>2, <1>3, <1>4, <1>5
<1>7. TypeOK'
  <2>1. count' \in 0..JOB_QUEUE_CAPACITY
    BY <1>2, <1>3 DEF Cap
  <2> QED  BY <1>1, <1>3, <1>6, <2>1 DEF TypeOK
<1>8. EntriesAreJobs'
  <2>1. ASSUME NEW k \in 0..Cap - 1
        PROVE  ids'[Position(k)'] = 0 <=> k >= count'
    <3>1. CASE k = count
      <4>1. ids'[Position(k)'] = id
        BY <1>4, <1>6, <3>1 DEF tail
      <4> QED  BY <1>2, <1>3, <3>1, <4>1
    <3>2. CASE k # count
      <4>1. ids'[Position(k)'] = ids[Position(k)]
        BY <1>4, <1>6, <3>2
      <4>2. ids[Position(k)] = 0 <=> k >= count
        BY <1>1 DEF EntriesAreJobs, Cap
      <4> QED  BY <1>2, <1>3, <3>2, <4>1, <4>2
    <3> QED  BY <3>1, <3>2
  <2> QED  BY <2>1 DEF EntriesAreJobs, Cap
<1>9. Contents' = Append(Contents, id)
  <2>1. /\ Contents' \in Seq(JobIds \cup {0}) /\ Len(Contents') = count + 1
        /\ \A k \in 1..count + 1 : Contents'[k] = ids'[Position(k - 1)']
    <3>1. TypeOK'
      BY <1>7
    <3>2. /\ (Contents \in Seq(JobIds \cup {0}))' /\ (Len(Contents) = count)'
          /\ (\A k \in 1..count : Contents[k] = ids[Position(k - 1)])'
      BY <1>2, <1>3, <1>4, <1>6 DEF Contents
    <3> QED  BY <1>3, <3>2
  <2>2. /\ Append(Contents, id) \in Seq(JobIds \cup {0})
        /\ Len(Append(Contents, id)) = count + 1
        /\ \A k \in 1..count : Append(Contents, id)[k] = Contents[k]
        /\ Append(Contents, id)[count + 1] = id
    BY <1>2, <1>3, AppendProperties
  <2>3. ASSUME NEW k \in 1..count + 1
        PROVE  Contents'[k] = Append(Contents, id)[k]
    <3>1. k - 1 \in 0..Cap - 1 /\ (k # count + 1 => k \in 1..count /\ k - 1 # count)
      BY <1>2
    <3>2. Contents'[k] = ids'[Position(k - 1)]
      BY <1>4, <2>1, <3>1
    <3>3. CASE k = count + 1
      <4>1. Position(k - 1) = tail
        BY <1>2, <3>3 DEF tail
      <4> QED  BY <1>6, <2>2, <3>2, <3>3, <4>1
    <3>4. CASE k # count + 1
      BY <1>2, <1>6, <2>2, <3>1, <3>2, <3>4
    <3> QED  BY <3>3, <3>4, ZenonT(30)
  <2> QED  BY <2>1, <2>2, <2>3, SeqEqual
<1>10. \A k \in DOMAIN Contents : Contents[k] # id
  BY <1>2, <1>3
<1>11. Len(Contents) < JOB_QUEUE_CAPACITY
  BY <1>2 DEF Cap
<1> QED  BY <1>3, <1>7, <1>8, <1>9, <1>10, <1>11 DEF RingInv, Fifo!Push, id

\* What peek and pop read is the oldest entry.
LEMMA OldestEntry ==
  ASSUME RingInv, count # 0
  PROVE  /\ Contents # <<>> /\ Head(Contents) = ids[head]
         /\ ids[head] \in JobIds
<1>1. TypeOK /\ EntriesAreJobs
  BY DEF RingInv
<1>2. /\ head \in 0..Cap - 1 /\ count \in 1..Cap /\ Cap \in Nat \ {0}
      /\ ids \in [Positions -> JobIds \cup {0}]
      /\ Contents \in Seq(JobIds \cup {0}) /\ Len(Contents) = count
      /\ \A k \in 1..count : Contents[k] = ids[Position(k - 1)]
  BY <1>1, RingTypes
<1>3. Position(0) = head /\ head \in Positions
  BY <1>2, FullCircle DEF Position, Cap
<1>4. Contents # <<>> /\ Head(Contents) = Contents[1]
  BY <1>2, EmptySeq
<1>5. Contents[1] = ids[head]
  BY <1>2, <1>3
<1>6. ids[Position(0)] # 0
  <2>1. 0 \in 0..Cap - 1 /\ ~(0 >= count)
    BY <1>2
  <2> QED  BY <1>1, <2>1 DEF EntriesAreJobs, Cap
<1> QED  BY <1>2, <1>3, <1>4, <1>5, <1>6

LEMMA PeekStep ==
  ASSUME RingInv, Peek
  PROVE  RingInv' /\ Fifo!Peek
<1>1. /\ Contents # <<>> /\ Head(Contents) = ids[head] /\ ids[head] \in JobIds
  BY OldestEntry DEF Peek
<1>2. /\ job_id' = ids[head] /\ ids' = ids /\ head' = head /\ count' = count
  BY DEF Peek
<1>3. Contents' = Contents
  BY <1>2 DEF Contents, Position
<1>4. EntriesAreJobs'
  BY <1>2 DEF RingInv, EntriesAreJobs, Position
<1>5. TypeOK'
  BY <1>1, <1>2 DEF RingInv, TypeOK
<1> QED  BY <1>1, <1>2, <1>3, <1>4, <1>5 DEF RingInv, Fifo!Peek

\* A pop removes the oldest entry, wherever the ring wraps.
LEMMA PopStep ==
  ASSUME RingInv, Pop
  PROVE  RingInv' /\ Fifo!Pop
<1>1. TypeOK /\ EntriesAreJobs
  BY DEF RingInv
<1>2. /\ count # 0 /\ job_id' = ids[head] /\ ids' = [ids EXCEPT ![head] = 0]
      /\ head' = (head + 1) % Cap /\ count' = count - 1
  BY DEF Pop, Cap
<1>3. /\ Contents # <<>> /\ Head(Contents) = ids[head] /\ ids[head] \in JobIds
  BY <1>2, OldestEntry
<1>4. /\ head \in 0..Cap - 1 /\ count \in 1..Cap /\ Cap \in Nat \ {0}
      /\ ids \in [Positions -> JobIds \cup {0}]
      /\ Contents \in Seq(JobIds \cup {0}) /\ Len(Contents) = count
      /\ \A k \in 1..count : Contents[k] = ids[Position(k - 1)]
  BY <1>1, <1>2, RingTypes
<1>5. head' \in Positions /\ head \in Positions
      /\ \A k \in 0..Cap - 1 : Position(k)' = Position(k + 1)
  BY <1>2, <1>4, NextHead, ZenonT(30) DEF Position, Cap, Positions
<1>6. \A k \in 0..Cap - 1 : Position(k) \in Positions /\ (Position(k) = head => k = 0)
  <2>1. (head + 0) % Cap = head /\ 0 \in 0..Cap - 1
    BY <1>4, FullCircle
  <2>2. ASSUME NEW k \in 0..Cap - 1
        PROVE  /\ (head + k) % Cap \in Positions
               /\ (head + k) % Cap = (head + 0) % Cap => k = 0
    BY <1>4, <2>1, DistinctPositions, ZenonT(30)
  <2> QED  BY <2>1, <2>2 DEF Position, Cap
<1>7. Position(Cap) = head
  BY <1>4, FullCircle, ZenonT(30) DEF Position, Cap
<1>8. /\ ids' \in [Positions -> JobIds \cup {0}] /\ ids'[head] = 0
      /\ \A p \in Positions : p # head => ids'[p] = ids[p]
  BY <1>2, <1>4, <1>5
<1>9. TypeOK'
  <2>1. count' \in 0..JOB_QUEUE_CAPACITY
    BY <1>2, <1>4 DEF Cap
  <2> QED  BY <1>2, <1>3, <1>5, <1>8, <2>1 DEF TypeOK
<1>10. EntriesAreJobs'
  <2>1. ASSUME NEW k \in 0..Cap - 1
        PROVE  ids'[Position(k)'] = 0 <=> k >= count'
    <3>1. CASE k = Cap - 1
      <4>1. k + 1 = Cap /\ k >= count'
        BY <1>2, <1>4, <3>1
      <4> QED  BY <1>5, <1>7, <1>8, <4>1
    <3>2. CASE k # Cap - 1
      <4>1. k + 1 \in 0..Cap - 1 /\ k + 1 # 0 /\ (k + 1 >= count <=> k >= count')
        BY <1>2, <1>4, <3>2
      <4>2. ids'[Position(k)'] = ids[Position(k + 1)]
        BY <1>5, <1>6, <1>8, <4>1
      <4>3. ids[Position(k + 1)] = 0 <=> k + 1 >= count
        BY <1>1, <4>1 DEF EntriesAreJobs, Cap
      <4> QED  BY <4>1, <4>2, <4>3
    <3> QED  BY <3>1, <3>2
  <2> QED  BY <2>1 DEF EntriesAreJobs, Cap
<1>11. Contents' = Tail(Contents)
  <2>1. /\ Contents' = [k \in 1..count - 1 |-> ids'[Position(k - 1)']]
        /\ count - 1 \in Nat
    BY <1>2, <1>4 DEF Contents
  <2>2. /\ Tail(Contents) \in Seq(JobIds \cup {0})
        /\ Len(Tail(Contents)) = count - 1
        /\ \A k \in 1..count - 1 : Tail(Contents)[k] = Contents[k + 1]
    BY <1>3, <1>4, HeadTailProperties
  <2>3. ASSUME NEW k \in 1..count - 1
        PROVE  ids'[Position(k - 1)'] = Contents[k + 1]
    <3>1. /\ k - 1 \in 0..Cap - 1 /\ k - 1 + 1 = k /\ k \in 0..Cap - 1 /\ k # 0
          /\ k + 1 \in 1..count /\ k + 1 - 1 = k
      BY <1>4
    <3>2. Position(k - 1)' = Position(k)
      BY <1>5, <3>1
    <3>3. ids'[Position(k)] = ids[Position(k)]
      BY <1>6, <1>8, <3>1
    <3>4. Contents[k + 1] = ids[Position(k)]
      BY <1>4, <3>1
    <3> QED  BY <3>2, <3>3, <3>4
  <2>4. (Contents \in Seq(JobIds \cup {0}))' /\ (Len(Contents) = count)'
    <3>1. \A k \in 1..count - 1 : ids'[Position(k - 1)'] \in JobIds \cup {0}
      <4>1. \A k \in 1..count - 1 : Contents[k + 1] \in JobIds \cup {0}
        BY <1>4, ElementOfSeq
      <4> QED  BY <2>3, <4>1
    <3> QED  BY <1>2, <2>1, <3>1
  <2>5. Len(Contents') = Len(Tail(Contents))
    BY <1>2, <2>2, <2>4
  <2>6. \A k \in 1..Len(Contents') : Contents'[k] = Tail(Contents)[k]
    BY <1>2, <2>1, <2>2, <2>3, <2>4
  <2> QED  BY <2>2, <2>4, <2>5, <2>6, SeqEqual
<1> QED  BY <1>1, <1>2, <1>3, <1>9, <1>10, <1>11 DEF RingInv, Fifo!Pop

LEMMA RingInit ==
  ASSUME Init
  PROVE  RingInv /\ Fifo!Init
<1>1. /\ ids = [p \in Positions |-> 0] /\ head = 0 /\ count = 0 /\ job_id = 0
  BY DEF Init
<1>2. Cap \in Nat \ {0} /\ 0 \in 0..Cap - 1
  BY QueueConstants DEF Cap
<1>3. TypeOK
  BY <1>1, <1>2 DEF TypeOK, Positions, Cap
<1>4. EntriesAreJobs
  <2>1. \A k \in 0..Cap - 1 : Position(k) \in Positions
    BY <1>1, <1>2, DistinctPositions, ZenonT(30) DEF Position, Cap
  <2> QED  BY <1>1, <1>2, <2>1 DEF EntriesAreJobs, Cap
<1>5. Contents = <<>>
  <2>1. Contents \in Seq(JobIds \cup {0}) /\ Len(Contents) = 0
    BY <1>1, <1>3, RingTypes
  <2> QED  BY <2>1, EmptySeq
<1> QED  BY <1>1, <1>3, <1>4, <1>5 DEF RingInv, Fifo!Init

LEMMA RingStep ==
  ASSUME RingInv, [Next]_vars
  PROVE  RingInv' /\ [Fifo!Next]_<<Contents, job_id>>
<1>1. ASSUME NEW job \in Jobs, Push(job)
      PROVE  RingInv' /\ Fifo!Next
  BY <1>1, PushStep DEF Fifo!Next
<1>2. CASE Peek
  BY <1>2, PeekStep DEF Fifo!Next
<1>3. CASE Pop
  BY <1>3, PopStep DEF Fifo!Next
<1>4. CASE UNCHANGED vars
  <2>1. ids' = ids /\ head' = head /\ count' = count /\ job_id' = job_id
    BY <1>4 DEF vars
  <2>2. Contents' = Contents
    BY <2>1 DEF Contents, Position
  <2>3. RingInv'
    BY <2>1 DEF RingInv, TypeOK, EntriesAreJobs, Position
  <2> QED  BY <2>1, <2>2, <2>3
<1> QED  BY <1>1, <1>2, <1>3, <1>4 DEF Next

\* For every capacity the ring of job_queue.c stays within its array.
THEOREM RingTypeCorrect == Spec => []TypeOK
<1>1. RingInv => TypeOK
  BY DEF RingInv
<1> QED  BY <1>1, RingInit, RingStep, PTL DEF Spec

\* For every capacity and any number of wraps, exactly the positions that
\* hold an entry are nonzero: pop clears what it returns and push overwrites
\* no entry.
THEOREM EntriesCorrect == Spec => []EntriesAreJobs
<1>1. RingInv => EntriesAreJobs
  BY DEF RingInv
<1> QED  BY <1>1, RingInit, RingStep, PTL DEF Spec

\* For every capacity faultline_job_queue_push, peek and pop implement the
\* bounded sequence of JobFifo that module Scheduler uses in their place.
THEOREM RingImplementsFifo == Spec => ImplementsFifo
<1> QED  BY RingInit, RingStep, PTL DEF Spec, ImplementsFifo, Fifo!Spec

-----------------------------------------------------------------------------
(* Induction over numbers, by the least counterexample.                    *)

LEMMA LeastNumber ==
  ASSUME NEW S \in SUBSET Nat, S # {}
  PROVE  \E x \in S : \A y \in S : x <= y
<1> DEFINE less == OpToRel(<, Nat)
<1>1. IsWellFoundedOn(less, Nat)
  BY NatLessThanWellFounded
<1>2. \E x \in S : \A y \in S : ~(<<y, x>> \in less)
  <2> HIDE DEF less
  <2> QED  BY <1>1, WFMin, ZenonT(30)
<1>3. less = {ss \in Nat \X Nat : ss[1] < ss[2]}
  BY ZenonT(30) DEF OpToRel
<1> HIDE DEF less
<1>4. PICK x \in S : \A y \in S : ~(<<y, x>> \in less)
  BY <1>2
<1>5. ASSUME NEW y \in S PROVE x <= y
  <2>1. x \in Nat /\ y \in Nat
    OBVIOUS
  <2>2. y < x => <<y, x>> \in less
    BY <1>3, <2>1
  <2> QED  BY <1>4, <2>1, <2>2
<1> QED  BY <1>5

\* A set of numbers that contains a number whenever it contains all smaller
\* ones contains every number.
LEMMA Induction ==
  ASSUME NEW S \in SUBSET Nat,
         \A n \in Nat : (\A m \in 0..n - 1 : m \in S) => n \in S
  PROVE  S = Nat
<1> SUFFICES ASSUME Nat \ S # {} PROVE FALSE
  OBVIOUS
<1>1. PICK n \in Nat \ S : \A m \in Nat \ S : n <= m
  BY LeastNumber
<1>2. \A m \in 0..n - 1 : m \in S
  BY <1>1
<1> QED  BY <1>1, <1>2

-----------------------------------------------------------------------------
(* The Fibonacci numbers.                                                  *)

\* g is right up to n.
Follows(g, n) ==
  /\ g \in [0..n -> Nat]
  /\ \A k \in 0..n : g[k] = IF k < 2 THEN k ELSE g[k - 1] + g[k - 2]

LEMMA FollowsUnique ==
  ASSUME NEW m \in Nat, NEW n \in Nat, NEW g, NEW h, Follows(g, m), Follows(h, n)
  PROVE  \A k \in Nat : k <= m /\ k <= n => g[k] = h[k]
<1> DEFINE S == {k \in Nat : k <= m /\ k <= n => g[k] = h[k]}
<1>1. ASSUME NEW k \in Nat, \A j \in 0..k - 1 : j \in S PROVE k \in S
  <2> SUFFICES ASSUME k <= m, k <= n PROVE g[k] = h[k]
    OBVIOUS
  <2>1. k \in 0..m /\ k \in 0..n
    OBVIOUS
  <2>2. CASE k < 2
    BY <2>1, <2>2 DEF Follows
  <2>3. CASE k >= 2
    <3>1. k - 1 \in S /\ k - 2 \in S
      BY <1>1, <2>3
    <3>2. g[k - 1] = h[k - 1] /\ g[k - 2] = h[k - 2]
      BY <3>1, <2>3
    <3>3. g[k] = g[k - 1] + g[k - 2] /\ h[k] = h[k - 1] + h[k - 2]
      BY <2>1, <2>3 DEF Follows
    <3> QED  BY <3>2, <3>3
  <2> QED  BY <2>2, <2>3
<1>2. S = Nat
  <2>1. S \in SUBSET Nat
    OBVIOUS
  <2> HIDE DEF S
  <2> QED  BY <1>1, <2>1, Induction
<1> QED  BY <1>2

LEMMA FollowsExists ==
  ASSUME NEW n \in Nat
  PROVE  \E g : Follows(g, n)
<1> DEFINE S == {k \in Nat : \E g : Follows(g, k)}
<1>1. ASSUME NEW k \in Nat, \A j \in 0..k - 1 : j \in S PROVE k \in S
  <2>1. CASE k = 0
    <3>1. Follows([j \in 0..0 |-> j], 0)
      BY DEF Follows
    <3> QED  BY <2>1, <3>1
  <2>2. CASE k > 0
    <3>1. k - 1 \in S /\ k - 1 \in 0..k - 1
      BY <1>1, <2>2
    <3>2. PICK g : Follows(g, k - 1)
      BY <3>1
    <3> DEFINE v == IF k < 2 THEN k ELSE g[k - 1] + g[k - 2]
               h == [j \in 0..k |-> IF j = k THEN v ELSE g[j]]
    <3>3. v \in Nat
      BY <2>2, <3>2 DEF Follows
    <3> HIDE DEF v
    <3>4. h \in [0..k -> Nat]
      BY <3>2, <3>3 DEF Follows
    <3>5. ASSUME NEW j \in 0..k PROVE h[j] = IF j < 2 THEN j ELSE h[j - 1] + h[j - 2]
      <4>1. CASE j = k
        BY <2>2, <4>1 DEF v
      <4>2. CASE j # k
        <5>1. j \in 0..k - 1
          BY <4>2
        <5>2. g[j] = IF j < 2 THEN j ELSE g[j - 1] + g[j - 2]
          BY <3>2, <5>1 DEF Follows
        <5> QED  BY <5>1, <5>2
      <4> QED  BY <4>1, <4>2
    <3> HIDE DEF h
    <3>6. Follows(h, k)
      BY <3>4, <3>5 DEF Follows
    <3> QED  BY <3>6
  <2> QED  BY <2>1, <2>2
<1>2. S = Nat
  <2>1. S \in SUBSET Nat
    OBVIOUS
  <2> HIDE DEF S
  <2> QED  BY <1>1, <2>1, Induction
<1> QED  BY <1>2

LEMMA FibonacciNumbers ==
  \A n \in Nat : /\ Fibonacci[n] \in Nat
                 /\ Fibonacci[n] = IF n < 2 THEN n ELSE Fibonacci[n - 1] + Fibonacci[n - 2]
<1> DEFINE Upto(n) == CHOOSE g : Follows(g, n)
           F == [n \in Nat |-> Upto(n)[n]]
           Body(f) == [n \in Nat |-> IF n < 2 THEN n ELSE f[n - 1] + f[n - 2]]
<1>1. \A n \in Nat : Follows(Upto(n), n)
  BY FollowsExists
<1> HIDE DEF Upto
<1>2. ASSUME NEW n \in Nat
      PROVE  F[n] \in Nat /\ F[n] = IF n < 2 THEN n ELSE F[n - 1] + F[n - 2]
  <2>1. F[n] = Upto(n)[n] /\ Follows(Upto(n), n)
    BY <1>1
  <2>2. CASE n < 2
    BY <2>1, <2>2 DEF Follows
  <2>3. CASE n >= 2
    <3>1. n - 1 \in Nat /\ n - 2 \in Nat
      BY <2>3
    <3>2. Follows(Upto(n - 1), n - 1) /\ Follows(Upto(n - 2), n - 2)
      BY <1>1, <3>1
    <3>3. Upto(n)[n - 1] = Upto(n - 1)[n - 1]
      BY <2>1, <3>1, <3>2, FollowsUnique
    <3>4. Upto(n)[n - 2] = Upto(n - 2)[n - 2]
      BY <2>1, <3>1, <3>2, FollowsUnique
    <3>5. Upto(n)[n] \in Nat /\ Upto(n)[n] = Upto(n)[n - 1] + Upto(n)[n - 2]
      BY <2>1, <2>3 DEF Follows
    <3> QED  BY <2>1, <2>3, <3>1, <3>3, <3>4, <3>5
  <2> QED  BY <2>2, <2>3
<1>3. F = Body(F)
  BY <1>2
<1>4. Fibonacci = CHOOSE f : f = Body(f)
  BY DEF Fibonacci
<1> HIDE DEF F, Body
<1>5. Fibonacci = Body(Fibonacci)
  BY <1>3, <1>4
<1>6. \A n \in Nat : Fibonacci[n] = IF n < 2 THEN n ELSE Fibonacci[n - 1] + Fibonacci[n - 2]
  BY <1>5 DEF Body
<1> DEFINE S == {n \in Nat : Fibonacci[n] \in Nat}
<1>7. ASSUME NEW n \in Nat, \A m \in 0..n - 1 : m \in S PROVE n \in S
  <2>1. CASE n < 2
    BY <1>6, <2>1
  <2>2. CASE n >= 2
    <3>1. n - 1 \in S /\ n - 2 \in S
      BY <1>7, <2>2
    <3>2. Fibonacci[n] = Fibonacci[n - 1] + Fibonacci[n - 2]
      BY <1>6, <2>2
    <3> QED  BY <3>1, <3>2
  <2> QED  BY <2>1, <2>2
<1>8. S = Nat
  <2>1. S \in SUBSET Nat
    OBVIOUS
  <2> HIDE DEF S
  <2> QED  BY <1>7, <2>1, Induction
<1> QED  BY <1>6, <1>8

-----------------------------------------------------------------------------
(* Counting primes.                                                        *)

IsPrime(p) == \A d \in 2..p - 1 : p % d # 0

LEMMA Divided ==
  ASSUME NEW a \in Nat, NEW d \in Nat \ {0}
  PROVE  /\ a \div d \in Nat /\ a % d \in 0..d - 1 /\ a = d * (a \div d) + (a % d)
<1> DEFINE q == a \div d
           r == a % d
<1>1. q \in Nat /\ r \in 0..d - 1 /\ a = q * d + r
  BY Division
<1> HIDE DEF q, r
<1>2. q * d = d * q
  BY <1>1
<1>3. a = d * q + r
  BY <1>1, <1>2
<1> QED  BY <1>1, <1>3, Zenon DEF q, r

\* What is divisible is a product.
LEMMA Divisible ==
  ASSUME NEW a \in Nat, NEW d \in Nat \ {0}
  PROVE  a % d = 0 <=> \E e \in Nat : a = d * e
<1>1. ASSUME a % d = 0 PROVE \E e \in Nat : a = d * e
  <2> DEFINE q == a \div d
  <2>1. q \in Nat /\ a = d * q + (a % d)
    BY Divided
  <2>2. d * q \in Int
    BY <2>1
  <2> HIDE DEF q
  <2> QED  BY <1>1, <2>1, <2>2
<1>2. ASSUME NEW e \in Nat, a = d * e PROVE a % d = 0
  <2> DEFINE q == a \div d
             r == a % d
  <2>1. q \in Nat /\ r \in 0..d - 1 /\ d * e = d * q + r
    BY <1>2, Divided
  <2> HIDE DEF q, r
  <2>2. d * e - d * q = d * (e - q)
    BY <2>1
  <2>3. r = d * (e - q)
    BY <2>1, <2>2
  <2>4. ~(e - q >= 1)
    <3> SUFFICES ASSUME e - q >= 1 PROVE FALSE
      OBVIOUS
    <3>1. d * (e - q) >= d * 1
      BY <2>1
    <3> QED  BY <2>1, <2>3, <3>1
  <2>5. ~(e - q <= -1)
    <3> SUFFICES ASSUME e - q <= -1 PROVE FALSE
      OBVIOUS
    <3>1. d * (e - q) <= d * (-1)
      BY <2>1
    <3> QED  BY <2>1, <2>3, <3>1
  <2>6. e - q = 0
    BY <2>1, <2>4, <2>5
  <2> QED  BY <2>1, <2>3, <2>6 DEF r
<1> QED  BY <1>1, <1>2

\* Trial division by the odd numbers below divisor is enough once the square
\* of divisor exceeds the candidate.
LEMMA NoDivisorLeft ==
  ASSUME NEW c \in Nat, c % 2 = 1, NEW d \in Nat, d >= 3, d > c \div d,
         \A e \in 3..d - 1 : e % 2 = 1 => c % e # 0
  PROVE  IsPrime(c)
<1>1. c < d * d
  <2> DEFINE q == c \div d
             r == c % d
  <2>0. d \in Nat \ {0}
    OBVIOUS
  <2>1. q \in Nat /\ r \in 0..d - 1 /\ c = d * q + r
    BY <2>0, Divided, Zenon
  <2>4. q <= d - 1
    BY <2>1
  <2> HIDE DEF q, r
  <2>2. d * q <= d * (d - 1)
    BY <2>1, <2>4
  <2>3. d * (d - 1) = d * d - d
    OBVIOUS
  <2> QED  BY <2>1, <2>2, <2>3
<1> SUFFICES ASSUME NEW x \in 2..c - 1, c % x = 0 PROVE FALSE
  BY DEF IsPrime
<1>2. PICK y \in Nat : c = x * y
  BY Divisible
<1>3. x % 2 = 1 /\ y % 2 = 1
  <2>1. ASSUME NEW z \in Nat, NEW v \in Nat, c = z * v, z % 2 # 1 PROVE FALSE
    <3>1. PICK h \in Nat : z = 2 * h
      BY <2>1, Divisible
    <3>2. c = 2 * (h * v) /\ h * v \in Nat
      BY <2>1, <3>1
    <3>3. c % 2 = 0
      BY <3>2, Divisible
    <3> QED  BY <3>3
  <2>2. c = y * x
    BY <1>2
  <2> QED  BY <1>2, <2>1, <2>2
<1>4. y >= 2
  <2>1. y # 0 /\ y # 1
    BY <1>2
  <2> QED  BY <2>1
<1>5. x >= 3 /\ y >= 3
  BY <1>3, <1>4
<1>6. x < d \/ y < d
  <2> SUFFICES ASSUME x >= d, y >= d PROVE FALSE
    BY <1>5
  <2>1. x * y >= d * y
    BY <1>5
  <2>2. d * y >= d * d
    BY <1>5
  <2> QED  BY <1>1, <1>2, <2>1, <2>2
<1>7. c % y = 0
  <2>1. c = y * x
    BY <1>2
  <2>2. y \in Nat \ {0} /\ x \in Nat
    BY <1>5
  <2> HIDE DEF IsPrime
  <2> QED  BY <2>1, <2>2, Divisible, Zenon
<1>8. x < d => x \in 3..d - 1
  BY <1>5
<1>9. y < d => y \in 3..d - 1
  BY <1>5
<1> QED  BY <1>3, <1>6, <1>7, <1>8, <1>9, Zenon

\* A divisor whose square does not exceed the number shows it composite.
LEMMA DivisorFound ==
  ASSUME NEW c \in Nat, NEW d \in Nat, d >= 2, d <= c \div d, c % d = 0
  PROVE  ~IsPrime(c)
<1> DEFINE q == c \div d
<1>1. q \in Nat /\ c = d * q /\ q >= 2
  BY Divided
<1> HIDE DEF q
<1>2. d * q >= d * 2
  BY <1>1
<1>3. d \in 2..c - 1
  BY <1>1, <1>2
<1> QED  BY <1>3, Zenon DEF IsPrime

LEMMA EvenNotPrime ==
  ASSUME NEW c \in Nat, c % 2 = 1, c >= 3
  PROVE  ~IsPrime(c + 1)
<1>1. (c + 1) % 2 = 0
  OBVIOUS
<1> QED  BY <1>1 DEF IsPrime

LEMMA PrimesFinite ==
  ASSUME NEW n \in Nat
  PROVE  /\ IsFiniteSet(Primes(n)) /\ Cardinality(Primes(n)) \in Nat
         /\ n > 0 => Cardinality(Primes(n)) <= n - 1
<1>1. IsFiniteSet(2..n) /\ (n > 0 => Cardinality(2..n) = n - 1)
  BY FS_Interval
<1>2. Primes(n) \subseteq 2..n
  BY DEF Primes
<1> QED  BY <1>1, <1>2, FS_Subset, FS_CardinalityType

\* One more number to count.
LEMMA PrimesNext ==
  ASSUME NEW n \in Nat, n >= 1
  PROVE  Cardinality(Primes(n + 1)) =
           Cardinality(Primes(n)) + (IF IsPrime(n + 1) THEN 1 ELSE 0)
<1>1. Primes(n + 1) = IF IsPrime(n + 1) THEN Primes(n) \cup {n + 1} ELSE Primes(n)
  <2>1. \A m \in Nat : Primes(m) = {p \in 2..m : IsPrime(p)}
    BY Zenon DEF Primes, IsPrime
  <2> HIDE DEF Primes, IsPrime
  <2>2. Primes(n) = {p \in 2..n : IsPrime(p)} /\ Primes(n + 1) = {p \in 2..n + 1 : IsPrime(p)}
    BY <2>1
  <2> QED  BY <2>2
<1>2. n + 1 \notin Primes(n)
  BY DEF Primes
<1>3. IsFiniteSet(Primes(n)) /\ Cardinality(Primes(n)) \in Nat
  BY PrimesFinite
<1>4. Cardinality(Primes(n) \cup {n + 1}) = Cardinality(Primes(n)) + 1
  BY <1>2, <1>3, FS_AddElement
<1> QED  BY <1>1, <1>3, <1>4

LEMMA FirstPrimes ==
  Cardinality(Primes(0)) = 0 /\ Cardinality(Primes(1)) = 0 /\ Cardinality(Primes(2)) = 1
<1>1. Primes(0) = {} /\ Primes(1) = {} /\ Primes(2) = {2}
  BY DEF Primes
<1> QED  BY <1>1, FS_EmptySet, FS_Singleton

-----------------------------------------------------------------------------
(* Task.                                                                   *)

Loops == {"candidate", "divisor", "divide"}

TaskType ==
  /\ type \in {"SLEEP", "PRIME_COUNT", "FIBONACCI", "HASH"} /\ number \in Int
  /\ cancel \in BOOLEAN /\ clock \in Nat /\ late \in Nat
  /\ at \in {"entry", "start", "check", "clock", "nap", "add", "finish", "done"} \cup Loops
  /\ outcome = "RUNNING" <=> at # "done"
  /\ deadline \in Int /\ wake \in Int
  /\ candidate \in Nat /\ divisor \in Nat /\ primes \in Nat
  /\ i \in Nat /\ previous \in Nat /\ current \in Nat

\* Which loop belongs to which task; its argument was accepted.
PlaceInv ==
  /\ at \notin {"entry", "done"} => ParseOK
  /\ at \in {"start", "check", "clock", "nap"} => type = "SLEEP"
  /\ at \in Loops => type = "PRIME_COUNT"
  /\ at = "add" => type = "FIBONACCI"

\* After a cancel, work is begun at most once: behind it the flag is loaded
\* again before any other.
CancelInv ==
  /\ late = 0 \/ (late = 1 /\ cancel /\ at \notin {"clock", "divide"})
  /\ at = "nap" => wake <= clock + NAP

SleepInv ==
  /\ at \in {"entry", "start"} => clock = 0
  /\ at \in {"check", "clock", "nap"} => deadline = number
  /\ at = "finish" /\ type = "SLEEP" => clock >= number

\* The primes below the candidate have been counted, and no odd number below
\* the divisor divides it.
CountInv ==
  /\ at \in Loops => candidate % 2 = 1 /\ candidate >= 3
  /\ at = "candidate" =>
       primes = Cardinality(Primes(IF number < candidate - 1 THEN number ELSE candidate - 1))
  /\ at \in {"divisor", "divide"} =>
       /\ candidate <= number /\ primes = Cardinality(Primes(candidate - 1))
       /\ divisor >= 3 /\ divisor % 2 = 1
       /\ \A e \in 3..divisor - 1 : e % 2 = 1 => candidate % e # 0
  /\ at = "divide" => MoreDivisors
  /\ at = "finish" /\ type = "PRIME_COUNT" => primes = Cardinality(Primes(number))

AddInv ==
  /\ at = "add" =>
       /\ i >= 2 /\ (i = 2 \/ i <= number + 1)
       /\ previous = Fibonacci[i - 2] /\ current = Fibonacci[i - 1]
  /\ at = "finish" /\ type = "FIBONACCI" => number = 0 \/ current = Fibonacci[number]

TaskInv ==
  TaskType /\ PlaceInv /\ CancelInv /\ SleepInv /\ CountInv /\ AddInv /\ ResultIsRight

LEMMA TaskInitially == TaskInit => TaskInv
<1> SUFFICES ASSUME TaskInit PROVE TaskInv
  OBVIOUS
<1>1. Limit(type) \in Nat
  BY TaskConstants DEF Limit
<1>2. number \in Int
  BY <1>1 DEF TaskInit
<1>3. TaskType
  <2>1. cancel \in BOOLEAN /\ (outcome = "RUNNING" <=> at # "done")
    BY DEF TaskInit
  <2> QED  BY <1>2, <2>1 DEF TaskInit, TaskType, Loops
<1>4. PlaceInv /\ CancelInv /\ SleepInv
  BY TaskConstants DEF TaskInit, PlaceInv, CancelInv, SleepInv, Loops
<1>5. CountInv /\ AddInv /\ ResultIsRight
  BY DEF TaskInit, CountInv, AddInv, ResultIsRight, Loops
<1> QED  BY <1>3, <1>4, <1>5 DEF TaskInv

\* The arguments the loops work on.
LEMMA Arguments ==
  ASSUME TaskInv
  PROVE  /\ at \in Loops => number \in 0..PRIME_COUNT_MAX
         /\ at = "add" => number \in 0..FIBONACCI_MAX
         /\ at \notin {"entry", "done"} /\ type = "SLEEP" => number \in 0..SLEEP_MAX
         /\ at \notin {"entry", "done"} /\ type # "HASH" => number \in Nat
BY TaskConstants DEF TaskInv, TaskType, PlaceInv, ParseOK, Limit, Loops

LEMMA LeaveKeeps ==
  ASSUME TaskInv, NEW s \in {"CANCELLED", "INVALID_ARGUMENT", "SYSTEM_ERROR"}, Leave(s, -1),
         at # "done"
  PROVE  TaskInv'
<1>1. /\ at' = "done" /\ outcome' = s /\ outcome' # "OK" /\ outcome' # "RUNNING"
      /\ UNCHANGED <<type, number, cancel, clock, late, deadline, wake, candidate, divisor,
                     primes, i, previous, current>>
  BY DEF Leave, local
<1>2. TaskType' /\ PlaceInv' /\ CancelInv'
  BY <1>1 DEF TaskInv, TaskType, PlaceInv, CancelInv, Loops
<1>3. SleepInv' /\ CountInv' /\ AddInv' /\ ResultIsRight'
  BY <1>1 DEF SleepInv, CountInv, AddInv, ResultIsRight, Loops
<1> QED  BY <1>2, <1>3 DEF TaskInv

LEMMA EnterKeeps ==
  ASSUME TaskInv, Enter
  PROVE  TaskInv'
<1>1. CASE \E s \in {"CANCELLED", "INVALID_ARGUMENT"} : Leave(s, -1)
  BY <1>1, LeaveKeeps DEF Enter
<1>2. CASE ~cancel /\ ParseOK /\ at' # "done"
  <2> DEFINE place == CASE type = "SLEEP" -> "start" [] type = "PRIME_COUNT" -> "candidate"
                        [] type = "FIBONACCI" -> "add" [] OTHER -> "finish"
  <2>1. /\ at = "entry" /\ Go(place)
        /\ candidate' = 3 /\ primes' = (IF number >= 2 THEN 1 ELSE 0)
        /\ i' = 2 /\ previous' = 0 /\ current' = 1
        /\ UNCHANGED <<deadline, wake, divisor, late>>
    BY <1>2 DEF Enter, Leave
  <2>2. /\ at' = place /\ UNCHANGED <<type, number, cancel, clock, outcome, result>>
    BY <2>1 DEF Go
  <2>3. place \in {"start", "candidate", "add", "finish"}
    OBVIOUS
  <2>4. TaskType' /\ PlaceInv' /\ CancelInv' /\ SleepInv' /\ ResultIsRight'
    BY <1>2, <2>1, <2>2 DEF TaskInv, TaskType, PlaceInv, CancelInv, SleepInv, ResultIsRight,
       Loops, ParseOK, Limit
  <2>5. CountInv'
    <3>1. CASE type = "PRIME_COUNT"
      <4>1. at' = "candidate" /\ candidate' = 3 /\ number' = number /\ number \in Nat
        BY <1>2, <2>1, <2>2, <3>1, TaskConstants DEF ParseOK, Limit
      <4>2. primes' = Cardinality(Primes(IF number < 2 THEN number ELSE 2))
        BY <2>1, <4>1, FirstPrimes
      <4> QED  BY <4>1, <4>2 DEF CountInv, Loops
    <3>2. CASE type # "PRIME_COUNT"
      BY <2>2, <3>2 DEF CountInv, Loops
    <3> QED  BY <3>1, <3>2
  <2>6. AddInv'
    <3>1. Fibonacci[0] = 0 /\ Fibonacci[1] = 1
      BY FibonacciNumbers
    <3> QED  BY <2>1, <2>2, <3>1 DEF AddInv
  <2> QED  BY <2>4, <2>5, <2>6 DEF TaskInv
<1> QED  BY <1>1, <1>2 DEF Enter, Go

LEMMA SleepKeeps ==
  ASSUME TaskInv, StartSleep \/ CheckSleep \/ ReadClock \/ WakeUp
  PROVE  TaskInv'
<1>1. CASE \E s \in {"CANCELLED", "SYSTEM_ERROR"} : Leave(s, -1)
  BY <1>1, LeaveKeeps DEF StartSleep, CheckSleep, ReadClock, WakeUp
<1>2. CASE at' # "done"
  <2>1. /\ at \in {"start", "check", "clock", "nap"} /\ type = "SLEEP" /\ number \in Nat
        /\ at' \in {"check", "clock", "nap", "finish"}
        /\ UNCHANGED <<type, number, cancel, clock, outcome, result, candidate, divisor, primes,
                       i, previous, current>>
    BY <1>2, Arguments DEF StartSleep, CheckSleep, ReadClock, WakeUp, Leave, Go, local, TaskInv, PlaceInv
  <2>2. TaskType' /\ SleepInv'
    BY <1>2, <2>1, TaskConstants DEF StartSleep, CheckSleep, ReadClock, WakeUp, Leave, Go, local, TaskInv,
       TaskType, SleepInv, Loops, Work, Slice, CancelInv
  <2>3. CancelInv'
    BY <1>2, <2>1, TaskConstants DEF StartSleep, CheckSleep, ReadClock, WakeUp, Leave, Go, local, TaskInv,
       TaskType, SleepInv, Loops, Work, Slice, CancelInv
  <2>4. PlaceInv' /\ CountInv' /\ AddInv' /\ ResultIsRight'
    BY <2>1 DEF TaskInv, TaskType, PlaceInv, CountInv, AddInv, ResultIsRight, Loops, ParseOK
  <2> QED  BY <2>2, <2>3, <2>4 DEF TaskInv
<1> QED  BY <1>1, <1>2 DEF StartSleep, CheckSleep, ReadClock, WakeUp, Go

LEMMA AddKeeps ==
  ASSUME TaskInv, Add
  PROVE  TaskInv'
<1>1. /\ type = "FIBONACCI" /\ number \in 0..FIBONACCI_MAX /\ at = "add" /\ i \in Nat /\ i >= 2
      /\ (i = 2 \/ i <= number + 1) /\ previous = Fibonacci[i - 2] /\ current = Fibonacci[i - 1]
  BY Arguments DEF Add, TaskInv, PlaceInv, AddInv, TaskType
<1>2. /\ at' \in {"add", "finish"}
      /\ UNCHANGED <<type, number, cancel, clock, outcome, result, deadline, wake, candidate,
                     divisor, primes, late>>
  BY DEF Add, Go, local
<1>3. CASE i > number /\ at' = "finish" /\ UNCHANGED <<i, previous, current>>
  <2>1. number = 0 \/ current = Fibonacci[number]
    BY <1>1, <1>3, TaskConstants
  <2> QED  BY <1>1, <1>2, <1>3, <2>1 DEF TaskInv, TaskType, PlaceInv, CancelInv, SleepInv, CountInv, AddInv,
     ResultIsRight, Loops, ParseOK
<1>4. CASE /\ i <= number /\ at' = "add" /\ previous' = current
           /\ current' = (previous + current) % UINT64 /\ i' = i + 1
  <2>1. Fibonacci[i] = previous + current /\ Fibonacci[i] \in Nat /\ i \in 0..FIBONACCI_MAX
    BY <1>1, <1>4, FibonacciNumbers, TaskConstants
  <2>2. Fibonacci[i] < UINT64 /\ UINT64 \in Nat
    BY <2>1, TaskConstants
  <2>3. current' = Fibonacci[i]
    BY <1>4, <2>1, <2>2
  <2>4. AddInv'
    BY <1>1, <1>2, <1>4, <2>3 DEF AddInv
  <2>5. current' \in Nat /\ previous' \in Nat /\ i' \in Nat
    BY <1>1, <1>4, <2>1, <2>3, FibonacciNumbers
  <2> QED  BY <1>1, <1>2, <1>4, <2>4, <2>5 DEF TaskInv, TaskType, PlaceInv, CancelInv, SleepInv, CountInv,
     ResultIsRight, Loops, ParseOK
<1> QED  BY <1>3, <1>4 DEF Add, Go, local

\* A candidate is done with: it counts when it is prime.
LEMMA CandidateCounted ==
  ASSUME TaskInv, at \in {"divisor", "divide"}, at' = "candidate",
         candidate' = (candidate + 2) % UINT64,
         primes' = primes + (IF IsPrime(candidate) THEN 1 ELSE 0),
         UNCHANGED <<type, number>>
  PROVE  CountInv' /\ candidate' \in Nat /\ primes' \in Nat
<1> DEFINE c == candidate
<1>1. /\ c \in Nat /\ c % 2 = 1 /\ c >= 3 /\ c <= number /\ number \in 0..PRIME_COUNT_MAX
      /\ primes = Cardinality(Primes(c - 1)) /\ primes \in Nat
  BY Arguments DEF TaskInv, TaskType, CountInv, Loops
<1>2. candidate' = c + 2 /\ (c + 2) % 2 = 1
  BY <1>1, TaskConstants
<1> HIDE DEF IsPrime, c
<1>3. Cardinality(Primes(c)) = primes'
  <2>1. c - 1 \in Nat /\ c - 1 >= 1 /\ (c - 1) + 1 = c
    BY <1>1
  <2>2. Cardinality(Primes((c - 1) + 1)) =
          Cardinality(Primes(c - 1)) + (IF IsPrime((c - 1) + 1) THEN 1 ELSE 0)
    BY <2>1, PrimesNext
  <2> QED  BY <1>1, <2>1, <2>2 DEF c
<1>4. Cardinality(Primes(c + 1)) = primes'
  <2>1. ~IsPrime(c + 1)
    BY <1>1, EvenNotPrime
  <2>2. Cardinality(Primes(c + 1)) = Cardinality(Primes(c)) + 0
    BY <1>1, <2>1, PrimesNext
  <2>3. Cardinality(Primes(c)) \in Nat
    BY <1>1, PrimesFinite
  <2> QED  BY <1>3, <2>2, <2>3
<1>5. primes' \in Nat
  BY <1>1
<1>6. (IF number < candidate' - 1 THEN number ELSE candidate' - 1) \in {c, c + 1}
  BY <1>1, <1>2
<1>7. primes' = Cardinality(Primes(IF number < candidate' - 1 THEN number ELSE candidate' - 1))
  BY <1>3, <1>4, <1>6
<1> QED  BY <1>1, <1>2, <1>5, <1>7 DEF CountInv, Loops

LEMMA NextCandidateKeeps ==
  ASSUME TaskInv, NextCandidate
  PROVE  TaskInv'
<1>1. CASE Leave("CANCELLED", -1)
  BY <1>1, LeaveKeeps DEF NextCandidate
<1>2. CASE at' # "done"
  <2>1. /\ at = "candidate" /\ type = "PRIME_COUNT" /\ number \in Nat
        /\ at' \in {"finish", "divisor"} /\ candidate \in Nat /\ candidate >= 3
        /\ UNCHANGED <<type, number, cancel, clock, outcome, result, late, deadline, wake,
                       candidate, primes, i, previous, current>>
    BY <1>2, Arguments DEF NextCandidate, Leave, Go, local, TaskInv, TaskType, PlaceInv, CountInv, Loops
  <2>2. CASE at' = "finish" /\ candidate > number /\ UNCHANGED divisor
    <3>1. (IF number < candidate - 1 THEN number ELSE candidate - 1) = number
      BY <2>1, <2>2 DEF TaskInv, TaskType
    <3>2. primes = Cardinality(Primes(number))
      BY <2>1, <3>1 DEF TaskInv, CountInv
    <3>3. CountInv'
      BY <2>1, <2>2, <3>2 DEF CountInv, Loops
    <3> QED  BY <2>1, <2>2, <3>3 DEF TaskInv, TaskType, PlaceInv, CancelInv, SleepInv, AddInv,
             ResultIsRight, Loops, ParseOK
  <2>3. CASE at' = "divisor" /\ candidate <= number /\ divisor' = 3 /\ ~cancel
    <3>1. (IF number < candidate - 1 THEN number ELSE candidate - 1) = candidate - 1
      BY <2>1, <2>3
    <3>2. primes = Cardinality(Primes(candidate - 1))
      BY <2>1, <3>1 DEF TaskInv, CountInv
    <3>3. CountInv'
      BY <2>1, <2>3, <3>2 DEF TaskInv, CountInv, Loops
    <3> QED  BY <2>1, <2>3, <3>3 DEF TaskInv, TaskType, PlaceInv, CancelInv, SleepInv, AddInv,
             ResultIsRight, Loops, ParseOK
  <2> QED  BY <1>2, <2>2, <2>3 DEF NextCandidate, Leave, Go, local
<1> QED  BY <1>1, <1>2 DEF NextCandidate, Go

LEMMA TestKeeps ==
  ASSUME TaskInv, TestCandidate
  PROVE  TaskInv'
<1>1. CASE Leave("CANCELLED", -1)
  BY <1>1, LeaveKeeps DEF TestCandidate
<1>2. CASE at' # "done"
  <2>1. /\ at = "divisor" /\ type = "PRIME_COUNT" /\ at' \in {"candidate", "divide"}
        /\ UNCHANGED <<type, number, cancel, clock, outcome, result, late, deadline, wake,
                       divisor, i, previous, current>>
    BY <1>2 DEF TestCandidate, Leave, Go, local, TaskInv, PlaceInv, Loops
  <2>2. CASE /\ ~MoreDivisors /\ at' = "candidate"
             /\ primes' = (primes + 1) % UINT64 /\ candidate' = (candidate + 2) % UINT64
    <3>1. /\ candidate \in Nat /\ candidate % 2 = 1 /\ divisor \in Nat /\ divisor >= 3
          /\ \A e \in 3..divisor - 1 : e % 2 = 1 => candidate % e # 0
          /\ candidate <= number /\ number \in 0..PRIME_COUNT_MAX
          /\ primes = Cardinality(Primes(candidate - 1)) /\ primes \in Nat /\ candidate >= 3
      BY <2>1, Arguments DEF TaskInv, TaskType, CountInv, Loops
    <3>2. divisor > candidate \div divisor
      <4>1. candidate \div divisor \in Nat
        <5>1. candidate \in Nat /\ divisor \in Nat \ {0}
          BY <3>1
        <5> QED  BY <5>1, Divided, Zenon
      <4> QED  BY <2>2, <3>1, <4>1 DEF MoreDivisors
    <3>3. IsPrime(candidate)
      BY <3>1, <3>2, NoDivisorLeft
    <3>4. primes' = primes + 1
      <4>1. candidate - 1 \in Nat /\ candidate - 1 > 0
        BY <3>1
      <4>2. primes <= candidate - 2
        <5>1. Cardinality(Primes(candidate - 1)) <= (candidate - 1) - 1
          BY <4>1, PrimesFinite
        <5> QED  BY <3>1, <5>1
      <4>3. primes + 1 \in 0..UINT64 - 1 /\ UINT64 \in Nat
        BY <3>1, <4>2, TaskConstants
      <4> QED  BY <2>2, <4>3
    <3>5. CountInv' /\ candidate' \in Nat /\ primes' \in Nat
      BY <2>1, <2>2, <3>3, <3>4, CandidateCounted
    <3> QED  BY <2>1, <2>2, <3>5 DEF TaskInv, TaskType, PlaceInv, CancelInv, SleepInv, AddInv,
             ResultIsRight, Loops, ParseOK
  <2>3. CASE MoreDivisors /\ ~cancel /\ at' = "divide" /\ UNCHANGED <<candidate, primes>>
    <3>1. CountInv'
      BY <2>1, <2>3 DEF TaskInv, CountInv, Loops, MoreDivisors
    <3> QED  BY <2>1, <2>3, <3>1 DEF TaskInv, TaskType, PlaceInv, CancelInv, SleepInv, AddInv,
             ResultIsRight, Loops, ParseOK
  <2> QED  BY <1>2, <2>2, <2>3 DEF TestCandidate, Leave, Go, local
<1> QED  BY <1>1, <1>2 DEF TestCandidate, Go

LEMMA DivideKeeps ==
  ASSUME TaskInv, Divide
  PROVE  TaskInv'
<1>1. /\ candidate \in Nat /\ candidate % 2 = 1 /\ divisor \in Nat /\ divisor >= 3
      /\ divisor % 2 = 1 /\ divisor <= candidate \div divisor
      /\ \A e \in 3..divisor - 1 : e % 2 = 1 => candidate % e # 0
      /\ candidate <= number /\ number \in 0..PRIME_COUNT_MAX /\ primes \in Nat
  BY Arguments DEF Divide, TaskInv, TaskType, CountInv, Loops, MoreDivisors
<1>2. /\ at = "divide" /\ type = "PRIME_COUNT" /\ at' \in {"candidate", "divisor"}
      /\ UNCHANGED <<type, number, cancel, clock, outcome, result, deadline, wake, primes,
                     i, previous, current>>
      /\ late' = late + (IF cancel THEN 1 ELSE 0)
  BY DEF Divide, Work, Go, TaskInv, PlaceInv, Loops
<1>3. CASE candidate % divisor = 0
  <2>1. at' = "candidate" /\ candidate' = (candidate + 2) % UINT64 /\ divisor' = divisor
    BY <1>3 DEF Divide, Go
  <2>2. ~IsPrime(candidate)
    BY <1>1, <1>3, DivisorFound
  <2>3. primes' = primes + 0
    BY <1>1, <1>2
  <2>4. CountInv' /\ candidate' \in Nat /\ primes' \in Nat
    BY <1>2, <2>1, <2>2, <2>3, CandidateCounted
  <2> QED  BY <1>2, <2>1, <2>4 DEF TaskInv, TaskType, PlaceInv, CancelInv, SleepInv, AddInv,
           ResultIsRight, Loops, ParseOK
<1>4. CASE candidate % divisor # 0
  <2>1. at' = "divisor" /\ divisor' = (divisor + 2) % UINT64 /\ candidate' = candidate
    BY <1>4 DEF Divide, Go
  <2>2. divisor' = divisor + 2
    <3>1. divisor < candidate
      <4> DEFINE q == candidate \div divisor
      <4>1. q \in Nat /\ candidate % divisor \in Nat /\ candidate = divisor * q + (candidate % divisor)
        BY <1>1, Divided
      <4>2. q >= 3
        BY <1>1, <4>1
      <4> HIDE DEF q
      <4>3. divisor * q >= divisor * 3
        BY <1>1, <4>1, <4>2
      <4> QED  BY <1>1, <4>1, <4>3
    <3> QED  BY <1>1, <2>1, <3>1, TaskConstants
  <2>3. divisor' \in Nat /\ divisor' >= 3 /\ divisor' % 2 = 1
    BY <1>1, <2>2
  <2>4. ASSUME NEW e \in 3..divisor' - 1, e % 2 = 1 PROVE candidate % e # 0
    <3>1. CASE e < divisor
      BY <1>1, <2>4, <3>1
    <3>2. CASE e = divisor
      BY <1>4, <3>2
    <3>3. e # divisor + 1
      BY <1>1, <2>4
    <3> QED  BY <1>1, <2>2, <3>1, <3>2, <3>3
  <2>5. CountInv'
    BY <1>2, <2>1, <2>3, <2>4 DEF TaskInv, CountInv, Loops
  <2> QED  BY <1>2, <2>1, <2>3, <2>5 DEF TaskInv, TaskType, PlaceInv, CancelInv, SleepInv, AddInv,
           ResultIsRight, Loops, ParseOK
<1> QED  BY <1>3, <1>4

LEMMA FinishKeeps ==
  ASSUME TaskInv, Finish
  PROVE  TaskInv'
<1>1. CASE Leave("CANCELLED", -1)
  BY <1>1, LeaveKeeps DEF Finish
<1>2. CASE Leave("OK", Value)
  <2>1. at = "finish" /\ (type # "HASH" => number \in Nat)
    BY Arguments DEF Finish
  <2>2. /\ at' = "done" /\ outcome' = "OK" /\ result' = Value
        /\ UNCHANGED <<type, number, cancel, clock, late, deadline, wake, candidate, divisor,
                       primes, i, previous, current>>
    BY <1>2 DEF Leave, local
  <2>3. ResultIsRight'
    <3>1. type = "PRIME_COUNT" => Value = Cardinality(Primes(number))
      BY <2>1 DEF TaskInv, CountInv, Value
    <3>2. type = "FIBONACCI" => Value = Fibonacci[number]
      BY <2>1, FibonacciNumbers DEF TaskInv, AddInv, Value
    <3>3. type = "SLEEP" => Value = number /\ clock >= number
      BY <2>1 DEF TaskInv, SleepInv, Value
    <3> HIDE DEF Value
    <3> QED  BY <2>2, <3>1, <3>2, <3>3 DEF ResultIsRight
  <2>4. TaskType' /\ PlaceInv' /\ CancelInv'
    BY <2>1, <2>2 DEF TaskInv, TaskType, PlaceInv, CancelInv, Loops
  <2>5. SleepInv' /\ CountInv' /\ AddInv'
    BY <2>2 DEF SleepInv, CountInv, AddInv, Loops
  <2> QED  BY <2>3, <2>4, <2>5 DEF TaskInv
<1> QED  BY <1>1, <1>2 DEF Finish

\* The main thread and the clock.
LEMMA OutsideKeeps ==
  ASSUME TaskInv, SetCancel \/ Tick
  PROVE  TaskInv'
<1>1. /\ UNCHANGED <<type, number, at, outcome, result, late, deadline, wake, candidate, divisor,
                     primes, i, previous, current>>
      /\ \/ cancel' = TRUE /\ clock' = clock /\ ~cancel /\ at # "done"
         \/ cancel' = cancel /\ clock' = clock + 1 /\ at \notin {"entry", "start"}
  BY DEF SetCancel, Tick, local
<1>2. TaskType' /\ PlaceInv'
  <2>1. cancel' \in BOOLEAN
    BY <1>1, ZenonT(30) DEF TaskInv, TaskType
  <2>2. clock' \in Nat
    BY <1>1 DEF TaskInv, TaskType
  <2> QED  BY <1>1, <2>1, <2>2 DEF TaskInv, TaskType, PlaceInv, ParseOK
<1>6. CancelInv' /\ SleepInv'
  BY <1>1, TaskConstants DEF TaskInv, TaskType, CancelInv, SleepInv
<1>3. CountInv'
  BY <1>1 DEF TaskInv, CountInv, MoreDivisors
<1>5. AddInv'
  BY <1>1 DEF TaskInv, AddInv
<1>4. ResultIsRight'
  <2>1. number \in Int /\ clock \in Nat /\ clock' >= clock /\ clock' \in Nat
    BY <1>1 DEF TaskInv, TaskType
  <2> QED  BY <1>1, <2>1 DEF TaskInv, ResultIsRight
<1> QED  BY <1>2, <1>3, <1>4, <1>5, <1>6 DEF TaskInv

\* TaskInv is an invariant of a task.
LEMMA TaskSafety == TaskSpec => []TaskInv
<1>1. TaskInv /\ [TaskNext]_tvars => TaskInv'
  <2> SUFFICES ASSUME TaskInv, [TaskNext]_tvars PROVE TaskInv'
    OBVIOUS
  <2>1. CASE UNCHANGED tvars
    BY <2>1 DEF tvars, local, TaskInv, TaskType, PlaceInv, CancelInv, SleepInv, CountInv, AddInv,
       ResultIsRight, ParseOK, MoreDivisors
  <2>2. CASE TaskNext
    BY <2>2, EnterKeeps, SleepKeeps, NextCandidateKeeps, TestKeeps, DivideKeeps, AddKeeps,
       FinishKeeps, OutsideKeeps, Zenon DEF TaskNext, Step
  <2> QED  BY <2>1, <2>2
<1> QED  BY <1>1, TaskInitially, PTL DEF TaskSpec

\* A task that succeeds did what it was asked, whatever the limits, as long as
\* they keep its loops within the word.
THEOREM ResultsAreRight == TaskSpec => []ResultIsRight
<1>1. TaskInv => ResultIsRight
  BY DEF TaskInv
<1> QED  BY <1>1, TaskSafety, PTL

\* A cancelled task begins at most one more division or nap.
THEOREM CancelIsNoticed == TaskSpec => []CancelNoticed
<1>1. TaskInv => CancelNoticed
  BY DEF TaskInv, CancelInv, CancelNoticed
<1> QED  BY <1>1, TaskSafety, PTL
=============================================================================
