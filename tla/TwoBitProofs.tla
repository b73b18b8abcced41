---------------------------- MODULE TwoBitProofs ----------------------------
(***************************************************************************)
(* Proofs about 2-bit compression, for every size of tensor, threshold,    *)
(* set of gradients and number of rounds.                                  *)
(***************************************************************************)
EXTENDS TwoBit, TLAPS

CodeSet == {0, 2, 3}

-----------------------------------------------------------------------------
(* The encoding.                                                           *)

\* Facts about the positions of the elements in the bytes: every element has
\* its byte, and the buffer has room for all of them.
LEMMA Positions ==
  ASSUME NEW i \in Index
  PROVE  /\ i \div 4 \in Byte /\ i % 4 \in 0 .. 3
         /\ i = 4 * (i \div 4) + (i % 4)
<1>1. i \in Nat /\ N \in Nat /\ i < N
  BY TwoBitAssumption DEF Index
<1>2. i \div 4 \in Nat /\ i % 4 \in 0 .. 3 /\ i = 4 * (i \div 4) + (i % 4)
  <2> HIDE DEF Index
  <2>1. i \div 4 \in Nat
    BY <1>1
  <2>2. i % 4 \in 0 .. 3
    BY <1>1
  <2>3. i = 4 * (i \div 4) + (i % 4)
    BY <1>1
  <2> QED  BY <2>1, <2>2, <2>3
<1> DEFINE w == (N + 15) \div 16
<1>3. w \in Nat /\ 16 * w >= N
  BY <1>1
<1>4. i \div 4 < 4 * w
  <2> HIDE DEF w
  <2> QED  BY <1>1, <1>2, <1>3
<1> QED  BY <1>2, <1>3, <1>4 DEF Byte, NumBytes

\* Code yields one of the three codes, for every residual.
LEMMA CodeType ==
  ASSUME NEW r \in Int
  PROVE  Code(r) \in CodeSet /\ Value(Code(r)) \in Int
BY TwoBitAssumption DEF Code, CodeSet, Value

\* A byte of four codes, as quantize_2bit packs them, is a byte.
LEMMA PackType ==
  ASSUME NEW c \in [Index -> CodeSet]
  PROVE  Pack(c) \in [Byte -> 0 .. 255]
<1> SUFFICES ASSUME NEW b \in Byte
             PROVE  64 * At(c, 4 * b) + 16 * At(c, 4 * b + 1) + 4 * At(c, 4 * b + 2)
                      + At(c, 4 * b + 3) \in 0 .. 255
  BY DEF Pack
<1>1. b \in Nat
  BY TwoBitAssumption DEF Byte, NumBytes
<1>2. \A j \in Nat : At(c, j) \in CodeSet
  BY TwoBitAssumption DEF At, Index, CodeSet
<1>3. /\ At(c, 4 * b) \in CodeSet /\ At(c, 4 * b + 1) \in CodeSet
      /\ At(c, 4 * b + 2) \in CodeSet /\ At(c, 4 * b + 3) \in CodeSet
  BY <1>1, <1>2
<1> HIDE DEF At
<1> QED  BY <1>3 DEF CodeSet

\* Four codes packed into a number are found again by division and remainder.
LEMMA FourCodes ==
  ASSUME NEW c0 \in CodeSet, NEW c1 \in CodeSet, NEW c2 \in CodeSet, NEW c3 \in CodeSet
  PROVE  LET byte == 64 * c0 + 16 * c1 + 4 * c2 + c3
         IN /\ (byte \div 64) % 4 = c0 /\ (byte \div 16) % 4 = c1
            /\ (byte \div 4) % 4 = c2 /\ (byte \div 1) % 4 = c3
BY DEF CodeSet

\* dequantize_2bit reads back every code that quantize_2bit wrote.
LEMMA RoundTrip ==
  ASSUME NEW c \in [Index -> CodeSet], NEW i \in Index
  PROVE  Unpack(Pack(c))[i] = c[i]
<1> DEFINE b == i \div 4
<1>1. b \in Byte /\ i % 4 \in 0 .. 3 /\ i = 4 * b + (i % 4)
  BY Positions
<1>2. b \in Nat /\ i \in Nat
  BY <1>1, TwoBitAssumption DEF Byte, NumBytes, Index
<1>3. \A j \in Nat : At(c, j) \in CodeSet
  BY TwoBitAssumption DEF At, Index, CodeSet
<1>4. /\ At(c, 4 * b) \in CodeSet /\ At(c, 4 * b + 1) \in CodeSet
      /\ At(c, 4 * b + 2) \in CodeSet /\ At(c, 4 * b + 3) \in CodeSet
  BY <1>2, <1>3
<1>5. Pack(c)[b] = 64 * At(c, 4 * b) + 16 * At(c, 4 * b + 1) + 4 * At(c, 4 * b + 2)
                     + At(c, 4 * b + 3)
  BY <1>1 DEF Pack
<1>6. /\ (Pack(c)[b] \div 64) % 4 = At(c, 4 * b) /\ (Pack(c)[b] \div 16) % 4 = At(c, 4 * b + 1)
      /\ (Pack(c)[b] \div 4) % 4 = At(c, 4 * b + 2) /\ (Pack(c)[b] \div 1) % 4 = At(c, 4 * b + 3)
  BY <1>4, <1>5, FourCodes
<1>7. Unpack(Pack(c))[i] = (Pack(c)[b] \div Weight(i % 4)) % 4
  BY DEF Unpack
<1>8. At(c, i) = c[i]
  BY TwoBitAssumption DEF At, Index
<1> HIDE DEF b
<1>9. CASE i % 4 = 0
  <2>1. Weight(i % 4) = 64 /\ i = 4 * b
    BY <1>9, <1>1, <1>2 DEF Weight
  <2> QED  BY <2>1, <1>6, <1>7, <1>8
<1>10. CASE i % 4 = 1
  <2>1. Weight(i % 4) = 16 /\ i = 4 * b + 1
    BY <1>10, <1>1, <1>2 DEF Weight
  <2> QED  BY <2>1, <1>6, <1>7, <1>8
<1>11. CASE i % 4 = 2
  <2>1. Weight(i % 4) = 4 /\ i = 4 * b + 2
    BY <1>11, <1>1, <1>2 DEF Weight
  <2> QED  BY <2>1, <1>6, <1>7, <1>8
<1>12. CASE i % 4 = 3
  <2>1. Weight(i % 4) = 1 /\ i = 4 * b + 3
    BY <1>12, <1>1, <1>2 DEF Weight
  <2> QED  BY <2>1, <1>6, <1>7, <1>8
<1> QED  BY <1>1, <1>9, <1>10, <1>11, <1>12

-----------------------------------------------------------------------------
(* Types.                                                                  *)

\* The encoding of the residual, whole or cut off after any element, is a
\* sequence of codes.
LEMMA CodesType ==
  ASSUME TypeOK
  PROVE  /\ Corrected \in [Index -> Int] /\ Codes \in [Index -> CodeSet]
         /\ \A i \in Index : Value(Codes[i]) \in Int
<1>1. Corrected \in [Index -> Int]
  BY DEF TypeOK, Corrected
<1>2. \A i \in Index : Code(Corrected[i]) \in CodeSet /\ Value(Code(Corrected[i])) \in Int
  BY <1>1, CodeType
<1> QED  BY <1>1, <1>2 DEF Codes

\* What a read of an unfinished buffer gives is a byte.
LEMMA TornType ==
  ASSUME TypeOK, NEW b \in Byte
  PROVE  Torn(b) \subseteq 0 .. 255
<1> DEFINE Cut(k) == [i \in Index |-> IF i < 4 * b + k THEN Codes[i] ELSE 0]
<1>1. small_buf[b] \in 0 .. 255
  BY DEF TypeOK
<1>2. ASSUME NEW k \in 0 .. 4 PROVE Pack(Cut(k))[b] \in 0 .. 255
  <2>1. Cut(k) \in [Index -> CodeSet]
    BY CodesType DEF CodeSet
  <2> QED  BY <2>1, PackType
<1>3. Torn(b) = {small_buf[b]} \cup {Pack(Cut(k))[b] : k \in 0 .. 4}
  BY DEF Torn
<1> SUFFICES ASSUME NEW v \in {Pack(Cut(k))[b] : k \in 0 .. 4} PROVE v \in 0 .. 255
  BY <1>1, <1>3, Zenon
<1>4. PICK k \in 0 .. 4 : v = Pack(Cut(k))[b]
  BY Zenon
<1> QED  BY <1>2, <1>4, Zenon

\* What dequantize_2bit makes of any bytes is the threshold, its negative or 0.
LEMMA ValueType ==
  ASSUME NEW c
  PROVE  Value(c) \in {-threshold, 0, threshold} /\ Value(c) \in Int
BY TwoBitAssumption DEF Value

\* Type correctness of every step of a round.
THEOREM TypeCorrect == Spec => []TypeOK
<1>1. Init => TypeOK
  <2> SUFFICES ASSUME Init PROVE TypeOK
    OBVIOUS
  <2>1. small_buf \in [Byte -> 0 .. 255]
    BY TwoBitAssumption DEF Init
  <2>2. wire \in [Byte -> 0 .. 255]
    BY DEF Init
  <2>3. /\ grad \in [Index -> Int] /\ residual \in [Index -> Int]
        /\ merged \in [Index -> Int] /\ total \in [Index -> Int]
    BY DEF Init
  <2> QED  BY <2>1, <2>2, <2>3 DEF Init, TypeOK
<1>2. TypeOK /\ [Next]_vars => TypeOK'
  <2> SUFFICES ASSUME TypeOK, [Next]_vars PROVE TypeOK'
    OBVIOUS
  <2>1. ASSUME NEW g \in Gradient, Push(g) PROVE TypeOK'
    <3>1. g \in [Index -> Int]
      BY TwoBitAssumption
    <3>2. [i \in Index |-> total[i] + g[i]] \in [Index -> Int]
      BY <3>1 DEF TypeOK
    <3>3. grad' \in [Index -> Int] /\ total' \in [Index -> Int]
      BY <2>1, <3>1, <3>2 DEF Push
    <3>4. round' \in Nat
      BY <2>1 DEF Push, TypeOK
    <3> QED  BY <2>1, <3>3, <3>4 DEF Push, TypeOK
  <2>2. CASE Quantize
    <3>1. Pack(Codes) \in [Byte -> 0 .. 255]
      BY CodesType, PackType
    <3>2. [i \in Index |-> Corrected[i] - Value(Codes[i])] \in [Index -> Int]
      BY CodesType
    <3> QED  BY <2>2, <3>1, <3>2 DEF Quantize, TypeOK
  <2>3. CASE Send
    BY <2>3 DEF Send, TypeOK
  <2>4. CASE SendEarly
    <3>1. wire' \in [Byte -> 0 .. 255]
      <4>1. PICK w \in [Byte -> UNION {Torn(b) : b \in Byte}] :
              wire' = w /\ \A b \in Byte : w[b] \in Torn(b)
        BY <2>4 DEF SendEarly
      <4>2. \A b \in Byte : w[b] \in 0 .. 255
        BY <4>1, TornType
      <4> QED  BY <4>1, <4>2
    <3> QED  BY <2>4, <3>1 DEF SendEarly, TypeOK
  <2>5. CASE Dequantize
    <3>1. [i \in Index |-> merged[i] + Value(Unpack(wire)[i])] \in [Index -> Int]
      BY ValueType DEF TypeOK
    <3> QED  BY <2>5, <3>1 DEF Dequantize, TypeOK
  <2>6. CASE Response
    BY <2>6 DEF Response, TypeOK
  <2>7. CASE UNCHANGED vars
    BY <2>7 DEF vars, TypeOK
  <2> QED  BY <2>1, <2>2, <2>3, <2>4, <2>5, <2>6, <2>7 DEF Next
<1> QED  BY <1>1, <1>2, PTL DEF Spec

-----------------------------------------------------------------------------
(* A round costs at most two thresholds, and only when its buffer was read *)
(* before it was filled.                                                   *)

\* What of the round's gradient is still to come: all of it until it has been
\* quantized, then what the buffer encodes until the server has added a message.
Coming(i) ==
  IF state = "idle" THEN 0
  ELSE IF ~done THEN grad[i] ELSE IF got THEN 0 ELSE Value(Unpack(small_buf)[i])

\* What neither the server nor the sender has and what is not to come either.
Lost(i) == total[i] - merged[i] - residual[i] - Coming(i)

Within(x, b) == -b <= x /\ x <= b

\* What the rounds whose buffer was read early may have cost.
Cost == 2 * threshold * early

\* The inductive invariant.  Nothing is lost beyond Cost; while the round at
\* hand was read early, what it may still lose has not been used: a threshold
\* for the bytes the server adds, one for those it should have added.
Account ==
  /\ \A i \in Index : Within(Lost(i), Cost)
  /\ state = "busy" /\ sent /\ ~done =>
       \A i \in Index : Within(Lost(i), IF got THEN Cost - threshold ELSE Cost - 2 * threshold)
  /\ state = "busy" /\ sent /\ done /\ ~got =>
       wire = small_buf \/ \A i \in Index : Within(Lost(i), Cost - 2 * threshold)
  /\ state = "busy" /\ got => sent
  /\ state = "idle" /\ sent => got

\* The parts of Lost are integers.
LEMMA LostType ==
  ASSUME TypeOK, NEW i \in Index
  PROVE  /\ total[i] \in Int /\ merged[i] \in Int /\ residual[i] \in Int /\ grad[i] \in Int
         /\ Coming(i) \in Int /\ Lost(i) \in Int /\ Cost \in Int
<1>1. total[i] \in Int /\ merged[i] \in Int /\ residual[i] \in Int /\ grad[i] \in Int
  BY DEF TypeOK
<1>2. Coming(i) \in Int
  BY <1>1, ValueType DEF Coming
<1>3. Cost \in Int
  BY TwoBitAssumption DEF Cost, TypeOK
<1> QED  BY <1>1, <1>2, <1>3 DEF Lost

\* A code stands for at most one threshold.
LEMMA ValueBound ==
  ASSUME NEW c PROVE Value(c) \in Int /\ Within(Value(c), threshold)
BY TwoBitAssumption DEF Value, Within

\* No step of a round costs more than Account allows for, whichever of the
\* engine and the transport comes first.
THEOREM AccountInvariant == Spec => []Account
<1>1. Init => Account
  <2> SUFFICES ASSUME Init PROVE Account
    OBVIOUS
  <2>1. \A i \in Index : Lost(i) = 0
    BY DEF Init, Lost, Coming
  <2>2. Cost = 0
    BY TwoBitAssumption DEF Init, Cost
  <2> QED  BY <2>1, <2>2 DEF Init, Account, Within
<1>2. TypeOK /\ TypeOK' /\ Account /\ [Next]_vars => Account'
  <2> SUFFICES ASSUME TypeOK, TypeOK', Account, [Next]_vars PROVE Account'
    OBVIOUS
  <2>t. threshold \in Int /\ threshold > 0
    BY TwoBitAssumption
  <2>1. ASSUME NEW g \in Gradient, Push(g) PROVE Account'
    <3>1. Cost' = Cost
      BY <2>1 DEF Push, Cost
    <3>2. \A i \in Index : Lost(i)' = Lost(i)
      <4> SUFFICES ASSUME NEW i \in Index PROVE Lost(i)' = Lost(i)
        OBVIOUS
      <4>1. Coming(i) = 0 /\ Coming(i)' = g[i]
        BY <2>1 DEF Push, Coming
      <4>2. total'[i] = total[i] + g[i] /\ merged'[i] = merged[i] /\ residual'[i] = residual[i]
        BY <2>1 DEF Push
      <4>3. g[i] \in Int
        BY TwoBitAssumption
      <4> HIDE DEF Coming
      <4> QED  BY <4>1, <4>2, <4>3, LostType DEF Lost
    <3> QED  BY <2>1, <3>1, <3>2 DEF Push, Account
  <2>2. CASE Quantize
    <3>1. Cost' = Cost
      BY <2>2 DEF Quantize, Cost
    <3>2. \A i \in Index : Unpack(Pack(Codes))[i] = Codes[i]
      BY CodesType, RoundTrip
    <3>3. ASSUME NEW i \in Index
          PROVE  Lost(i)' = IF got THEN Lost(i) + Value(Codes[i]) ELSE Lost(i)
      <4>1. Coming(i) = grad[i] /\ Coming(i)' = IF got THEN 0 ELSE Value(Codes[i])
        BY <2>2, <3>2 DEF Quantize, Coming
      <4>2. residual'[i] = (residual[i] + grad[i]) - Value(Codes[i])
        BY <2>2 DEF Quantize, Corrected
      <4>3. total'[i] = total[i] /\ merged'[i] = merged[i]
        BY <2>2 DEF Quantize
      <4>4. Value(Codes[i]) \in Int
        BY ValueBound
      <4> HIDE DEF Coming, Value, Codes
      <4> QED  BY <4>1, <4>2, <4>3, <4>4, LostType DEF Lost
    <3>4. CASE got
      <4>1. \A i \in Index : Within(Lost(i), Cost - threshold)
        BY <2>2, <3>4 DEF Quantize, Account
      <4>2. \A i \in Index : Within(Lost(i)', Cost')
        <5> SUFFICES ASSUME NEW i \in Index PROVE Within(Lost(i)', Cost')
          OBVIOUS
        <5>1. Lost(i)' = Lost(i) + Value(Codes[i])
          BY <3>3, <3>4
        <5>2. Value(Codes[i]) \in Int /\ Within(Value(Codes[i]), threshold)
          BY ValueBound
        <5> HIDE DEF Lost, Value, Codes, Cost
        <5> QED  BY <5>1, <5>2, <4>1, <3>1, <2>t, LostType DEF Within
      <4> QED  BY <2>2, <3>4, <4>2 DEF Quantize, Account
    <3>5. CASE ~got
      <4>1. \A i \in Index : Lost(i)' = Lost(i)
        BY <3>3, <3>5
      <4>2. sent => \A i \in Index : Within(Lost(i), Cost - 2 * threshold)
        BY <2>2, <3>5 DEF Quantize, Account
      <4> HIDE DEF Lost, Cost
      <4> QED  BY <2>2, <3>1, <3>5, <4>1, <4>2 DEF Quantize, Account
    <3> QED  BY <3>4, <3>5
  <2>3. CASE Send
    <3>1. Cost' = Cost /\ \A i \in Index : Lost(i)' = Lost(i)
      BY <2>3 DEF Send, Cost, Lost, Coming
    <3> QED  BY <2>3, <3>1 DEF Send, Account
  <2>4. CASE SendEarly
    <3>1. \A i \in Index : Lost(i)' = Lost(i)
      BY <2>4 DEF SendEarly, Lost, Coming
    <3>2. Cost' = Cost + 2 * threshold
      <4>1. early' = early + 1 /\ early \in Int
        BY <2>4 DEF SendEarly, TypeOK
      <4> QED  BY <4>1, <2>t DEF Cost
    <3>3. ~got
      BY <2>4 DEF SendEarly, Account
    <3>4. \A i \in Index : Within(Lost(i)', Cost') /\ Within(Lost(i)', Cost' - 2 * threshold)
      <4> SUFFICES ASSUME NEW i \in Index
                   PROVE  Within(Lost(i)', Cost') /\ Within(Lost(i)', Cost' - 2 * threshold)
        OBVIOUS
      <4>1. Within(Lost(i), Cost)
        BY DEF Account
      <4> HIDE DEF Lost, Cost
      <4> QED  BY <4>1, <3>1, <3>2, <2>t, LostType DEF Within
    <3> QED  BY <2>4, <3>3, <3>4 DEF SendEarly, Account
  <2>5. CASE Dequantize
    <3>1. Cost' = Cost
      BY <2>5 DEF Dequantize, Cost
    <3>2. state = "busy" /\ state' = "busy" /\ got' /\ sent'
      BY <2>5 DEF Dequantize, Account, TypeOK
    <3>3. ASSUME NEW i \in Index
          PROVE  Lost(i)' = IF done THEN Lost(i) + Value(Unpack(small_buf)[i]) - Value(Unpack(wire)[i])
                            ELSE Lost(i) - Value(Unpack(wire)[i])
      <4>1. /\ Coming(i) = IF done THEN Value(Unpack(small_buf)[i]) ELSE grad[i]
            /\ Coming(i)' = IF done THEN 0 ELSE grad[i]
        BY <2>5, <3>2 DEF Dequantize, Coming
      <4>2. merged'[i] = merged[i] + Value(Unpack(wire)[i])
        BY <2>5 DEF Dequantize
      <4>3. total'[i] = total[i] /\ residual'[i] = residual[i]
        BY <2>5 DEF Dequantize
      <4>4. Value(Unpack(small_buf)[i]) \in Int /\ Value(Unpack(wire)[i]) \in Int
        BY ValueBound
      <4> HIDE DEF Coming, Value, Unpack
      <4> QED  BY <4>1, <4>2, <4>3, <4>4, LostType DEF Lost
    <3>4. CASE ~done
      <4>1. \A i \in Index : Within(Lost(i)', Cost') /\ Within(Lost(i)', Cost' - threshold)
        <5> SUFFICES ASSUME NEW i \in Index
                     PROVE  Within(Lost(i)', Cost') /\ Within(Lost(i)', Cost' - threshold)
          OBVIOUS
        <5>1. Within(Lost(i), Cost - 2 * threshold)
          BY <2>5, <3>2, <3>4 DEF Dequantize, Account
        <5>2. Value(Unpack(wire)[i]) \in Int /\ Within(Value(Unpack(wire)[i]), threshold)
          BY ValueBound
        <5>3. Lost(i)' = Lost(i) - Value(Unpack(wire)[i])
          BY <3>3, <3>4
        <5> HIDE DEF Lost, Cost, Value, Unpack
        <5> QED  BY <5>1, <5>2, <5>3, <3>1, <2>t, LostType DEF Within
      <4>2. ~done'
        BY <2>5, <3>4 DEF Dequantize
      <4> QED  BY <3>2, <4>1, <4>2 DEF Account
    <3>5. CASE done
      <4>1. \A i \in Index : Within(Lost(i)', Cost')
        <5> SUFFICES ASSUME NEW i \in Index PROVE Within(Lost(i)', Cost')
          OBVIOUS
        <5>1. Lost(i)' = Lost(i) + Value(Unpack(small_buf)[i]) - Value(Unpack(wire)[i])
          BY <3>3, <3>5
        <5>2. /\ Value(Unpack(wire)[i]) \in Int /\ Within(Value(Unpack(wire)[i]), threshold)
              /\ Value(Unpack(small_buf)[i]) \in Int
              /\ Within(Value(Unpack(small_buf)[i]), threshold)
          BY ValueBound
        <5>3. \/ wire = small_buf /\ Within(Lost(i), Cost)
              \/ Within(Lost(i), Cost - 2 * threshold)
          BY <2>5, <3>2, <3>5 DEF Dequantize, Account
        <5> HIDE DEF Lost, Cost, Value, Unpack
        <5> QED  BY <5>1, <5>2, <5>3, <3>1, <2>t, LostType DEF Within
      <4>2. done'
        BY <2>5, <3>5 DEF Dequantize
      <4> QED  BY <3>2, <4>1, <4>2 DEF Account
    <3> QED  BY <3>4, <3>5
  <2>6. CASE Response
    <3>1. Cost' = Cost /\ \A i \in Index : Lost(i)' = Lost(i)
      BY <2>6 DEF Response, Cost, Lost, Coming
    <3> QED  BY <2>6, <3>1 DEF Response, Account
  <2>7. CASE UNCHANGED vars
    <3>1. Cost' = Cost /\ \A i \in Index : Lost(i)' = Lost(i)
      BY <2>7 DEF vars, Cost, Lost, Coming
    <3> QED  BY <2>7, <3>1 DEF vars, Account
  <2> QED  BY <2>1, <2>2, <2>3, <2>4, <2>5, <2>6, <2>7 DEF Next
<1> QED  BY <1>1, <1>2, TypeCorrect, PTL DEF Spec

\* After every round what the server has got and the residual make up the
\* gradients, but for two thresholds for each round whose buffer was read
\* before it was filled.
THEOREM LossIsBounded == Spec => []LossBounded
<1>1. TypeOK /\ Account => LossBounded
  <2> SUFFICES ASSUME TypeOK, Account, state = "idle", NEW i \in Index
               PROVE  Within(total[i] - merged[i] - residual[i], Cost)
    BY DEF LossBounded, Within, Cost
  <2>1. Within(Lost(i), Cost) /\ Coming(i) = 0
    BY DEF Account, Coming
  <2>2. Lost(i) = total[i] - merged[i] - residual[i]
    BY <2>1, LostType DEF Lost
  <2> QED  BY <2>1, <2>2
<1> QED  BY <1>1, TypeCorrect, AccountInvariant, PTL

\* Nothing is lost as long as no buffer was read before it was filled, as
\* none of a worker is.
THEOREM ErrorFeedbackHolds == Spec => []ErrorFeedback
<1>1. TypeOK /\ LossBounded => ErrorFeedback
  <2> SUFFICES ASSUME TypeOK, LossBounded, state = "idle", early = 0, NEW i \in Index
               PROVE  merged[i] + residual[i] = total[i]
    BY DEF ErrorFeedback
  <2>1. Cost = 0
    BY TwoBitAssumption DEF Cost
  <2>2. Within(total[i] - merged[i] - residual[i], 0)
    BY <2>1 DEF LossBounded, Within, Cost
  <2> QED  BY <2>2, LostType DEF Within
<1> QED  BY <1>1, TypeCorrect, LossIsBounded, PTL

-----------------------------------------------------------------------------
(* The residual never amounts to a threshold.                              *)

\* Gradients within the threshold.
SmallGradients ==
  \A g \in Gradient : \A i \in Index : -threshold <= g[i] /\ g[i] <= threshold

\* The residual and the gradient being quantized are in their bounds.
Bounded ==
  /\ \A i \in Index : -threshold < residual[i] /\ residual[i] < threshold
  /\ \A i \in Index : -threshold <= grad[i] /\ grad[i] <= threshold

\* quantize_2bit takes whole thresholds off the residual as soon as it holds
\* one, whether or not the transport waits for it.
THEOREM ResidualStaysBounded == Spec => []ResidualBounded
<1>1. CASE SmallGradients
  <2>1. Init => Bounded
    BY TwoBitAssumption DEF Init, Bounded
  <2>2. TypeOK /\ Bounded /\ [Next]_vars => Bounded'
    <3> SUFFICES ASSUME TypeOK, Bounded, [Next]_vars PROVE Bounded'
      OBVIOUS
    <3>1. ASSUME NEW g \in Gradient, Push(g) PROVE Bounded'
      BY <1>1, <3>1 DEF Push, Bounded, SmallGradients
    <3>2. CASE Quantize
      <4>1. \A i \in Index : residual'[i] = Corrected[i] - Value(Code(Corrected[i]))
        BY <3>2 DEF Quantize, Codes
      <4>2. \A i \in Index : /\ Corrected[i] = residual[i] + grad[i]
                             /\ residual[i] \in Int /\ grad[i] \in Int
        BY DEF Corrected, TypeOK
      <4>3. \A r \in Int : -2 * threshold < r /\ r < 2 * threshold
                            => /\ -threshold < r - Value(Code(r))
                               /\ r - Value(Code(r)) < threshold
        BY TwoBitAssumption DEF Value, Code
      <4>4. \A i \in Index : /\ Corrected[i] \in Int
                             /\ -2 * threshold < Corrected[i] /\ Corrected[i] < 2 * threshold
        BY <4>2, TwoBitAssumption DEF Bounded
      <4>5. \A i \in Index : -threshold < residual'[i] /\ residual'[i] < threshold
        BY <4>1, <4>3, <4>4
      <4>6. grad' = grad
        BY <3>2 DEF Quantize
      <4> QED  BY <4>5, <4>6 DEF Bounded
    <3>3. CASE Send \/ SendEarly \/ Dequantize \/ Response \/ UNCHANGED vars
      <4>1. residual' = residual /\ grad' = grad
        BY <3>3 DEF Send, SendEarly, Dequantize, Response, vars
      <4> QED  BY <4>1 DEF Bounded
    <3> QED  BY <3>1, <3>2, <3>3 DEF Next
  <2>3. Bounded => ResidualBounded
    BY DEF Bounded, ResidualBounded
  <2> QED  BY <2>1, <2>2, <2>3, TypeCorrect, PTL DEF Spec
<1>2. CASE ~SmallGradients
  <2>1. ResidualBounded
    BY <1>2 DEF ResidualBounded, SmallGradients
  <2> QED  BY <1>2, <2>1, PTL
<1> QED  BY <1>1, <1>2
=============================================================================
