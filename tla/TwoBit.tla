------------------------------- MODULE TwoBit -------------------------------
(***************************************************************************)
(* 2-bit gradient compression of one key, from a sender to the global      *)
(* server, round after round.                                              *)
(*                                                                         *)
(* The quantization runs in the dependency engine.  A worker sends the     *)
(* compressed buffer in an operation that the engine orders after it       *)
(* (PushCompressed); a party's server hands the buffer's memory to the     *)
(* transport without waiting (DataPushToGlobalServersCompressed).  Floats  *)
(* are integers: a unit is a fraction of the threshold.                    *)
(***************************************************************************)
EXTENDS Integers

CONSTANTS
  N,          \* elements of the tensor
  threshold,  \* threshold_ of GradientCompression
  Gradient,   \* the gradients a round may bring
  Memory,     \* what a newly allocated buffer may hold
  MaxRound    \* rounds (bound)

Index == 0 .. N - 1

\* GetCompressedSize: sixteen elements a float of four bytes.
NumBytes == 4 * ((N + 15) \div 16)
Byte == 0 .. NumBytes - 1

ASSUME TwoBitAssumption ==
  /\ N \in Nat \ {0} /\ threshold \in Nat \ {0} /\ MaxRound \in Nat
  /\ Gradient \subseteq [Index -> Int] /\ Memory \subseteq [Byte -> 0 .. 255]

VARIABLES
  state,     \* of the round: idle, or busy from the push to its response
  grad,      \* the gradient of the round
  residual,  \* residual_: what the rounds so far have not sent
  small_buf, \* compr_buf_: the compressed bytes
  done,      \* the engine has run the quantization of the round
  wire,      \* the bytes the transport has read, while sent
  sent,      \* the transport has read the buffer
  got,       \* the server has handled the message
  merged,    \* sum of what the server has decompressed
  total,     \* sum of the gradients of all rounds
  round,     \* rounds started
  early      \* rounds whose buffer was read before it was filled

vars == <<state, grad, residual, small_buf, done, wire, sent, got, merged, total, round, early>>

-----------------------------------------------------------------------------
(* The encoding: two bits an element, four elements a byte.                *)

\* Mutant: a value equal to the threshold is not sent as the threshold.
CodeStrict(r) == IF r > threshold THEN 3 ELSE IF r < -threshold THEN 2 ELSE 0

\* 11 for the threshold, 10 for its negative, 00 for nothing.
Code(r) == IF r >= threshold THEN 3 ELSE IF r <= -threshold THEN 2 ELSE 0

Value(c) == IF c = 3 THEN threshold ELSE IF c = 2 THEN -threshold ELSE 0

At(c, i) == IF i < N THEN c[i] ELSE 0

\* The first element of a byte has its two highest bits.
Pack(c) ==
  [b \in Byte |-> 64 * At(c, 4 * b) + 16 * At(c, 4 * b + 1) + 4 * At(c, 4 * b + 2)
                    + At(c, 4 * b + 3)]

Weight(col) == IF col = 0 THEN 64 ELSE IF col = 1 THEN 16 ELSE IF col = 2 THEN 4 ELSE 1

Unpack(bytes) == [i \in Index |-> (bytes[i \div 4] \div Weight(i % 4)) % 4]

-----------------------------------------------------------------------------
Init ==
  /\ state = "idle" /\ round = 0 /\ early = 0
  /\ grad = [i \in Index |-> 0]
  /\ residual = [i \in Index |-> 0]
  /\ small_buf \in Memory
  /\ done = FALSE /\ sent = FALSE /\ got = FALSE
  /\ wire = [b \in Byte |-> 0]
  /\ merged = [i \in Index |-> 0]
  /\ total = [i \in Index |-> 0]

\* The quantization of a gradient is handed to the engine.
Push(g) ==
  /\ state = "idle" /\ round < MaxRound
  /\ state' = "busy" /\ round' = round + 1
  /\ grad' = g
  /\ total' = [i \in Index |-> total[i] + g[i]]
  /\ done' = FALSE /\ sent' = FALSE /\ got' = FALSE
  /\ UNCHANGED <<residual, small_buf, wire, merged, early>>

\* The residual with the round's gradient added, and its encoding.
Corrected == [i \in Index |-> residual[i] + grad[i]]
Codes == [i \in Index |-> Code(Corrected[i])]

\* quantize_2bit: the gradient is added to the residual, what reaches the
\* threshold is encoded and taken off it again.
Quantize ==
  /\ state = "busy" /\ ~done
  /\ residual' = [i \in Index |-> Corrected[i] - Value(Codes[i])]
  /\ small_buf' = Pack(Codes)
  /\ done' = TRUE
  /\ UNCHANGED <<state, grad, wire, sent, got, merged, total, round, early>>

\* What reading byte b may give while quantize_2bit has not finished: the
\* byte of the round before, or the first elements of the new one.
Torn(b) ==
  {small_buf[b]} \cup
  {Pack([i \in Index |-> IF i < 4 * b + k THEN Codes[i] ELSE 0])[b] : k \in 0 .. 4}

\* The transport reads the finished buffer.
Send ==
  /\ state = "busy" /\ ~sent /\ done
  /\ sent' = TRUE
  /\ wire' = small_buf
  /\ UNCHANGED <<state, grad, residual, small_buf, done, got, merged, total, round, early>>

\* The transport reads the buffer while the engine has yet to fill it.
SendEarly ==
  /\ state = "busy" /\ ~sent /\ ~done
  /\ sent' = TRUE
  /\ wire' \in {w \in [Byte -> UNION {Torn(b) : b \in Byte}] : \A b \in Byte : w[b] \in Torn(b)}
  /\ early' = early + 1
  /\ UNCHANGED <<state, grad, residual, small_buf, done, got, merged, total, round>>

\* Mutant: the decompressed array is added after it was written to the sum.
DequantizeTwice ==
  /\ sent /\ ~got
  /\ got' = TRUE
  /\ merged' = [i \in Index |-> merged[i] + 2 * Value(Unpack(wire)[i])]
  /\ UNCHANGED <<state, grad, residual, small_buf, done, wire, sent, total, round, early>>

\* dequantize_2bit on the global server, which adds the result up.
Dequantize ==
  /\ sent /\ ~got
  /\ got' = TRUE
  /\ merged' = [i \in Index |-> merged[i] + Value(Unpack(wire)[i])]
  /\ UNCHANGED <<state, grad, residual, small_buf, done, wire, sent, total, round, early>>

\* The response has come; the next write to the gradient waits for the
\* quantization that reads it.
Response ==
  /\ state = "busy" /\ got /\ done
  /\ state' = "idle"
  /\ UNCHANGED <<grad, residual, small_buf, done, wire, sent, got, merged, total, round, early>>

Next == (\E g \in Gradient : Push(g)) \/ Quantize \/ Send \/ SendEarly \/ Dequantize \/ Response

Spec == Init /\ [][Next]_vars

-----------------------------------------------------------------------------
(* Properties.                                                             *)

\* Every variable has its type.
TypeOK ==
  /\ state \in {"idle", "busy"} /\ round \in Nat /\ early \in Nat
  /\ done \in BOOLEAN /\ sent \in BOOLEAN /\ got \in BOOLEAN
  /\ grad \in [Index -> Int] /\ residual \in [Index -> Int]
  /\ merged \in [Index -> Int] /\ total \in [Index -> Int]
  /\ small_buf \in [Byte -> 0 .. 255] /\ wire \in [Byte -> 0 .. 255]

\* "The difference between these thresholded values and original values is
\* stored at the sender's end as residual": after every round what the server
\* has got and the residual add up to the gradients, element by element, as
\* long as no buffer was read before it was filled (a worker's never is).
ErrorFeedback ==
  state = "idle" /\ early = 0 => \A i \in Index : merged[i] + residual[i] = total[i]

\* With gradients within the threshold no element ever holds back a whole
\* threshold: a residual is sent as soon as it amounts to one.
ResidualBounded ==
  (\A g \in Gradient : \A i \in Index : -threshold <= g[i] /\ g[i] <= threshold) =>
    \A i \in Index : -threshold < residual[i] /\ residual[i] < threshold

\* A buffer read too early costs an element at most two thresholds: a stale or
\* half-written byte holds codes, never anything else, and what it loses in
\* one round does not grow in the later ones.
LossBounded ==
  state = "idle" =>
    \A i \in Index : LET lost == total[i] - merged[i] - residual[i]
                     IN -2 * threshold * early <= lost /\ lost <= 2 * threshold * early

\* What gradient_compression.h says of every sender: nothing is lost.  It does
\* not hold of a party's server, whose transport may read the buffer early.
NothingEverLost ==
  state = "idle" => \A i \in Index : merged[i] + residual[i] = total[i]
=============================================================================
