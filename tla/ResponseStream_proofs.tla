------------------------ MODULE ResponseStream_proofs ------------------------
(***************************************************************************)
(* Proofs about ResponseStream, for every size of pieces, requests and     *)
(* minimum: the response implements ByteStream, and the buffer is bounded. *)
(***************************************************************************)
EXTENDS ResponseStream, TLAPS

(***************************************************************************)
(* The bytes sent are the first ones, up to the generator's offset.        *)
(***************************************************************************)
SentOK ==
    /\ Len(sent) = first + generator_offset
    /\ \A i \in 1 .. Len(sent) : sent[i] = i

(***************************************************************************)
(* generate() returns false only after its last piece, and a response that *)
(* has ended is not asked for bytes again.                                 *)
(***************************************************************************)
EndOK == (generator_end => last) /\ (pc = "filling" => ~ended)

(***************************************************************************)
(* A prefix that was copied and not yet consumed stays only while at least *)
(* the minimum follows it.                                                 *)
(***************************************************************************)
OffsetOK == generator_offset > 0 => Unsent >= Minimum

IndInv == TypeOK /\ SentOK /\ EndOK /\ OffsetOK /\ BufferBounded

(***************************************************************************)
(* What appending the numbers that follow does to the sequence 1, 2, ...   *)
(***************************************************************************)
LEMMA AppendFollowing ==
    ASSUME NEW s \in Seq(Nat), NEW k \in Nat, NEW n \in Nat,
           Len(s) = k, \A i \in 1 .. k : s[i] = i
    PROVE  LET t == s \o [i \in 1 .. n |-> k + i]
           IN  /\ t \in Seq(Nat)
               /\ Len(t) = k + n
               /\ \A i \in 1 .. Len(t) : t[i] = i
<1> DEFINE e == [i \in 1 .. n |-> k + i]
           t == s \o e
<1>1. e \in Seq(Nat) /\ Len(e) = n
  OBVIOUS
<1>2. t \in Seq(Nat) /\ Len(t) = k + n
  BY <1>1
<1>3. ASSUME NEW i \in 1 .. Len(t) PROVE t[i] = i
  <2>1. CASE i <= k
    BY <1>1, <1>2, <2>1
  <2>2. CASE i > k
    <3>1. t[i] = e[i - k]
      BY <1>1, <1>2, <2>2
    <3>2. i - k \in 1 .. n
      BY <1>2, <2>2
    <3> QED
      BY <3>1, <3>2
  <2> QED
    BY <2>1, <2>2, <1>2
<1> QED
  BY <1>2, <1>3

LEMMA MinimumOK == ASSUME TypeOK PROVE Minimum \in Nat \ {0} /\ Minimum <= max
  BY SizesAssumption DEF TypeOK, Minimum, Lesser

LEMMA InitInd == Init => IndInv
<1> SUFFICES ASSUME Init PROVE IndInv
  OBVIOUS
<1>1. TypeOK
  <2>1. sent \in Seq(Nat)
    BY DEF Init
  <2>2. made \in Nat /\ first \in 0 .. made /\ generator_offset \in 0 .. Held /\ pieces \in 0 .. MaxPieces
    BY SizesAssumption DEF Init, Held
  <2> QED
    BY <2>1, <2>2 DEF Init, TypeOK
<1>2. Minimum \in Nat \ {0}
  BY <1>1, MinimumOK
<1> QED
  BY <1>1, <1>2, SizesAssumption DEF Init, IndInv, SentOK, EndOK, OffsetOK, BufferBounded, Held

(***************************************************************************)
(* generate() writes only when less than the minimum is left, and then     *)
(* nothing that was copied is still held.                                  *)
(***************************************************************************)
LEMMA GenerateInd == ASSUME IndInv, Generate PROVE IndInv'
<1>1. Minimum \in Nat /\ Minimum' = Minimum
  BY MinimumOK DEF IndInv, Generate, Minimum
<1>2. generator_offset = 0 /\ Held < Minimum /\ made \in Nat /\ first \in 0 .. made
  BY <1>1 DEF Generate, NeedsMore, IndInv, OffsetOK, TypeOK, Unsent, Held
<1>3. PICK n \in 0 .. MaxPiece : made' = made + n
  BY DEF Generate
<1>4. Held' = Held + n /\ Held' \in Nat
  BY <1>2, <1>3, SizesAssumption DEF Generate, Held
<1>5. TypeOK'
  <2>1. pieces' \in 0 .. MaxPieces /\ last' \in BOOLEAN
    BY SizesAssumption DEF Generate, IndInv, TypeOK
  <2>2. made' \in Nat /\ first' \in 0 .. made' /\ generator_offset' \in 0 .. Held'
    BY <1>2, <1>3, <1>4, SizesAssumption DEF Generate
  <2> QED
    BY <2>1, <2>2 DEF Generate, IndInv, TypeOK
<1>6. SentOK' /\ EndOK' /\ OffsetOK'
  BY <1>2 DEF Generate, IndInv, SentOK, EndOK, OffsetOK, NeedsMore
<1>7. BufferBounded'
  BY <1>1, <1>2, <1>4, SizesAssumption DEF BufferBounded, Held
<1> QED
  BY <1>5, <1>6, <1>7 DEF IndInv

(***************************************************************************)
(* A copy continues the bytes sent, and the buffer does not grow.          *)
(***************************************************************************)
LEMMA CopyInd ==
    ASSUME IndInv, CopyData
    PROVE  /\ IndInv'
           /\ \E n \in 1 .. made - Len(sent) : sent' = sent \o [i \in 1 .. n |-> Len(sent) + i]
<1> DEFINE n == Lesser(Unsent, max)
           offset == generator_offset + n
<1>1. Minimum \in Nat \ {0} /\ Minimum <= max /\ Minimum' = Minimum
  BY MinimumOK DEF IndInv, CopyData, Minimum
<1>2. /\ made \in Nat /\ first \in 0 .. made /\ max \in Nat \ {0}
      /\ generator_offset \in Nat /\ Held \in Nat /\ Held = made - first
      /\ Unsent \in Nat \ {0} /\ Unsent = Held - generator_offset
  BY SizesAssumption DEF IndInv, TypeOK, CopyData, Held, Unsent
<1>3. n \in 1 .. Unsent
  BY <1>2 DEF Lesser
<1>4. offset \in 0 .. Held
  BY <1>2, <1>3
<1>5. sent' = sent \o [i \in 1 .. n |-> first + generator_offset + i]
  BY DEF CopyData
<1>6. Len(sent) = first + generator_offset /\ sent \in Seq(Nat) /\ \A i \in 1 .. Len(sent) : sent[i] = i
  BY DEF IndInv, TypeOK, SentOK
<1>7. sent' \in Seq(Nat) /\ Len(sent') = Len(sent) + n /\ \A i \in 1 .. Len(sent') : sent'[i] = i
  <2>1. n \in Nat /\ Len(sent) \in Nat
    BY <1>2, <1>3
  <2>2. sent' = sent \o [i \in 1 .. n |-> Len(sent) + i]
    BY <1>5, <1>6
  <2> HIDE DEF n
  <2> QED
    BY <2>1, <2>2, <1>6, AppendFollowing
<1>8. /\ first' + generator_offset' = first + offset
      /\ first' \in first .. made
      /\ generator_offset' \in 0 .. Held'
      /\ generator_offset' > 0 => Unsent' >= Minimum
  <2>1. CASE Held - offset < Minimum
    <3>1. first' = first + offset /\ generator_offset' = 0 /\ made' = made
      BY <2>1, <1>4, <1>2 DEF CopyData, Forget, Consume, Lesser, generator, Held
    <3> HIDE DEF offset
    <3> QED
      BY <3>1, <1>2, <1>4 DEF Held
  <2>2. CASE ~(Held - offset < Minimum)
    <3>1. first' = first /\ generator_offset' = offset /\ made' = made
      BY <2>2 DEF CopyData, Forget, generator
    <3> HIDE DEF offset
    <3> QED
      BY <3>1, <2>2, <1>1, <1>2, <1>4 DEF Held, Unsent
  <2> QED
    BY <2>1, <2>2
<1>9. TypeOK'
  <2>1. made' = made /\ first' \in 0 .. made
    BY <1>8, <1>2 DEF CopyData, generator
  <2> QED
    BY <2>1, <1>7, <1>8 DEF CopyData, generator, IndInv, TypeOK
<1>10. SentOK'
  BY <1>6, <1>7, <1>8, <1>2, <1>3 DEF SentOK
<1>11. EndOK' /\ OffsetOK'
  BY <1>1, <1>8 DEF CopyData, generator, IndInv, EndOK, OffsetOK
<1>12. BufferBounded'
  <2>1. made' = made /\ first' \in first .. made
    BY <1>8 DEF CopyData, generator
  <2>2. Held' <= Held /\ Held' \in Nat
    <3>1. Held' = made - first' /\ Held = made - first
      BY <2>1 DEF Held
    <3>2. made \in Nat /\ first \in Nat
      BY <1>2
    <3>3. \A k \in first .. made : made - k <= made - first /\ made - k \in Nat
      BY <3>2
    <3> QED
      BY <2>1, <3>1, <3>3
  <2>3. Held < Minimum + MaxPiece
    BY DEF IndInv, BufferBounded
  <2> QED
    BY <2>2, <2>3, <1>1, <1>2, SizesAssumption DEF BufferBounded
<1>13. n \in 1 .. made - Len(sent)
  BY <1>2, <1>3, <1>6
<1> QED
  BY <1>5, <1>6, <1>9, <1>10, <1>11, <1>12, <1>13 DEF IndInv

LEMMA OtherInd ==
    ASSUME IndInv, Callback \/ GenerateNothing \/ EndOfStream \/ UNCHANGED vars
    PROVE  IndInv'
<1>1. UNCHANGED <<max, first, made, pieces, last, generator_offset, sent>>
  BY DEF Callback, GenerateNothing, EndOfStream, vars, generator
<1>2. pc' \in {"idle", "filling"} /\ ended' \in BOOLEAN /\ generator_end' \in BOOLEAN
  BY DEF Callback, GenerateNothing, EndOfStream, vars, generator, IndInv, TypeOK
<1>3. generator_end' => last
  BY DEF Callback, GenerateNothing, EndOfStream, vars, generator, IndInv, EndOK
<1>4. pc' = "filling" => ~ended'
  BY DEF Callback, GenerateNothing, EndOfStream, vars, generator, IndInv, EndOK
<1> QED
  BY <1>1, <1>2, <1>3, <1>4 DEF IndInv, TypeOK, SentOK, EndOK, OffsetOK, BufferBounded, Held, Unsent, Minimum

LEMMA Inductive == Spec => []IndInv
<1>1. IndInv /\ [Next]_vars => IndInv'
  BY GenerateInd, CopyInd, OtherInd DEF Next
<1> QED
  BY InitInd, <1>1, PTL DEF Spec

(***************************************************************************)
(* Every variable keeps its type; with it, the lengths that                *)
(* generator_callback subtracts never wrap.                                *)
(***************************************************************************)
THEOREM TypeCorrect == Spec => []TypeOK
<1>1. IndInv => TypeOK
  BY DEF IndInv
<1> QED
  BY <1>1, Inductive, PTL

(***************************************************************************)
(* The generator never holds a piece more than the minimum.                *)
(***************************************************************************)
THEOREM Bounded == Spec => []BufferBounded
<1>1. IndInv => BufferBounded
  BY DEF IndInv
<1> QED
  BY <1>1, Inductive, PTL

(***************************************************************************)
(* The callback implements the stream of bytes.                            *)
(***************************************************************************)
THEOREM Refinement == Spec => ImplementsByteStream
<1>1. Init => Stream!Init
  BY SizesAssumption DEF Init, Stream!Init
<1>2. IndInv /\ [Next]_vars => [Stream!Next]_Stream!vars
  <2> SUFFICES ASSUME IndInv, [Next]_vars
               PROVE  Stream!Next \/ UNCHANGED Stream!vars
    OBVIOUS
  <2>1. CASE Generate
    <3>1. made \in Nat /\ made' \in Nat /\ made' >= made /\ last' \in BOOLEAN
      BY <2>1, SizesAssumption DEF Generate, IndInv, TypeOK
    <3> QED
      BY <2>1, <3>1 DEF Generate, Stream!Next, Stream!Write
  <2>2. CASE CopyData
    <3>1. ~ended
      BY <2>2 DEF CopyData, IndInv, EndOK
    <3> QED
      BY <2>2, <3>1, CopyInd DEF CopyData, generator, Stream!Next, Stream!Deliver
  <2>3. CASE EndOfStream
    <3>1. last /\ Len(sent) = made
      BY <2>3, MinimumOK DEF EndOfStream, NeedsMore, IndInv, TypeOK, SentOK, EndOK, Unsent, Held
    <3> QED
      BY <2>3, <3>1 DEF EndOfStream, generator, Stream!Next, Stream!End
  <2>4. CASE Callback \/ GenerateNothing \/ UNCHANGED vars
    BY <2>4 DEF Callback, GenerateNothing, vars, generator, Stream!vars
  <2> QED
    BY <2>1, <2>2, <2>3, <2>4 DEF Next
<1> QED
  BY <1>1, <1>2, Inductive, PTL DEF Spec, ImplementsByteStream, Stream!Spec
=============================================================================
