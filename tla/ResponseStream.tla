--------------------------- MODULE ResponseStream ---------------------------
(***************************************************************************)
(* A response that is generated while it is sent.  The service's generator *)
(* holds text it has written and not yet given away; libmicrohttpd, one    *)
(* thread for each connection, calls generator_callback for the next       *)
(* bytes.  A call first generates until it has enough, then copies, and    *)
(* from time to time lets the generator forget what was copied.            *)
(*                                                                         *)
(* Bytes are numbered from 1 in the order the generator writes them.  It   *)
(* appends at the end of its buffer and drops from the front, so that what *)
(* it holds are the bytes first + 1 .. made.                               *)
(*                                                                         *)
(* An operator named Bad... is a faulty variant of the definition after    *)
(* it.  The specification uses none.                                       *)
(***************************************************************************)
EXTENDS Naturals, Sequences

CONSTANTS
    MinGenerated,  \* min_generated of the server
    MaxRead,       \* bound: the most bytes libmicrohttpd asks for in a call
    MaxPieces,     \* bound: the pieces a generator writes, one for a sentence
    MaxPiece       \* bound: the bytes of a piece

ASSUME SizesAssumption ==
    /\ MinGenerated \in Nat \ {0}
    /\ MaxRead \in Nat \ {0}
    /\ MaxPieces \in Nat \ {0}
    /\ MaxPiece \in Nat \ {0}

VARIABLES
    pc,               \* "idle", or "filling" inside generator_callback
    max,              \* the room libmicrohttpd has, the same in every call
    first,            \* how many bytes the generator was told to consume
    made,             \* how many bytes it has written
    pieces,           \* how many pieces these are, without the preamble
    last,             \* rest_response_generator::last
    generator_end,
    generator_offset,
    sent,             \* the bytes copied to libmicrohttpd, in order
    ended             \* whether END_OF_STREAM was returned

generator == <<made, pieces, last>>
vars == <<pc, max, first, generator, generator_end, generator_offset, sent, ended>>

Lesser(m, n) == IF m < n THEN m ELSE n

Held == made - first                   \* current().len
Unsent == Held - generator_offset
Minimum == Lesser(MinGenerated, max)

(***************************************************************************)
(* respond(generator): the constructor of the generator has written the    *)
(* beginning of the answer.                                                *)
(***************************************************************************)
Init ==
    /\ pc = "idle"
    /\ max \in 1 .. MaxRead
    /\ first = 0
    /\ made \in 1 .. MaxPiece
    /\ pieces = 0
    /\ last = FALSE
    /\ generator_end = FALSE
    /\ generator_offset = 0
    /\ sent = <<>>
    /\ ended = FALSE

(***************************************************************************)
(* generator_callback, called when libmicrohttpd has sent what it had.     *)
(***************************************************************************)
Callback ==
    /\ pc = "idle" /\ ~ended
    /\ pc' = "filling"
    /\ UNCHANGED <<max, first, generator, generator_end, generator_offset, sent, ended>>

NeedsMore == Unsent < Minimum /\ ~generator_end

(***************************************************************************)
(* generate() of the service: a piece, which is empty for a sentence       *)
(* without entities in the vertical format, or the last one, where the     *)
(* JSON is closed.  Only the call after that returns false.                *)
(***************************************************************************)
Generate ==
    /\ pc = "filling" /\ NeedsMore
    /\ ~last /\ pieces < MaxPieces
    /\ \E n \in 0 .. MaxPiece, isLast \in BOOLEAN :
          /\ isLast => n > 0
          /\ pieces + 1 = MaxPieces => isLast
          /\ made' = made + n
          /\ last' = isLast
    /\ pieces' = pieces + 1
    /\ UNCHANGED <<pc, max, first, generator_end, generator_offset, sent, ended>>

BadGenerateNothing ==
    /\ pc = "filling" /\ Unsent < Minimum
    /\ last
    /\ generator_end' = ~generator_end
    /\ UNCHANGED <<pc, max, first, generator, generator_offset, sent, ended>>

GenerateNothing ==
    /\ pc = "filling" /\ NeedsMore
    /\ last
    /\ generator_end' = TRUE
    /\ UNCHANGED <<pc, max, first, generator, generator_offset, sent, ended>>

EndOfStream ==
    /\ pc = "filling" /\ ~NeedsMore
    /\ Held <= generator_offset
    /\ ended' = TRUE
    /\ pc' = "idle"
    /\ UNCHANGED <<max, first, generator, generator_end, generator_offset, sent>>

(***************************************************************************)
(* consume(): discard_current_prefix of the JSON builder.                  *)
(***************************************************************************)
Consume(length) == first' = first + Lesser(length, Held)

BadForget(offset, n) == IF Held - offset < Minimum
                          THEN Consume(n) /\ generator_offset' = 0
                          ELSE first' = first /\ generator_offset' = offset

BadForgetRarely(offset, n) == IF Held = offset
                                THEN Consume(offset) /\ generator_offset' = 0
                                ELSE first' = first /\ generator_offset' = offset

(***************************************************************************)
(* After a copy of n bytes, up to offset.                                  *)
(***************************************************************************)
Forget(offset, n) == IF Held - offset < Minimum
                       THEN Consume(offset) /\ generator_offset' = 0
                       ELSE first' = first /\ generator_offset' = offset

CopyData ==
    /\ pc = "filling" /\ ~NeedsMore
    /\ Held > generator_offset
    /\ LET n == Lesser(Unsent, max)
       IN  /\ sent' = sent \o [i \in 1 .. n |-> first + generator_offset + i]
           /\ Forget(generator_offset + n, n)
    /\ pc' = "idle"
    /\ UNCHANGED <<max, generator, generator_end, ended>>

-----------------------------------------------------------------------------
Next == Callback \/ Generate \/ GenerateNothing \/ EndOfStream \/ CopyData

(***************************************************************************)
(* The client reads, and the thread of its connection runs.                *)
(***************************************************************************)
Spec == Init /\ [][Next]_vars /\ WF_vars(Next)

-----------------------------------------------------------------------------
(***************************************************************************)
(*                              PROPERTIES                                 *)
(***************************************************************************)
TypeOK ==
    /\ pc \in {"idle", "filling"}
    /\ max \in 1 .. MaxRead
    /\ made \in Nat
    /\ first \in 0 .. made
    /\ generator_offset \in 0 .. Held
    /\ pieces \in 0 .. MaxPieces
    /\ last \in BOOLEAN /\ generator_end \in BOOLEAN /\ ended \in BOOLEAN
    /\ sent \in Seq(Nat)

(***************************************************************************)
(* generator_callback copies what it has consumed never again and forgets  *)
(* nothing it has not copied, whatever the pieces and the requests: the    *)
(* response is the stream of bytes its client was promised.                *)
(***************************************************************************)
Stream == INSTANCE ByteStream WITH finished <- last
ImplementsByteStream == Stream!Spec

(***************************************************************************)
(* The generator's buffer stays as small as one piece and the minimum      *)
(* allow, however long the answer and slow its client: consume() is called *)
(* often enough.                                                           *)
(***************************************************************************)
BufferBounded == Held < Minimum + MaxPiece

(***************************************************************************)
(* The client that goes on reading is told that the response is over:      *)
(* the loop over generate() ends even where sentences write nothing and    *)
(* the generator tells its end one call late.                              *)
(***************************************************************************)
StreamEnds == <>ended
=============================================================================
