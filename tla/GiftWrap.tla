------------------------------ MODULE GiftWrap ------------------------------
(***************************************************************************)
(* How the answer of a service reaches its requester: written as a rumor,  *)
(* encrypted into a seal, which is encrypted into a gift wrap (NIP-59),    *)
(* stored, and announced to live subscriptions.  Only sizes are modelled,  *)
(* in bytes: whether a plaintext fits the buffer that NIP-44 pads it into, *)
(* and what the recipient takes out of it.                                 *)
(***************************************************************************)
EXTENDS Integers, Sequences

CONSTANTS
    Sizes,          \* sizes of the rumors in this instance
    SpreadLimit     \* arguments String.fromCharCode takes; depends on the engine

\* The memory of an isolate, in bytes.
Memory == 128 * 1024 * 1024

ASSUME WrapSizes == Sizes \subseteq 1..Memory /\ SpreadLimit \in Nat

VARIABLES
    reply,      \* where the answer is, and the size of what is encrypted next
    frames,     \* the padded rumor and the padded seal
    kept,       \* whether the gift wrap is in the database
    heard       \* whether the requester has received it

wrapVars == <<reply, frames, kept, heard>>

-----------------------------------------------------------------------------
(* Padding *)

MinPadded == 32

\* 1 << k, which has 32 bits, for what is longer than MinPadded.
Powers == {64, 128, 256, 512, 1024, 2048, 4096, 8192, 16384, 32768, 65536,
           131072, 262144, 524288, 1048576, 2097152, 4194304, 8388608,
           16777216, 33554432, 67108864, 134217728, 268435456, 536870912,
           1073741824}
\* The smallest power of two that is no less than n.
NextPower(n) == CHOOSE p \in Powers : n <= p /\ \A q \in Powers : n <= q => p <= q

Chunk(n) == IF NextPower(n) <= 256 THEN MinPadded ELSE NextPower(n) \div 8

\* calcPaddedLen
PaddedLen(n) == IF n <= MinPadded THEN MinPadded ELSE Chunk(n) * ((n - 1) \div Chunk(n) + 1)

\* Bytes of length that pad writes in front.
Prefix(n) == IF n < 65536 THEN 2 ELSE 6

\* Mutant: one byte too few.
FitsWithRoom(n) == Prefix(n) + n < PaddedLen(n)
\* The buffer is as long as the padded plaintext, without the prefix.
Fits(n) == Prefix(n) + n <= PaddedLen(n)

\* What pad writes: the two-byte length, the four-byte one, and the buffer.
Frame(n) ==
    [short  |-> IF n < 65536 THEN n ELSE 0,
     long   |-> IF n < 65536 THEN 0 ELSE n,
     length |-> PaddedLen(n)]

\* The length of what unpad returns; 0 where it throws.
Unpad(f) ==
    LET n      == IF f.short = 0 THEN f.long ELSE f.short
        offset == IF f.short = 0 THEN 6 ELSE 2
    IN  IF n >= 1 /\ n <= f.length - offset THEN n ELSE 0

\* Version, nonce, ciphertext, MAC.
PayloadLen(n) == 1 + 32 + PaddedLen(n) + 32
Base64Len(bytes) == 4 * ((bytes + 2) \div 3)

\* pad throws where the plaintext does not fit, bytesToBase64 where it is too long.
Encrypts(n) == Fits(n) /\ PayloadLen(n) <= SpreadLimit

\* The JSON of a seal with empty tags around the encrypted rumor.
SealLen(n) == 343 + Base64Len(PayloadLen(n))

-----------------------------------------------------------------------------
WrapInit ==
    /\ reply = [at |-> "none", size |-> 0]
    /\ frames = <<>>
    /\ kept = FALSE /\ heard = FALSE

ReplyAt(step) == reply.at = step

\* The request was executed, or refused: its answer is n bytes as a rumor.
Respond(n) ==
    /\ ReplyAt("none")
    /\ reply' = [at |-> "rumor", size |-> n]
    /\ UNCHANGED <<frames, kept, heard>>

\* sendResponse catches whatever is thrown: nothing is stored or announced.
Throw ==
    /\ ReplyAt("rumor") \/ ReplyAt("seal")
    /\ ~Encrypts(reply.size)
    /\ reply' = [reply EXCEPT !.at = "lost"]
    /\ UNCHANGED <<frames, kept, heard>>

Seal ==
    /\ ReplyAt("rumor") /\ Encrypts(reply.size)
    /\ frames' = <<Frame(reply.size)>>
    /\ reply' = [at |-> "seal", size |-> SealLen(reply.size)]
    /\ UNCHANGED <<kept, heard>>

Wrap ==
    /\ ReplyAt("seal") /\ Encrypts(reply.size)
    /\ frames' = Append(frames, Frame(reply.size))
    /\ reply' = [reply EXCEPT !.at = "wrapped"]
    /\ UNCHANGED <<kept, heard>>

\* processEvent answers whether it was stored; nobody asks.
Persist ==
    /\ ReplyAt("wrapped")
    /\ reply' = [reply EXCEPT !.at = "publish"]
    /\ kept' \in BOOLEAN
    /\ UNCHANGED <<frames, heard>>

\* The DO announces it to whoever listens, and answers the request with OK.
PublishReply ==
    /\ ReplyAt("publish")
    /\ reply' = [reply EXCEPT !.at = "done"]
    /\ heard' \in BOOLEAN
    /\ UNCHANGED <<frames, kept>>

\* A requester that was not connected asks for it later.
Fetch ==
    /\ ReplyAt("done") /\ kept /\ ~heard
    /\ heard' = TRUE
    /\ UNCHANGED <<reply, frames, kept>>

WrapNext ==
    \/ \E n \in Sizes : Respond(n)
    \/ Throw \/ Seal \/ Wrap \/ Persist \/ PublishReply \/ Fetch

WrapSpec == WrapInit /\ [][WrapNext]_wrapVars

-----------------------------------------------------------------------------
Wrapped == reply.at \in {"wrapped", "publish", "done"}

(* What the requester unwraps is what was wrapped, in both layers and for  *)
(* both length formats.  An answer that was executed and is never sent     *)
(* (extension.ts:186) is one whose rumor ends within a prefix of the end   *)
(* of its bucket, or one too long for the engine.  The seal around a rumor *)
(* that fits always fits: its length is never one of those.                *)
WholeOrLostAtTheEdge ==
    /\ Wrapped => /\ Unpad(frames[2]) = reply.size
                  /\ SealLen(Unpad(frames[1])) = reply.size
    /\ reply.at = "lost" =>
           \/ frames = <<>> /\ PaddedLen(reply.size) - reply.size < Prefix(reply.size)
           \/ PayloadLen(reply.size) > SpreadLimit

(* encryption.ts:141: a plaintext shorter than 65536 bytes is written  *)
(* as its length, itself, and zeros. (Violated: the buffer leaves no room  *)
(* for the length of a plaintext that ends near the end of its bucket.)    *)
ShortIsPadded == reply.at = "lost" => reply.size >= 65536
=============================================================================
