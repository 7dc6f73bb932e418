----------------------------- MODULE ByteQueue -----------------------------
(***************************************************************************)
(* What a muduo Buffer promises its users (the diagram in buffer.h): the   *)
(* readable bytes are a queue.  Append and ReadFd add bytes at the back;  *)
(* Retrieve takes bytes from the front; nothing else changes them.         *)
(***************************************************************************)
EXTENDS Naturals, Sequences

CONSTANT Bytes

VARIABLES
  content,  \* the readable bytes
  input     \* the bytes handed in by the latest call (<<>> for a take)

Init == content = <<>> /\ input = <<>>

(* The bytes handed in are added at the back. *)
Put ==
  /\ input' \in Seq(Bytes) \ {<<>>}
  /\ content' = content \o input'

(* k >= 1 bytes are removed from the front. *)
Take ==
  /\ input' = <<>>
  /\ \E k \in 1..Len(content) : content' = SubSeq(content, k + 1, Len(content))

Spec == Init /\ [][Put \/ Take]_<<content, input>>
=============================================================================
