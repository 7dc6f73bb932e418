------------------------------- MODULE Buffer -------------------------------
(***************************************************************************)
(* The muduo Buffer of src/mymuduo/buffer.h and buffer.cpp: a byte vector  *)
(* buffer_ with reader_index_ and writer_index_, kCheapPrepend bytes kept  *)
(* in front.  Each operation is a pure operator on a record                *)
(* [buffer, reader, writer]; the actions are the calls TcpConnection makes *)
(* on its buffers: SendInLoop appends to output_buffer_, HandleRead reads  *)
(* a socket into input_buffer_ with ReadFd, HandleWrite writes with        *)
(* WriteFd and retrieves what was written, and the message callback takes  *)
(* everything with RetrieveAsString.  Bytes are model values; the sizes    *)
(* (kCheapPrepend, kInitialSize, the 64K extra_buf of ReadFd) are          *)
(* constants, scaled down with their relations kept.  size_t arithmetic   *)
(* wraps modulo Word.                                                      *)
(***************************************************************************)
EXTENDS Naturals, Sequences

CONSTANTS
  Bytes,         \* the byte values a peer or a user sends
  Zero,          \* the value of a byte vector::resize creates
  CheapPrepend,  \* kCheapPrepend
  InitialSize,   \* kInitialSize
  ExtraSize,     \* sizeof(extra_buf) in ReadFd
  Word,          \* 2^w: size_t values are taken modulo Word
  MaxChunk,      \* bound on the bytes of one Append or one readv
  MaxSize        \* bound on buffer_.size()

ASSUME Zero \notin Bytes /\ MaxSize + MaxChunk < Word

VARIABLES
  buffer,        \* buffer_: the vector's bytes, buffer_[i] is buffer[i + 1]
  readerIndex,   \* reader_index_
  writerIndex,   \* writer_index_
  lastIn         \* history: the bytes of the latest Append or readv

vars == <<buffer, readerIndex, writerIndex, lastIn>>

B == [buffer |-> buffer, reader |-> readerIndex, writer |-> writerIndex]

Set(r) ==
  /\ buffer' = r.buffer
  /\ readerIndex' = r.reader
  /\ writerIndex' = r.writer

-----------------------------------------------------------------------------
(* The accessors.  Peek(b, n) is the n bytes std::string(Peek(), n) reads. *)
ReadableBytes(b) == (b.writer - b.reader) % Word
WritableBytes(b) == (Len(b.buffer) - b.writer) % Word
PrependableBytes(b) == b.reader
Peek(b, n) == SubSeq(b.buffer, b.reader + 1, b.reader + n)

(* std::copy(d, d + Len(d), Begin() + at): bytes past the end are lost.    *)
CopyTo(s, at, d) ==
  [i \in DOMAIN s |-> IF at < i /\ i <= at + Len(d) THEN d[i - at] ELSE s[i]]

(* vector::resize(n): the new chars are value-initialised. *)
Resize(s, n) == [i \in 1..n |-> IF i <= Len(s) THEN s[i] ELSE Zero]

RetrieveAll(b) == [b EXCEPT !.reader = CheapPrepend, !.writer = CheapPrepend]

Retrieve(b, len) ==
  IF len < ReadableBytes(b) THEN [b EXCEPT !.reader = @ + len] ELSE RetrieveAll(b)

(* Mutant: the free space MakeSpace counts includes the kCheapPrepend      *)
(* bytes it must keep.                                                     *)
MakeSpaceNoPrependSlack(b, len) ==
  IF PrependableBytes(b) + WritableBytes(b) >= len
    THEN [buffer |-> CopyTo(b.buffer, CheapPrepend, Peek(b, ReadableBytes(b))),
          reader |-> CheapPrepend,
          writer |-> CheapPrepend + ReadableBytes(b)]
    ELSE [b EXCEPT !.buffer = Resize(@, b.writer + len)]

MakeSpace(b, len) ==
  IF (PrependableBytes(b) - CheapPrepend + WritableBytes(b)) % Word >= len
    THEN [buffer |-> CopyTo(b.buffer, CheapPrepend, Peek(b, ReadableBytes(b))),
          reader |-> CheapPrepend,
          writer |-> CheapPrepend + ReadableBytes(b)]
    ELSE [b EXCEPT !.buffer = Resize(@, b.writer + len)]

EnsureWritableBytes(b, len) ==
  IF WritableBytes(b) < len THEN MakeSpace(b, len) ELSE b

(* Mutant: Append copies without EnsureWritableBytes. *)
AppendDataNoEnsure(b, d) ==
  [b EXCEPT !.buffer = CopyTo(@, b.writer, d), !.writer = @ + Len(d)]

(* Buffer::Append(data, len). *)
AppendData(b, d) ==
  LET e == EnsureWritableBytes(b, Len(d))
  IN  [e EXCEPT !.buffer = CopyTo(@, e.writer, d), !.writer = @ + Len(d)]

(* Mutant: ReadFd appends extra_buf without first moving writer_index_ to *)
(* size().                                                                 *)
ReadFdNoSizeJump(b, d) ==
  LET writable == WritableBytes(b)
      n == Len(d)
  IN  IF n <= writable
        THEN [b EXCEPT !.buffer = CopyTo(@, b.writer, d), !.writer = @ + n]
        ELSE AppendData([b EXCEPT !.buffer = CopyTo(@, b.writer, SubSeq(d, 1, writable))],
                        SubSeq(d, writable + 1, n))

(* Buffer::ReadFd after readv returned n = Len(d) > 0 bytes d: the first  *)
(* writable of them went to BeginWrite(), the rest to extra_buf.           *)
ReadFdResult(b, d) ==
  LET writable == WritableBytes(b)
      n == Len(d)
  IN  IF n <= writable
        THEN [b EXCEPT !.buffer = CopyTo(@, b.writer, d), !.writer = @ + n]
        ELSE AppendData([b EXCEPT !.buffer = CopyTo(@, b.writer, SubSeq(d, 1, writable)),
                                  !.writer = Len(b.buffer)],
                        SubSeq(d, writable + 1, n))

(* readv gets one iovec when writable >= sizeof(extra_buf), else two. *)
ReadvMax(b) ==
  WritableBytes(b) + (IF WritableBytes(b) < ExtraSize THEN ExtraSize ELSE 0)

-----------------------------------------------------------------------------
(* The Buffer(kInitialSize) constructor. *)
Init ==
  /\ buffer = [i \in 1..CheapPrepend + InitialSize |-> Zero]
  /\ readerIndex = CheapPrepend
  /\ writerIndex = CheapPrepend
  /\ lastIn = <<>>

(* Every step keeps buffer_.size() within MaxSize. *)
Bounded(r) == Len(r.buffer) <= MaxSize

Chunk(n) == [1..n -> Bytes]

(* SendInLoop keeps the bytes ::write did not take: output_buffer_.Append. *)
SendAppend ==
  \E n \in 1..MaxChunk : \E d \in Chunk(n) :
    /\ Bounded(AppendData(B, d))
    /\ Set(AppendData(B, d))
    /\ lastIn' = d

(* HandleRead: input_buffer_.ReadFd returned n > 0 (n = 0 and n < 0 leave *)
(* the buffer as it was).                                                   *)
HandleRead ==
  \E n \in 1..MaxChunk : \E d \in Chunk(n) :
    /\ n <= ReadvMax(B)
    /\ Bounded(ReadFdResult(B, d))
    /\ Set(ReadFdResult(B, d))
    /\ lastIn' = d

(* HandleWrite: WriteFd wrote n > 0 of the readable bytes, Retrieve(n). *)
HandleWrite ==
  /\ \E n \in 1..ReadableBytes(B) : Set(Retrieve(B, n))
  /\ lastIn' = <<>>

(* The message callback: RetrieveAsString() = RetrieveAsString(readable). *)
RetrieveAsString ==
  /\ ReadableBytes(B) > 0
  /\ Set(Retrieve(B, ReadableBytes(B)))
  /\ lastIn' = <<>>

Next == SendAppend \/ HandleRead \/ HandleWrite \/ RetrieveAsString

Spec == Init /\ [][Next]_vars

-----------------------------------------------------------------------------
TypeOK ==
  /\ buffer \in Seq(Bytes \cup {Zero})
  /\ Len(buffer) <= MaxSize
  /\ readerIndex \in 0..MaxSize
  /\ writerIndex \in 0..MaxSize
  /\ lastIn \in Seq(Bytes)

(* The layout of buffer.h: kCheapPrepend <= readerIndex <= writerIndex <=  *)
(* size.  MakeSpace computes PrependableBytes() - kCheapPrepend in size_t  *)
(* and ReadFd jumps writer_index_ to size(): after any sequence of         *)
(* appends, reads, partial writes and retrieves no index has wrapped or   *)
(* run past the vector.                                                    *)
IndexOrder ==
  CheapPrepend <= readerIndex /\ readerIndex <= writerIndex /\ writerIndex <= Len(buffer)

(* The readable bytes [readerIndex, writerIndex) behave as a byte queue:  *)
(* Append and ReadFd (its extra_buf part included, across a MakeSpace     *)
(* that moves or grows the vector) add exactly the new bytes at the back, *)
(* and Retrieve removes bytes only from the front.                         *)
Readable == Peek(B, ReadableBytes(B))

Queue == INSTANCE ByteQueue WITH content <- Readable, input <- lastIn

BufferIsQueue == Queue!Spec
=============================================================================
