--------------------------- MODULE DescriptorChain ---------------------------
(***************************************************************************)
(* descriptor_utils.rs: the guest memory of one request, as the Reader and *)
(* the Writer consume it.  A buffer is the sequence of the numbers of its  *)
(* bytes, so that the order in which bytes are used can be seen.           *)
(***************************************************************************)
LOCAL INSTANCE Naturals
LOCAL INSTANCE Sequences
LOCAL INSTANCE SequencesExt
LOCAL INSTANCE FiniteSetsExt

\* Reader::new and Writer::new: one buffer per descriptor, none consumed.
NewConsumer(buffers) == [buffers |-> buffers, bytes_consumed |-> 0]

available_bytes(c) == Len(FlattenSeq(c.buffers))

\* The loop of consume that collects buffers until they hold `count` bytes:
\* the last one is taken whole.
Collected(c, count) ==
  SubSeq(c.buffers, 1,
         Cardinality({i \in 1..Len(c.buffers) : Len(FlattenSeq(SubSeq(c.buffers, 1, i - 1))) < count}))

\* Mutant: a buffer used in part is put back whole.
DropUnsplit(buffers, n) ==
  LET k == Max({i \in 0..Len(buffers) : Len(FlattenSeq(SubSeq(buffers, 1, i))) <= n})
  IN SubSeq(buffers, k + 1, Len(buffers))

\* The loop of consume that pops what was used: whole buffers, and the used
\* part of the one after them, whose rest is pushed back.
Drop(buffers, n) ==
  LET k == Max({i \in 0..Len(buffers) : Len(FlattenSeq(SubSeq(buffers, 1, i))) <= n})
      rem == n - Len(FlattenSeq(SubSeq(buffers, 1, k)))
  IN IF k = Len(buffers) THEN <<>>
     ELSE << SubSeq(buffers[k + 1], rem + 1, Len(buffers[k + 1])) >> \o SubSeq(buffers, k + 2, Len(buffers))

\* DescriptorChainConsumer::consume, when the caller's function used the
\* first n bytes of the collected buffers.  No buffers: nothing happens.
consume(c, count, n) ==
  IF Collected(c, count) = <<>> THEN c
  ELSE [buffers |-> Drop(c.buffers, n), bytes_consumed |-> c.bytes_consumed + n]

\* Read::read and Write::write copy at most the length of the caller's slice.
Copied(c, count) == Min({count, Len(FlattenSeq(Collected(c, count)))})

\* write_to_file_at and read_from_file_at hand the collected buffers to
\* pwritev or preadv, which may use fewer bytes, and is not told `count`.
FileTransfers(c, count) == 0..Len(FlattenSeq(Collected(c, count)))

\* split_at: where the split falls, and the two halves.
SplitPos(c, offset) == {i \in 1..Len(c.buffers) : offset < Len(FlattenSeq(SubSeq(c.buffers, 1, i)))}

SplitInBounds(c, offset) == SplitPos(c, offset) # {} \/ offset = available_bytes(c)

split_at(c, offset) ==
  IF SplitPos(c, offset) = {}
  THEN [first |-> c, rest |-> NewConsumer(<<>>)]
  ELSE LET at    == Min(SplitPos(c, offset))
           rem   == offset - Len(FlattenSeq(SubSeq(c.buffers, 1, at - 1)))
           front == c.buffers[at]
           after == SubSeq(c.buffers, at + 1, Len(c.buffers))
       IN IF rem = 0
          THEN [first |-> [c EXCEPT !.buffers = SubSeq(@, 1, at - 1)],
                rest  |-> NewConsumer(<< front >> \o after)]
          ELSE [first |-> [c EXCEPT !.buffers = SubSeq(@, 1, at - 1) \o << SubSeq(front, 1, rem) >>],
                rest  |-> NewConsumer(<< SubSeq(front, rem + 1, Len(front)) >> \o after)]
-----------------------------------------------------------------------------
CONSTANTS
  MaxBuffers,  \* descriptors in a chain
  MaxLen       \* bytes in one of them; none is possible

VARIABLES
  consumers,  \* the Reader or Writer and, after split_at, the second half
  moved,      \* the bytes each has handed to its caller, in order
  total       \* the bytes of the chain

chainVars == << consumers, moved, total >>

\* The bytes of the chain are numbered through.
Numbered(lens) ==
  [i \in 1..Len(lens) |-> LET before == FoldLeft(+, 0, SubSeq(lens, 1, i - 1)) IN [j \in 1..lens[i] |-> before + j]]

Chains == UNION {[1..n -> 0..MaxLen] : n \in 1..MaxBuffers}

ChainInit ==
  \E lens \in Chains :
    /\ consumers = << NewConsumer(Numbered(lens)) >>
    /\ moved = << <<>> >>
    /\ total = FoldLeft(+, 0, lens)

\* One call of consume on the i-th half: the caller was given the collected
\* buffers and used the first n bytes of them.
Move(i, count, n) ==
  /\ moved' = [moved EXCEPT ![i] = @ \o SubSeq(FlattenSeq(Collected(consumers[i], count)), 1, n)]
  /\ consumers' = [consumers EXCEPT ![i] = consume(@, count, n)]
  /\ UNCHANGED total

Copy(i, count) == Move(i, count, Copied(consumers[i], count))
Transfer(i, count) == \E n \in FileTransfers(consumers[i], count) : Move(i, count, n)

Split(offset) ==
  /\ Len(consumers) = 1 /\ SplitInBounds(consumers[1], offset)
  /\ LET halves == split_at(consumers[1], offset) IN consumers' = << halves.first, halves.rest >>
  /\ moved' = Append(moved, <<>>)
  /\ UNCHANGED total

ChainNext ==
  \/ \E i \in 1..Len(consumers), count \in 1..MaxLen + 1 : Copy(i, count) \/ Transfer(i, count)
  \/ \E offset \in 0..MaxBuffers * MaxLen : Split(offset)

\* Whatever the calls and however the descriptors cut the message up, every
\* byte of the chain is used once or still there, in order and by the half it
\* belongs to, and bytes_read/bytes_written count what was used (the pops and
\* push-backs of consume, and split_at in the middle of a buffer).
ChainInOrder ==
  LET Half(i) == moved[i] \o FlattenSeq(consumers[i].buffers)
      all == FlattenSeq([i \in DOMAIN consumers |-> Half(i)])
  IN /\ \A i \in DOMAIN consumers : consumers[i].bytes_consumed = Len(moved[i])
     /\ all = [j \in 1..total |-> j]
=============================================================================
