---------------------------- MODULE StreamFraming ----------------------------
(***************************************************************************)
(* The arithmetic of an SCES container (sce/stream.py): how a state is cut *)
(* into segments and how much a container of a given size can hold.        *)
(* Segments are numbered from 0 as in the source, bytes of a state from 1. *)
(***************************************************************************)
EXTENDS Integers, Sequences

StreamHeaderLen == 45      \* _STREAM_HEADER.size
SegFrameLen     == 8       \* _SEG_FRAME.size

Least(a, b) == IF a <= b THEN a ELSE b

\* len(range(0, total, size)), and the single empty segment of an empty state.
NumSegments(total, size) ==
  IF total = 0 THEN 1 ELSE (total + size - 1) \div size

\* Segment i covers the bytes Lo(i) + 1 .. Hi(i) of the state.
Lo(size, i)        == i * size
Hi(total, size, i) == Least(Lo(size, i) + size, total)

Segment(state, size, i) == SubSeq(state, Lo(size, i) + 1, Hi(Len(state), size, i))

\* The most segments a container of `bytes' bytes can hold: a length prefix and
\* at least one byte each.
MaxPossible(bytes) == (bytes - StreamHeaderLen) \div (SegFrameLen + 1)
==============================================================================
