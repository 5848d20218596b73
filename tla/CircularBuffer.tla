--------------------------- MODULE CircularBuffer ---------------------------
(***************************************************************************)
(* The CircularBuffer container, as operators on a record of its members:  *)
(* buf is m_buffer, indexed from 0; head, count and max are m_head,        *)
(* m_count and m_max_size.  Unset is what a slot holds before its first    *)
(* insert (the default value of its type).                                 *)
(***************************************************************************)
EXTENDS Integers, Sequences

CONSTANT Unset

Fill(max) == [i \in 0..max - 1 |-> Unset]

CBNew(max) == [buf |-> Fill(max), head |-> 0, count |-> 0, max |-> max]

\* value(index): the index counts from the oldest entry, a negative one from the
\* newest.
CBValue(cb, index) == cb.buf[(cb.head + (IF index < 0 THEN cb.count + index ELSE index)) % cb.max]

\* insert(): the oldest entry is overwritten in a full buffer.
CBInsert(cb, value) ==
  IF cb.count < cb.max
  THEN [cb EXCEPT !.buf[cb.count] = value, !.count = @ + 1]
  ELSE [cb EXCEPT !.buf[cb.head] = value, !.head = (@ + 1) % cb.max]
=============================================================================
