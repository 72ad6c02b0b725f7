------------------------------ MODULE ModbusMap -----------------------------
(***************************************************************************)
(* The word map of regtable_modbus.c: which entry a word address belongs   *)
(* to, which maps regmb_init accepts, and which spans a request may name.  *)
(*                                                                         *)
(* A map is a record:                                                      *)
(*   addr   addr[i] is entry i's modbus_addr, 0 if it is not mapped        *)
(*   span   span[i] is its entry_words, 1 or 2                             *)
(*   top    16#10000, the size of the address space                        *)
(***************************************************************************)
EXTENDS Integers, FiniteSetsExt

Mapped(m) == {i \in DOMAIN m.addr : m.addr[i] # 0}
Nobody    == -1

(* The first entry whose span starts at a.                                 *)
EntryAt(m, a) == LET there == {i \in Mapped(m) : m.addr[i] = a}
                 IN  IF there = {} THEN Nobody ELSE Min(there)

(***************************************************************************)
(* span_covered: walk from start, entry by entry, with a cursor wider than *)
(* an address that is cut to 16 bits for the search.                       *)
(***************************************************************************)
SpanCoveredLoose(m, start, qty) ==       \* faulty: never compared with the end
  LET end == start + qty
      walk[a \in 0 .. (m.top + m.top)] ==
        IF a >= end THEN TRUE
        ELSE LET i == EntryAt(m, a % m.top) IN i # Nobody /\ walk[a + m.span[i]]
  IN  walk[start]

SpanCovered(m, start, qty) ==
  LET end == start + qty
      walk[a \in 0 .. (m.top + m.top)] ==
        IF a >= end THEN a = end
        ELSE LET i == EntryAt(m, a % m.top) IN i # Nobody /\ walk[a + m.span[i]]
  IN  walk[start]

(***************************************************************************)
(* regmb_init's scan: each mapped entry fits below top and overlaps no     *)
(* later one.                                                              *)
(***************************************************************************)
MapAcceptedByStart(m) ==                  \* faulty: compares the starts only
  \A a \in Mapped(m) :
    /\ m.addr[a] + m.span[a] <= m.top
    /\ \A b \in Mapped(m) : b > a => m.addr[a] # m.addr[b]

MapAccepted(m) ==
  \A a \in Mapped(m) :
    /\ m.addr[a] + m.span[a] <= m.top
    /\ \A b \in Mapped(m) : b > a => ~(/\ m.addr[a] < m.addr[b] + m.span[b]
                                       /\ m.addr[b] < m.addr[a] + m.span[a])

-----------------------------------------------------------------------------
(* The reference, by sets of words.                                        *)
WordsOf(m, i) == m.addr[i] .. (m.addr[i] + m.span[i] - 1)

(* Every word of the address space belongs to one entry at most, and no    *)
(* entry has words outside of it.                                          *)
WellMapped(m) ==
  /\ \A i \in Mapped(m) : WordsOf(m, i) \subseteq 1 .. (m.top - 1)
  /\ \A i, j \in Mapped(m) : i # j => WordsOf(m, i) \cap WordsOf(m, j) = {}

(* A span is made of whole entries: no hole and no half of a value.        *)
WholeEntries(m, start, qty) ==
  LET span == start .. (start + qty - 1) IN
  /\ span \subseteq UNION {WordsOf(m, i) : i \in Mapped(m)}
  /\ \A i \in Mapped(m) : WordsOf(m, i) \cap span # {} => WordsOf(m, i) \subseteq span
=============================================================================
