--------------------------- MODULE AddressPolicy ---------------------------
(***************************************************************************)
(* Which addresses a calendar may be fetched from.                         *)
(*                                                                         *)
(* An address is its sequence of 16-bit words: two of them for IPv4, eight *)
(* for IPv6.  A range is the words of its network and a prefix length.     *)
(***************************************************************************)
EXTENDS Integers, Sequences

Range4(hi, lo, length) == [words |-> <<hi, lo>>, length |-> length]

\* A network of IPv6 by its first three words; the others are zero.
Range6(a, b, c, length) == [words |-> <<a, b, c, 0, 0, 0, 0, 0>>, length |-> length]

\* The ranges of SPECIAL_IPV4_RANGES, each word as high byte * 256 + low byte.
Special4 ==
  { Range4(0, 0, 8), Range4(10 * 256, 0, 8), Range4(100 * 256 + 64, 0, 10),
    Range4(127 * 256, 0, 8), Range4(169 * 256 + 254, 0, 16), Range4(172 * 256 + 16, 0, 12),
    Range4(192 * 256, 0, 24), Range4(192 * 256, 2 * 256, 24),
    Range4(192 * 256 + 31, 196 * 256, 24), Range4(192 * 256 + 52, 193 * 256, 24),
    Range4(192 * 256 + 88, 99 * 256, 24), Range4(192 * 256 + 168, 0, 16),
    Range4(192 * 256 + 175, 48 * 256, 24), Range4(198 * 256 + 18, 0, 15),
    Range4(198 * 256 + 51, 100 * 256, 24), Range4(203 * 256, 113 * 256, 24),
    Range4(224 * 256, 0, 4), Range4(240 * 256, 0, 4) }

\* 2000::/3
Global6 == { Range6(8192, 0, 0, 3) }

\* SPECIAL_IPV6_RANGES.  Those outside 2000::/3 are refused already.
Special6 ==
  { Range6(0, 0, 0, 96),
    [words |-> <<0, 0, 0, 0, 0, 65535, 0, 0>>, length |-> 96],
    Range6(100, 65435, 0, 96), Range6(100, 65435, 1, 48),
    Range6(256, 0, 0, 64), [words |-> <<256, 0, 0, 1, 0, 0, 0, 0>>, length |-> 64],
    Range6(8193, 0, 0, 23), Range6(8193, 3512, 0, 32), Range6(8194, 0, 0, 16),
    Range6(9760, 79, 32768, 48), Range6(16382, 0, 0, 16), Range6(16383, 0, 0, 20),
    Range6(24320, 0, 0, 16), Range6(64512, 0, 0, 7), Range6(65152, 0, 0, 10),
    Range6(65216, 0, 0, 10), Range6(65280, 0, 0, 8) }

\* The whole words of the prefix are equal, and the leading bits of the next.
InRange(words, range) ==
  LET whole == range.length \div 16
      rest  == 2 ^ (16 - (range.length % 16))
  IN  /\ \A i \in 1 .. whole : words[i] = range.words[i]
      /\ range.length % 16 # 0 => words[whole + 1] \div rest = range.words[whole + 1] \div rest

IsGlobalRoutable(words) ==
  IF Len(words) = 2
  THEN \A r \in Special4 : ~InRange(words, r)
  ELSE /\ \E r \in Global6 : InRange(words, r)
       /\ \A r \in Special6 : ~InRange(words, r)
=============================================================================
