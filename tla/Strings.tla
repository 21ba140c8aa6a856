------------------------------- MODULE Strings -------------------------------
(***************************************************************************)
(* types/string.c for its encoding UTF-8, the only one vtlock uses, with   *)
(* the concatenation of bytes.c.  Bytes are sequences of numbers 0 .. 255; *)
(* an index counts from 0 as in the code.  Allocation is assumed to work.  *)
(***************************************************************************)
EXTENDS Integers, Sequences

INVALID_SIZE == -1      \* (size_t) -1, also INVALID_IDX and the code point

At(bytes, idx) == bytes[idx + 1]

(* The leading set bits of a byte.                                         *)
count_first_zero(number) ==
    CHOOSE i \in 0 .. 8 :
        /\ i < 8 => (number \div 2^(7 - i)) % 2 = 0
        /\ \A j \in 0 .. i - 1 : (number \div 2^(7 - j)) % 2 = 1

Continues(byte) == byte \div 64 = 2

(* Mutant: the last continuation byte is not tested.                       *)
utf8_next_short(bytes, idx) ==
    LET continuation_bytes == count_first_zero(At(bytes, idx)) - 1
    IN  IF idx >= Len(bytes) THEN INVALID_SIZE
        ELSE IF At(bytes, idx) < 128 THEN idx + 1
        ELSE IF \/ At(bytes, idx) < 192
                \/ continuation_bytes > 3
                \/ idx + 1 + continuation_bytes > Len(bytes)
                \/ \E j \in 1 .. continuation_bytes - 1 :
                       ~Continues(At(bytes, idx + j))
             THEN INVALID_SIZE
        ELSE idx + 1 + continuation_bytes

(* The index behind the character at idx.                                  *)
utf8_next(bytes, idx) ==
    LET continuation_bytes == count_first_zero(At(bytes, idx)) - 1
    IN  IF idx >= Len(bytes) THEN INVALID_SIZE
        ELSE IF At(bytes, idx) < 128 THEN idx + 1
        ELSE IF \/ At(bytes, idx) < 192
                \/ continuation_bytes > 3
                \/ idx + 1 + continuation_bytes > Len(bytes)
                \/ \E j \in 1 .. continuation_bytes :
                       ~Continues(At(bytes, idx + j))
             THEN INVALID_SIZE
        ELSE idx + 1 + continuation_bytes

(* A String: its bytes, NUL included, and the number of its characters.    *)
Invalid == [len |-> INVALID_SIZE, bytes |-> <<>>]

Count(bytes) ==
    LET from[idx \in 0 .. Len(bytes)] ==
            IF idx = Len(bytes) THEN 0
            ELSE LET next == utf8_next(bytes, idx)
                     rest == IF next = INVALID_SIZE THEN INVALID_SIZE
                                                    ELSE from[next]
                 IN  IF rest = INVALID_SIZE THEN INVALID_SIZE ELSE 1 + rest
    IN  from[0]

string_from_bytes(bytes) ==
    IF bytes = <<>> \/ At(bytes, Len(bytes) - 1) # 0 \/ Count(bytes) = INVALID_SIZE
    THEN [len |-> INVALID_SIZE, bytes |-> bytes]
    ELSE [len |-> Count(bytes) - 1, bytes |-> bytes]

string_next_char_start(string, idx) ==
    IF string.bytes = <<>> \/ idx = INVALID_SIZE THEN INVALID_SIZE
    ELSE utf8_next(string.bytes, idx)

(* The first without its NUL, then the second.                             *)
string_concat(str1, str2) ==
    IF \/ str1.len = INVALID_SIZE \/ str1.bytes = <<>>
       \/ str2.len = INVALID_SIZE \/ str2.bytes = <<>>
    THEN Invalid
    ELSE [len |-> str1.len + str2.len,
          bytes |-> SubSeq(str1.bytes, 1, Len(str1.bytes) - 1) \o str2.bytes]

string_startswith(string, prefix) ==
    /\ string.len # INVALID_SIZE /\ string.bytes # <<>>
    /\ prefix.len # INVALID_SIZE /\ prefix.bytes # <<>>
    /\ string.len >= prefix.len
    /\ \A i \in 0 .. Len(prefix.bytes) - 2 :
           At(string.bytes, i) = At(prefix.bytes, i)

(* The index n characters behind start_idx.                                *)
Forward(string, start_idx, n) ==
    LET idx[k \in 0 .. n] == IF k = 0 THEN start_idx
                             ELSE string_next_char_start(string, idx[k - 1])
    IN  idx[n]

Capped(given, len) == IF given = INVALID_SIZE \/ given > len THEN len ELSE given

(* Mutant: the end is counted from the start of the substring.             *)
string_substring_size(string, start, end) ==
    LET to   == Capped(end, string.len)
        from == IF start = INVALID_SIZE THEN 0 ELSE Capped(start, string.len)
        start_idx == Forward(string, 0, from)
        end_idx   == Forward(string, start_idx, to)
    IN  IF string.bytes = <<>> \/ string.len = INVALID_SIZE THEN Invalid
        ELSE IF to < from THEN [len |-> 0, bytes |-> <<>>]
        ELSE string_from_bytes(
                 SubSeq(string.bytes, start_idx + 1, end_idx) \o <<0>>)

(* string[start:end]; INVALID_SIZE stands for an omitted bound, and a      *)
(* reversed range gives a string without even a NUL.                       *)
string_substring(string, start, end) ==
    LET to   == Capped(end, string.len)
        from == IF start = INVALID_SIZE THEN 0 ELSE Capped(start, string.len)
        start_idx == Forward(string, 0, from)
        end_idx   == Forward(string, start_idx, to - from)
    IN  IF string.bytes = <<>> \/ string.len = INVALID_SIZE THEN Invalid
        ELSE IF to < from THEN [len |-> 0, bytes |-> <<>>]
        ELSE string_from_bytes(
                 SubSeq(string.bytes, start_idx + 1, end_idx) \o <<0>>)

(* The code point in the bytes from start_idx to end_idx, end excluded.    *)
string_ord(string, start_idx, end_idx) ==
    LET first == At(string.bytes, start_idx)
        cont(k) == At(string.bytes, start_idx + k) % 64
        wide(k) == end_idx - start_idx >= k
    IN  IF string.bytes = <<>> THEN INVALID_SIZE
        ELSE IF start_idx >= end_idx \/ start_idx >= Len(string.bytes)
             THEN INVALID_SIZE
        ELSE IF first < 128 THEN first
        ELSE IF first \div 32 = 6 /\ wide(2) THEN (first % 32) * 2^6 + cont(1)
        ELSE IF first \div 16 = 14 /\ wide(3)
             THEN (first % 16) * 2^12 + cont(1) * 2^6 + cont(2)
        ELSE IF first \div 8 = 30 /\ wide(4)
             THEN (first % 8) * 2^18 + cont(1) * 2^12 + cont(2) * 2^6 + cont(3)
        ELSE INVALID_SIZE

(* The code points the loop visits, without the NUL's.                     *)
ITERATE_OVER_STRING(string) ==
    LET len == Len(string.bytes)
        from[start \in 0 .. len] ==
            IF start >= len THEN <<>>
            ELSE LET end == string_next_char_start(string, start)
                 IN  IF end = len \/ end = INVALID_SIZE THEN <<>>
                     ELSE <<string_ord(string, start, end)>> \o from[end]
    IN  from[0]

-----------------------------------------------------------------------------
(* The encoder that RFC 3629 defines, for comparison.                      *)
Encoded(cp) ==
    LET tail(n) == 128 + ((cp \div 64^n) % 64)
    IN  IF cp < 128 THEN <<cp>>
        ELSE IF cp < 2^11 THEN <<192 + cp \div 64, tail(0)>>
        ELSE IF cp < 2^16 THEN <<224 + cp \div 64^2, tail(1), tail(0)>>
        ELSE <<240 + cp \div 64^3, tail(2), tail(1), tail(0)>>

Encoding(cps) ==
    LET upto[k \in 0 .. Len(cps)] ==
            IF k = 0 THEN <<>> ELSE upto[k - 1] \o Encoded(cps[k])
    IN  upto[Len(cps)] \o <<0>>

(* The functions agree with each other and with the encoder on a string:   *)
(* iterating gives as many code points as its length says and encodes back *)
(* to its bytes; every slice has the code points of its range, is a prefix *)
(* where it should be, and two adjoining slices concatenate to the whole.  *)
Consistent(string) ==
    LET cps == ITERATE_OVER_STRING(string)
        slice(a, b) == string_substring(string, a, b)
    IN  /\ Len(cps) = string.len
        /\ Encoding(cps) = string.bytes
        /\ \A a \in 0 .. string.len :
              /\ string_concat(slice(INVALID_SIZE, a), slice(a, INVALID_SIZE))
                     = string
              /\ string_startswith(string, slice(0, a))
              /\ \A b \in a .. string.len + 1 :
                    /\ ITERATE_OVER_STRING(slice(a, b)) = SubSeq(cps, a + 1,
                           Capped(b, string.len))
                    /\ slice(a, b).len = Capped(b, string.len) - a
=============================================================================
