--------------------------- MODULE InvoiceIdText ---------------------------
(***************************************************************************)
(* Invoice ids as the API writes and reads them: the big-endian bits of    *)
(* account index, subaddress index and creation height one after the other *)
(* (library/src/invoice.rs), in base64 without padding                     *)
(* (server/src/server/api/types/invoice_id.rs).  A character of the        *)
(* alphabet is the digits it stands for.                                   *)
(***************************************************************************)
EXTENDS Integers, Sequences

CONSTANTS
    Base,           \* digits are 0..Base - 1, bits in the code
    IndexLen,       \* digits of an index, 32 in the code
    HeightLen,      \* digits of a height, 64 in the code
    ByteLen,        \* digits of a byte, 8
    CharLen,        \* digits of a base64 character, 6
    Foreign         \* any character that is not in the alphabet, '=' too

Digit == 0..Base - 1
Character == [1..CharLen -> Digit]
IdLen == 2 * IndexLen + HeightLen

ASSUME TextAssumption ==
    /\ Base \in Nat /\ Base > 1
    /\ IndexLen \in Nat \ {0} /\ HeightLen \in Nat \ {0}

ASSUME Base64Assumption ==
    /\ CharLen \in Nat \ {0} /\ ByteLen \in Nat /\ CharLen < ByteLen
    /\ IdLen % ByteLen = 0
    /\ Foreign \notin Character

(* What a digit is worth by its place.                                     *)
Power[n \in Nat] == IF n = 0 THEN 1 ELSE Base * Power[n - 1]

(* to_be_bytes and from_be_bytes.                                          *)
ToDigits(n, len) == [k \in 1..len |-> (n \div Power[len - k]) % Base]
FromDigits(s) ==
    LET value[k \in 0..Len(s)] == IF k = 0 THEN 0 ELSE value[k - 1] * Base + s[k]
    IN  value[Len(s)]

InvoiceIds == [major : 0..Power[IndexLen] - 1, minor : 0..Power[IndexLen] - 1,
               creation : 0..Power[HeightLen] - 1]

(* The bits of an id as an integer of 128 bits, and back.                  *)
ToBits(id) ==
    ToDigits(id.major, IndexLen) \o ToDigits(id.minor, IndexLen) \o ToDigits(id.creation, HeightLen)
FromBits(s) ==
    [major    |-> FromDigits(SubSeq(s, 1, IndexLen)),
     minor    |-> FromDigits(SubSeq(s, IndexLen + 1, 2 * IndexLen)),
     creation |-> FromDigits(SubSeq(s, 2 * IndexLen + 1, IdLen))]

-----------------------------------------------------------------------------
(* Base64, URL_SAFE_NO_PAD.                                                *)
(* The characters that it takes, the last one filled up with zeros.        *)
TextLen == (IdLen + CharLen - 1) \div CharLen
ToBase64(bits) ==
    [k \in 1..TextLen |-> [j \in 1..CharLen |->
        IF (k - 1) * CharLen + j <= IdLen THEN bits[(k - 1) * CharLen + j] ELSE 0]]

(* All bits of a text, and how many of them make whole bytes.              *)
TextBits(text) ==
    [p \in 1..Len(text) * CharLen |-> text[((p - 1) \div CharLen) + 1][((p - 1) % CharLen) + 1]]
WholeBytes(text) == ((Len(text) * CharLen) \div ByteLen) * ByteLen

(* Decoding fails on a character that is not of the alphabet, on a last    *)
(* character that is not needed, and on bits after the last byte that are  *)
(* not zero.                                                               *)
IsBase64(text) ==
    /\ \A k \in 1..Len(text) : text[k] # Foreign
    /\ Len(text) * CharLen - WholeBytes(text) < CharLen
    /\ \A p \in WholeBytes(text) + 1..Len(text) * CharLen : TextBits(text)[p] = 0

-----------------------------------------------------------------------------
Encode(id) == ToBase64(ToBits(id))

(* Text that is no base64, too short or too long is refused.  Defect: what *)
(* is too long is cut.                                                     *)
ParsesLonger(text) == IsBase64(text) /\ WholeBytes(text) >= IdLen
Parses(text) == IsBase64(text) /\ WholeBytes(text) = IdLen

(* The id that the bytes of a text stand for.                              *)
Decode(text) == FromBits(SubSeq(TextBits(text), 1, IdLen))

(* The texts that are read as an id, among those of about the right length.*)
AllTexts == UNION {[1..n -> Character \cup {Foreign}] : n \in TextLen - 1..TextLen + 1}
Readings == {<<s, Decode(s)>> : s \in {t \in AllTexts : Parses(t)}}
ReadAs(id) == {r[1] : r \in {x \in Readings : x[2] = id}}
=============================================================================
