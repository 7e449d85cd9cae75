----------------------------- MODULE StellarKey -----------------------------
(***************************************************************************)
(* How the ink! contract reads and writes the issuer of an asset: a        *)
(* Stellar key, which is a version byte, the key and a 16 bit checksum in  *)
(* base32.  The constructor decodes what its caller typed, and the         *)
(* messages issuer_1 and issuer_2 encode it again.  Texts are sequences of *)
(* ASCII codes.                                                            *)
(*                                                                         *)
(* Bytes have their eight bits and the checksum its sixteen; only the      *)
(* length of a key is a parameter (32 in the contract).                    *)
(***************************************************************************)
EXTENDS Integers, SequencesExt

CONSTANTS
    BYTE_LENGTH,        \* ED25519_PUBLIC_KEY_BYTE_LENGTH
    KeyBytes,           \* the bytes keys are made of
    SlipChars,          \* the characters a slip may put into a text
    MaxSlips            \* bound on the slips of whoever types a text

Byte == 0 .. 2^8 - 1

Word == 0 .. 2^16 - 1

ASSUME KeyAssumption ==
    /\ BYTE_LENGTH \in Nat
    /\ KeyBytes \subseteq Byte
    /\ SlipChars \subseteq 0 .. 127
    /\ MaxSlips \in Nat

VARIABLES
    meant,      \* the key and the version byte the caller has in mind
    text,       \* the text passed to the constructor
    slips,      \* how often the text was spoilt
    result,     \* "none" before the constructor ran, then "Ok" or an error
    issuer      \* the key the contract stores, NoKey before

vars == <<meant, text, slips, result, issuer>>

ED25519_PUBLIC_KEY_VERSION_BYTE == 48       \* 6 << 3, keys that begin with G
ED25519_SECRET_SEED_VERSION_BYTE == 144     \* 18 << 3, seeds that begin with S

NoKey == <<"no key">>

Keys == [1 .. BYTE_LENGTH -> KeyBytes]

-----------------------------------------------------------------------------
(* Shifts of unsigned numbers: what leaves a byte on the left is lost.     *)
(* Or and exclusive or, bit by bit from the lowest, of up to 16 bits.      *)

ShiftRight(n, by) == n \div 2^by

ShiftLeft(width, n, by) == (n * 2^by) % 2^width

Or(m, n) ==
    LET merge[a \in Word] == [b \in Word |->
            IF a = 0 THEN b
            ELSE 2 * merge[a \div 2][b \div 2] + (IF a % 2 = 1 \/ b % 2 = 1 THEN 1 ELSE 0)]
    IN  merge[m][n]

Xor(m, n) ==
    LET differ[a \in Word] == [b \in Word |->
            IF a = 0 THEN b ELSE 2 * differ[a \div 2][b \div 2] + ((a + b) % 2)]
    IN  differ[m][n]

-----------------------------------------------------------------------------
(* base32::encode.  The next byte must be shifted right by shift to fill   *)
(* up the group of five that carry, the rest of the byte before, begins.   *)

ALPHABET == [v \in 0 .. 31 |-> IF v < 26 THEN 65 + v ELSE 50 + (v - 26)]

Letter(v) == ALPHABET[v % 32]

EncodeByte(s, byte) ==
    LET first == IF s.shift = 8 THEN s.carry ELSE Or(s.carry, ShiftRight(byte, s.shift))
        two   == s.shift > 5
        left  == IF two THEN s.shift - 5 ELSE s.shift
    IN  [ buffer |-> s.buffer \o <<Letter(first)>>
                              \o IF two THEN <<Letter(ShiftRight(byte, left))>> ELSE <<>>,
          shift  |-> 8 - (5 - left),
          carry  |-> ShiftLeft(8, byte, 5 - left) ]

\* The state of the loop after each byte.
EncodeLoop(binary) ==
    LET s[i \in 0 .. Len(binary)] ==
            IF i = 0 THEN [buffer |-> <<>>, shift |-> 3, carry |-> 0]
            ELSE EncodeByte(s[i - 1], binary[i])
    IN  s

Encoding(binary) == EncodeLoop(binary)[Len(binary)]

\* Mutant of Encode: the last group is forgotten when the bytes end on a group.
EncodeDropsLast(binary) ==
    LET s == Encoding(binary)
    IN  IF s.shift \notin {3, 8} THEN Append(s.buffer, Letter(s.carry)) ELSE s.buffer

Encode(binary) ==
    LET s == Encoding(binary)
    IN  IF s.shift # 3 THEN Append(s.buffer, Letter(s.carry)) ELSE s.buffer

-----------------------------------------------------------------------------
(* base32::decode.  It is lenient: lower case is accepted, 0 and 1 are     *)
(* read as O and I, and everything from the first "=" on is ignored.       *)

NoValue == -1

ascii_to_value_5bit(c) ==
    CASE c \in 97 .. 122 -> c - 97          \* a to z
      [] c \in 65 .. 90  -> c - 65          \* A to Z
      [] c \in 50 .. 55  -> c - 50 + 26     \* 2 to 7
      [] c = 48          -> 14
      [] c = 49          -> 8
      [] OTHER           -> NoValue

DecodeValue(s, v) ==
    LET shift == s.shift - 5
    IN  CASE shift > 0 -> [s EXCEPT !.shift = shift, !.carry = Or(@, ShiftLeft(8, v, shift))]
          [] shift < 0 -> [ bytes |-> Append(s.bytes, Or(s.carry, ShiftRight(v, -shift))),
                            shift |-> shift + 8,
                            carry |-> ShiftLeft(8, v, shift + 8) ]
          [] OTHER     -> [ bytes |-> Append(s.bytes, Or(s.carry, v)), shift |-> 8, carry |-> 0 ]

\* The state of the loop after each value.
DecodeLoop(values) ==
    LET s[i \in 0 .. Len(values)] ==
            IF i = 0 THEN [bytes |-> <<>>, shift |-> 8, carry |-> 0]
            ELSE DecodeValue(s[i - 1], values[i])
    IN  s

IsPadding(c) == c = 61      \* "="

BeforePadding(string) ==
    LET pad == SelectInSeq(string, IsPadding)
    IN  IF pad = 0 THEN string ELSE SubSeq(string, 1, pad - 1)

Values(string) ==
    LET body == BeforePadding(string)
    IN  [i \in DOMAIN body |-> ascii_to_value_5bit(body[i])]

IsBase32(string) == \A i \in DOMAIN Values(string) : Values(string)[i] # NoValue

Decode(string) ==
    LET s == DecodeLoop(Values(string))[Len(Values(string))]
    IN  IF s.shift # 8 /\ s.carry # 0 THEN Append(s.bytes, s.carry) ELSE s.bytes

-----------------------------------------------------------------------------
(* key_encoding::crc, the checksum CRC-16/XMODEM.                          *)

CrcByte(crc, byte) ==
    LET c0 == Xor(ShiftRight(crc, 8), byte)
        c1 == Xor(c0, ShiftRight(c0, 4))
        c2 == ShiftLeft(16, c1, 5)
        c3 == ShiftLeft(16, c2, 7)
    IN  Xor(Xor(Xor(ShiftLeft(16, crc, 8), c1), c2), c3)

\* The checksum after each byte.
CrcLoop(byte_array) ==
    LET crc[i \in 0 .. Len(byte_array)] ==
            IF i = 0 THEN 0 ELSE CrcByte(crc[i - 1], byte_array[i])
    IN  crc

Crc(byte_array) == CrcLoop(byte_array)[Len(byte_array)]

-----------------------------------------------------------------------------
(* key_encoding: the checksum follows the key, low byte first.             *)

\* Mutant of encode_stellar_key: the checksum is written high byte first.
encode_stellar_key_big_endian(key, version_byte) ==
    LET unencoded == <<version_byte>> \o key
        crc_value == Crc(unencoded)
    IN  Encode(unencoded \o <<ShiftRight(crc_value, 8), crc_value % 256>>)

encode_stellar_key(key, version_byte) ==
    LET unencoded == <<version_byte>> \o key
        crc_value == Crc(unencoded)
    IN  Encode(unencoded \o <<crc_value % 256, ShiftRight(crc_value, 8)>>)

\* Mutant of InNormalForm: lower case, 0, 1 and what follows a "=" pass.
InAnyForm(string) == TRUE

InNormalForm(string) == string = Encode(Decode(string))

\* Mutant of ChecksumHolds: the checksum is cut off and not compared.
ChecksumIgnored(bytes) == TRUE

ChecksumHolds(bytes) ==
    LET length    == Len(bytes)
        crc_value == Or(ShiftLeft(16, bytes[length], 8), bytes[length - 1])
    IN  crc_value = Crc(SubSeq(bytes, 1, length - 2))

\* How decode_stellar_key ends: the first check, in its order, that refuses.
Verdict(string, version_byte) ==
    LET bytes == Decode(string)
    IN  IF ~IsBase32(string) THEN "InvalidBase32Character"
        ELSE IF ~InNormalForm(string) THEN "InvalidStellarKeyEncoding"
        ELSE IF Len(bytes) # 3 + BYTE_LENGTH THEN "InvalidStellarKeyEncodingLength"
        ELSE IF ~ChecksumHolds(bytes) THEN "InvalidStellarKeyChecksum"
        ELSE IF bytes[1] # version_byte THEN "InvalidStellarKeyEncodingVersion"
        ELSE "Ok"

\* The key of a text that decode_stellar_key accepts.
decode_stellar_key(string) == SubSeq(Decode(string), 2, 1 + BYTE_LENGTH)

-----------------------------------------------------------------------------
(* The caller has a key or, by mistake, a seed in mind, and may slip while *)
(* typing.                                                                 *)

Init ==
    /\ meant \in [ key : Keys,
                   version : {ED25519_PUBLIC_KEY_VERSION_BYTE, ED25519_SECRET_SEED_VERSION_BYTE} ]
    /\ text = encode_stellar_key(meant.key, meant.version)
    /\ slips = 0
    /\ result = "none"
    /\ issuer = NoKey

Slip(typed) ==
    /\ result = "none"
    /\ slips < MaxSlips
    /\ text' = typed
    /\ slips' = slips + 1
    /\ UNCHANGED <<meant, result, issuer>>

Mistype == \E i \in DOMAIN text, c \in SlipChars : Slip(ReplaceAt(text, i, c))

Transpose ==
    \E i \in 1 .. Len(text) - 1 :
        Slip([text EXCEPT ![i] = text[i + 1], ![i + 1] = text[i]])

Leave == \E i \in DOMAIN text : Slip(RemoveAt(text, i))

Insert == \E i \in 1 .. Len(text) + 1, c \in SlipChars : Slip(InsertAt(text, i, c))

CutOff == \E n \in 0 .. Len(text) - 1 : Slip(SubSeq(text, 1, n))

\* The constructor, for one of the two assets and a code that is accepted
\* (ChainExtension): the contract stores the decoded issuer, or traps.
DecodeIssuer ==
    /\ result = "none"
    /\ result' = Verdict(text, ED25519_PUBLIC_KEY_VERSION_BYTE)
    /\ issuer' = IF result' = "Ok" THEN decode_stellar_key(text) ELSE NoKey
    /\ UNCHANGED <<meant, text, slips>>

Next == Mistype \/ Transpose \/ Leave \/ Insert \/ CutOff \/ DecodeIssuer

Spec == Init /\ [][Next]_vars

-----------------------------------------------------------------------------
(* The message issuer_1 (and issuer_2) of a contract that exists.          *)

issuer_1 == encode_stellar_key(issuer, ED25519_PUBLIC_KEY_VERSION_BYTE)

-----------------------------------------------------------------------------
(* The reference: base32 as groups of five bits, the last one filled up    *)
(* with zeros.                                                             *)

Bit(bytes, i) ==
    IF i < 8 * Len(bytes) THEN ShiftRight(bytes[(i \div 8) + 1], 7 - (i % 8)) % 2 ELSE 0

Group(bytes, g) ==
    16 * Bit(bytes, 5 * g) + 8 * Bit(bytes, 5 * g + 1) + 4 * Bit(bytes, 5 * g + 2)
        + 2 * Bit(bytes, 5 * g + 3) + Bit(bytes, 5 * g + 4)

GroupsOfFive(bytes) ==
    [g \in 1 .. (8 * Len(bytes) + 4) \div 5 |-> ALPHABET[Group(bytes, g - 1)]]

-----------------------------------------------------------------------------
(* Properties.                                                             *)

(* Every key can be the issuer of an asset: the constructor accepts the      *)
(* text encode_stellar_key writes for it, whatever its bytes, and stores     *)
(* that very key.  Both directions must agree on the checksum, its byte      *)
(* order and the bits that base32 carries from byte to byte.                 *)
EveryKeyAccepted ==
    result # "none" /\ slips = 0 /\ meant.version = ED25519_PUBLIC_KEY_VERSION_BYTE
        => issuer = meant.key

(* No contract trades the tokens of another issuer by a slip: one wrong,     *)
(* missing, additional or transposed character, and a secret seed in place   *)
(* of a key, are all refused by the checks of decode_stellar_key.            *)
IssuerIsTheOneMeant ==
    issuer # NoKey =>
        meant = [key |-> issuer, version |-> ED25519_PUBLIC_KEY_VERSION_BYTE]

(* An issuer has one spelling: issuer_1 returns the text the constructor     *)
(* was given, although base32::decode reads many texts as the same bytes.    *)
IssuerReadsBack == issuer # NoKey => issuer_1 = text

(* base32::encode, a loop over bytes with a shift and a carry, writes the    *)
(* groups of five bits of the reference, for sequences of every length, and  *)
(* base32::decode returns from them to the bytes.                            *)
Base32IsGroupsOfFive ==
    IsBase32(text) =>
        LET bytes == Decode(text)
        IN  /\ Encode(bytes) = GroupsOfFive(bytes)
            /\ Decode(Encode(bytes)) = bytes
=============================================================================
