----------------------------- MODULE Encodings -----------------------------
(* Two things the code writes byte by byte, and what is read back.         *)
(*                                                                         *)
(* The text in which a volume's wrapped key is kept (DataKey in            *)
(* shellwego-storage/src/encryption.rs): the name of the master key, the   *)
(* initialization vector and the ciphertext, each after its length.  What  *)
(* is read back may be any bytes.  Slicing outside them is a panic.  A     *)
(* length takes LenBytes bytes, four in the code; Base64 itself and the    *)
(* encryption are left out.                                                *)
(*                                                                         *)
(* The signing request of an ACME order (generate_ecdsa_csr and the der_*  *)
(* helpers of shellwego-edge/src/tls.rs).  The length of the domain        *)
(* decides the lengths of everything around it, and a length takes one     *)
(* byte, two or three.  Bytes of the domain, the key and the signature are *)
(* all alike here: how many there are is what counts.                      *)
EXTENDS Naturals, Sequences, SequencesExt

CONSTANTS LenBytes, Byte,       \* bytes of a length, and the bytes there are
          MaxText,              \* longest text
          MaxLength             \* longest domain

VARIABLES text,         \* the bytes read so far
          domain        \* length of the domain of the order, 0 before it is made

dataKeyVars == <<text>>

\* A big-endian number of LenBytes bytes, and the length of s as one.
Number(bytes) == LET n[i \in 0 .. LenBytes] == IF i = 0 THEN 0 ELSE 256 * n[i - 1] + bytes[i]
                 IN  n[LenBytes]
LengthOf(s)   == LET d[i \in 0 .. LenBytes] == IF i = 0 THEN Len(s) ELSE d[i - 1] \div 256
                 IN  [i \in 1 .. LenBytes |-> d[LenBytes - i] % 256]

to_base64(key) ==
    LengthOf(key.master_key_id) \o key.master_key_id
        \o LengthOf(key.iv) \o key.iv \o LengthOf(key.ciphertext) \o key.ciphertext

\* combined[a..b] of the code.
Slice(s, a, b) == SubSeq(s, a + 1, b)
Inside(s, b)   == b <= Len(s)

\* Mutant: the two lengths that must follow the name are not counted.
has_name_bare(n) == Len(text) >= LenBytes + n

\* The check before the name is taken.
has_name(n) == Len(text) >= LenBytes + n + 2 * LenBytes

Refused == [is |-> "refused"]
Panic   == [is |-> "panic"]

\* from_base64: refused, a key, or a panic.
from_base64 ==
    IF Len(text) < LenBytes THEN Refused
    ELSE LET mki_len == Number(Slice(text, 0, LenBytes))
             rest    == Slice(text, LenBytes + mki_len, Len(text))
         IN
         IF ~has_name(mki_len) THEN Refused
         ELSE IF ~Inside(rest, LenBytes) THEN Panic
         ELSE LET iv_len == Number(Slice(rest, 0, LenBytes))
              IN
              IF Len(rest) < 2 * LenBytes + iv_len THEN Refused
              ELSE LET ciphertext_len ==
                         Number(Slice(rest, LenBytes + iv_len, 2 * LenBytes + iv_len))
                   IN
                   IF Len(rest) # 2 * LenBytes + iv_len + ciphertext_len THEN Refused
                   ELSE [is |-> "key",
                         master_key_id |-> Slice(text, LenBytes, LenBytes + mki_len),
                         iv            |-> Slice(rest, LenBytes, LenBytes + iv_len),
                         ciphertext    |-> Slice(rest, 2 * LenBytes + iv_len, Len(rest))]

KeyInit == text = <<>>

\* One byte more is read.
KeyNext == Len(text) < MaxText /\ \E b \in Byte : text' = Append(text, b)

-----------------------------------------------------------------------------
Short == {<<>>} \cup {<<b>> : b \in Byte}
Keys  == [is : {"key"}, master_key_id : Short, iv : Short, ciphertext : Short]

\* Whatever the bytes, reading them does not panic; what is read as a key is
\* a key with that text, and a key's own text is read as that key.
KeysReadBack ==
    /\ from_base64 # Panic
    /\ from_base64.is = "key" => to_base64(from_base64) = text
    /\ Len(text) >= 3 * LenBytes =>
          \A key \in Keys : to_base64(key) = text => from_base64 = key

-----------------------------------------------------------------------------
csrVars == <<domain>>

Bytes(n) == [i \in 1 .. n |-> 97]

\* Mutant: the bytes of a long length are swapped.
der_tag_length_swapped(tag, length) ==
    <<tag>> \o (IF length < 128 THEN <<length>>
                ELSE IF length < 256 THEN <<129, length>>
                ELSE <<130, length % 256, (length \div 256) % 256>>)

der_tag_length(tag, length) ==
    <<tag>> \o (IF length < 128 THEN <<length>>
                ELSE IF length < 256 THEN <<129, length>>
                ELSE <<130, (length \div 256) % 256, length % 256>>)

der_wrap(tag, content)  == der_tag_length(tag, Len(content)) \o content
der_sequence(fields)    == der_wrap(48, fields)
der_set(fields)         == der_wrap(49, fields)
der_oid(bytes)          == der_wrap(6, bytes)
der_integer(bytes)      == der_wrap(2, bytes)
der_utf8_string(s)      == der_wrap(12, s)
der_bit_string(bytes)   == der_wrap(3, <<0>> \o bytes)

\* The fields follow one another.  An uncompressed point has 65 bytes, a
\* signature in DER about 71.
generate_ecdsa_csr(length) ==
    LET spki     == der_sequence(der_sequence(der_oid(Bytes(7)) \o der_oid(Bytes(8)))
                                   \o der_bit_string(Bytes(65)))
        cn_set   == der_set(der_sequence(der_oid(Bytes(3)) \o der_utf8_string(Bytes(length))))
        req_info == der_sequence(der_integer(<<0>>) \o cn_set \o spki \o der_set(<<>>))
    IN  der_sequence(req_info \o der_sequence(der_oid(Bytes(8))) \o der_bit_string(Bytes(71)))

CsrInit == domain = 0

\* finalize_certificate of an order for a domain of any length.
CsrNext == domain = 0 /\ domain' \in 1 .. MaxLength

-----------------------------------------------------------------------------
\* How DER is read: the length of the first element's header, its contents'
\* length, and the elements of a sequence of bytes.
Header(s) == IF s[2] < 128 THEN 2 ELSE 2 + (s[2] - 128)
ContentLength(s) == CASE s[2] < 128 -> s[2] [] s[2] = 129 -> s[3] [] OTHER -> s[3] * 256 + s[4]
First(s) == SubSeq(s, 1, Min({Header(s) + ContentLength(s), Len(s)}))
Rest(s) == SubSeq(s, Header(s) + ContentLength(s) + 1, Len(s))
Within(s) == SubSeq(s, Header(s) + 1, Len(s))

\* Whoever reads the request as DER finds the domain where it was put, and
\* no byte is left over, whatever the length.
CsrReads ==
    domain > 0 =>
    LET csr      == generate_ecdsa_csr(domain)
        req_info == First(Within(csr))
        cn_set   == First(Rest(Within(req_info)))
        name     == Rest(Within(First(Within(cn_set))))
    IN  /\ Rest(csr) = <<>> /\ Rest(name) = <<>>
        /\ Within(name) = Bytes(domain)
        /\ Rest(Rest(Rest(Rest(Within(req_info))))) = <<>>
        /\ Rest(Rest(Rest(Within(csr)))) = <<>>
=============================================================================
