------------------------------ MODULE KeyForms ------------------------------
(***************************************************************************)
(* The public keys callers send, and the unwrapping of their encodings by  *)
(* toPemPublicKey in src/encryption/envelopeEncrypt.js.  A text is the     *)
(* list of its layers, the outermost first: "pem" with BEGIN and END       *)
(* markers, "b64" base64 in one line, "lines" base64 broken into lines,    *)
(* around "der", an RSA public key, or around "noise", anything else.      *)
(***************************************************************************)
EXTENDS Sequences

\* No key in the request: the field is missing or empty.
NoKey == << >>

\* The ways to send a key that the comment at the head of the file lists.
Form == {<<"pem", "der">>, <<"b64", "der">>, <<"b64", "pem", "der">>,
         <<"b64", "lines", "der">>}

\* includes('BEGIN PUBLIC KEY')
IsPem(text) == Head(text) = "pem"

\* Mutant: the pattern knows no line breaks.
LooksLikeOneLine(text) == Head(text) = "b64"

looksLikeBase64Text(text) == Head(text) \in {"b64", "lines"}

\* Buffer.from(text, 'base64'), which skips what is not base64 and never throws.
Decoded(text) == IF Head(text) \in {"b64", "lines"} THEN Tail(text) ELSE <<"noise">>

\* One turn of the loop.  A text it returns or breaks off with stays as it is
\* in the next turn; what is decoded is shorter, so never the text itself.
Peeled(text) ==
  IF ~IsPem(text) /\ (IsPem(Decoded(text)) \/ looksLikeBase64Text(Decoded(text)))
  THEN Decoded(text)
  ELSE text

\* Two turns, and markers around what is no PEM by then.  The PEM is given by
\* what stands between its markers, once decoded.
toPemPublicKey(raw) ==
  LET current == Peeled(Peeled(raw))
  IN  IF IsPem(current) THEN Tail(current) ELSE Decoded(current)

\* OpenSSL finds an RSA public key there; otherwise publicEncrypt throws.
Usable(raw) == toPemPublicKey(raw) = <<"der">>
=============================================================================
