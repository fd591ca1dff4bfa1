--------------------------------- MODULE Pem ---------------------------------
(***************************************************************************)
(* PEM as trust-core/src/cert.rs reads and writes it.  A document is a     *)
(* sequence of lines: the two markers, and lines of characters.  A         *)
(* character is its value in base64's alphabet, 0 to 63, or Pad, Blank or  *)
(* Foreign; which letter stands for which value is left out.               *)
(***************************************************************************)
EXTENDS Integers, SequencesExt

CONSTANT LineWidth  \* 64, the characters of a line

ASSUME PemAssumption == LineWidth \in Nat \ {0}

Byte == 0..255
Pad == 64
Blank == 65
Foreign == 66

Begin == [kind |-> "begin", chars |-> <<>>]
End == [kind |-> "end", chars |-> <<>>]
Text(chars) == [kind |-> "text", chars |-> chars]

\* The slices of s of n elements; the last may be shorter.
Chunks(s, n) ==
    [i \in 1..((Len(s) + n - 1) \div n) |->
        SubSeq(s, (i - 1) * n + 1, IF i * n < Len(s) THEN i * n ELSE Len(s))]

\* base64_encode: three bytes are four characters.
EncodeGroup(b) ==
    LET at(i) == IF i <= Len(b) THEN b[i] ELSE 0
        n == at(1) * 65536 + at(2) * 256 + at(3)
    IN  <<(n \div 262144) % 64, (n \div 4096) % 64,
          IF Len(b) > 1 THEN (n \div 64) % 64 ELSE Pad,
          IF Len(b) > 2 THEN n % 64 ELSE Pad>>

Base64Encode(data) == FlattenSeq([i \in DOMAIN Chunks(data, 3) |-> EncodeGroup(Chunks(data, 3)[i])])

\* base64_decode, one character: the accumulator is a u32 of which at most
\* the last 14 bits are ever read.  Padding ends it, a foreign character
\* spoils it.
Take(d, c) ==
    LET acc == (d.acc * 64 + c) % 16384
        bits == d.bits + 6
    IN  CASE d.state # "reading" \/ c = Blank -> d
          [] d.state = "reading" /\ c = Pad -> [d EXCEPT !.state = "ended"]
          [] d.state = "reading" /\ c = Foreign -> [d EXCEPT !.state = "spoilt"]
          [] OTHER ->
                IF bits >= 8
                THEN [d EXCEPT !.acc = acc, !.bits = bits - 8,
                               !.out = Append(@, (acc \div 2^(bits - 8)) % 256)]
                ELSE [d EXCEPT !.acc = acc, !.bits = bits]

\* (A recursive function, as in FromPem, so that it can be proved about.)
Base64Decode(chars) ==
    LET pass[i \in 0..Len(chars)] ==
            IF i = 0 THEN [state |-> "reading", acc |-> 0, bits |-> 0, out |-> <<>>]
            ELSE Take(pass[i - 1], chars[i])
    IN  pass[Len(chars)]

\* Mutant of Scan: a beginning inside a block is taken for text.
ScanKeepsBlock(p, line) ==
    LET decoded == Base64Decode(p.body)
    IN  CASE line.kind = "begin" -> [p EXCEPT !.open = TRUE]
          [] line.kind = "end" ->
                [p EXCEPT !.open = FALSE, !.body = <<>>,
                          !.out = IF p.open /\ decoded.state # "spoilt"
                                  THEN Append(@, decoded.out) ELSE @]
          [] line.kind = "text" ->
                IF p.open THEN [p EXCEPT !.body = @ \o line.chars] ELSE p

\* from_pem: one pass over the lines.  A marker that begins a block discards
\* an unfinished one; a block that does not decode is dropped.
Scan(p, line) ==
    LET decoded == Base64Decode(p.body)
    IN  CASE line.kind = "begin" -> [p EXCEPT !.open = TRUE, !.body = <<>>]
          [] line.kind = "end" ->
                [p EXCEPT !.open = FALSE, !.body = <<>>,
                          !.out = IF p.open /\ decoded.state # "spoilt"
                                  THEN Append(@, decoded.out) ELSE @]
          [] line.kind = "text" ->
                IF p.open THEN [p EXCEPT !.body = @ \o line.chars] ELSE p

FromPem(lines) ==
    LET pass[i \in 0..Len(lines)] ==
            IF i = 0 THEN [open |-> FALSE, body |-> <<>>, out |-> <<>>]
            ELSE Scan(pass[i - 1], lines[i])
    IN  pass[Len(lines)].out

\* to_pem.
ToPem(der) ==
    LET chars == Chunks(Base64Encode(der), LineWidth)
    IN  <<Begin>> \o [i \in DOMAIN chars |-> Text(chars[i])] \o <<End>>
=============================================================================
