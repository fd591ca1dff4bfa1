------------------------- MODULE StoreComposeProofs -------------------------
(***************************************************************************)
(* Theorems about module StoreCompose, for every set of certificates,      *)
(* every bundle and every registry; and first about module Pem: what the   *)
(* decoder and the reader of blocks make of a longer input, one character  *)
(* or one line at a time, and that both give back what the writer was      *)
(* given.                                                                  *)
(***************************************************************************)
EXTENDS StoreCompose, Foundations, FiniteSetTheorems, TLAPS

Char == 0..66
Left == {x \in Nat : x < 16384}
Decoder == [state : {"reading", "ended", "spoilt"}, acc : Left,
            bits : {0, 2, 4, 6}, out : Seq(Byte)]
Fresh == [state |-> "reading", acc |-> 0, bits |-> 0, out |-> <<>>]

-----------------------------------------------------------------------------
(***************************************************************************)
(* base64_decode.                                                          *)
(***************************************************************************)

\* What the decoder shifts and cuts stays in its width.
LEMMA Remainders ==
  ASSUME NEW x \in Nat
  PROVE  /\ x % 256 \in 0..255 /\ x % 16384 \in Left
         /\ x \div 2^0 \in Nat /\ x \div 2^2 \in Nat /\ x \div 2^4 \in Nat
<1>1. x \div 1 \in Nat /\ x \div 4 \in Nat /\ x \div 16 \in Nat
  OBVIOUS
<1>2. 2^0 = 1 /\ 2^2 = 4 /\ 2^4 = 16
  OBVIOUS
<1>3. x % 256 \in 0..255 /\ x % 16384 \in Left
  BY DEF Left
<1>. QED  BY <1>1, <1>2, <1>3

\* A character taken, given the accumulator, the count of bits and the byte it
\* makes.
TakeWith(d, c, acc, bits, byte) ==
    CASE d.state # "reading" \/ c = Blank -> d
      [] d.state = "reading" /\ c = Pad -> [d EXCEPT !.state = "ended"]
      [] d.state = "reading" /\ c = Foreign -> [d EXCEPT !.state = "spoilt"]
      [] OTHER ->
            IF bits >= 8
            THEN [d EXCEPT !.acc = acc, !.bits = bits - 8, !.out = Append(@, byte)]
            ELSE [d EXCEPT !.acc = acc, !.bits = bits]

\* That is what Take does.
LEMMA TakeForm ==
  ASSUME NEW d, NEW c
  PROVE  LET acc == (d.acc * 64 + c) % 16384
             bits == d.bits + 6
             byte == (acc \div 2^(bits - 8)) % 256
         IN  Take(d, c) = TakeWith(d, c, acc, bits, byte)
<1>. DEFINE acc == (d.acc * 64 + c) % 16384
            bits == d.bits + 6
            byte == (acc \div 2^(bits - 8)) % 256
<1>. HIDE DEF acc, bits
<1>1. Take(d, c) = TakeWith(d, c, acc, bits, byte)
  BY DEF Take, TakeWith, acc, bits
<1>. QED  BY <1>1 DEF acc, bits

\* The bits the decoder has not used yet are fewer than eight.
LEMMA TakeType ==
  ASSUME NEW d \in Decoder, NEW c \in Char
  PROVE  Take(d, c) \in Decoder
<1>. DEFINE acc == (d.acc * 64 + c) % 16384
            bits == d.bits + 6
            byte == (acc \div 2^(bits - 8)) % 256
<1>1. d.out \in Seq(Byte) /\ d.acc \in Left
  BY DEF Decoder
<1>0. d.bits \in {0, 2, 4, 6}
  BY DEF Decoder
<1>2. acc \in Left
  <2>0. c \in 0..66
    BY DEF Char
  <2>1. d.acc \in Nat /\ c \in Nat
    BY <1>1, <2>0 DEF Left
  <2>2. d.acc * 64 + c \in Nat
    BY <2>1
  <2>. HIDE DEF acc
  <2>. QED  BY <2>2, Remainders DEF acc
<1>3. /\ bits >= 8 => bits - 8 = 0 \/ bits - 8 = 2 \/ bits - 8 = 4
      /\ ~(bits >= 8) => bits = 6
  BY <1>0
<1>. HIDE DEF acc, bits
<1>5. bits >= 8 => byte \in Byte
  <2>1. acc \in Nat
    BY <1>2 DEF Left
  <2>2. ASSUME NEW k \in {0, 2, 4} PROVE (acc \div 2^k) % 256 \in 0..255
    <3>0. /\ acc \div 2^0 \in Nat /\ acc \div 2^2 \in Nat /\ acc \div 2^4 \in Nat
      BY <2>1, Remainders
    <3>1. acc \div 2^k \in Nat
      BY <3>0
    <3>. QED  BY <3>1, Remainders
  <2>. QED  BY <1>3, <2>2 DEF Byte
<1>6. Take(d, c) = TakeWith(d, c, acc, bits, byte)
  BY TakeForm DEF acc, bits
<1>. HIDE DEF byte
<1>7. [d EXCEPT !.state = "ended"] \in Decoder /\ [d EXCEPT !.state = "spoilt"] \in Decoder
  BY <1>1 DEF Decoder
<1>8. bits >= 8 =>
        [d EXCEPT !.acc = acc, !.bits = bits - 8, !.out = Append(@, byte)] \in Decoder
  <2>1. bits >= 8 => Append(d.out, byte) \in Seq(Byte)
    BY <1>1, <1>5
  <2>2. bits >= 8 => bits - 8 \in {0, 2, 4, 6}
    BY <1>3
  <2>. QED  BY <1>2, <2>1, <2>2 DEF Decoder
<1>9. ~(bits >= 8) => [d EXCEPT !.acc = acc, !.bits = bits] \in Decoder
  <2>1. ~(bits >= 8) => bits \in {0, 2, 4, 6}
    BY <1>3
  <2>. QED  BY <1>2, <2>1 DEF Decoder
<1>10. CASE d.state # "reading" \/ c = Blank
  <2>1. Take(d, c) = d
    BY <1>6, <1>10 DEF TakeWith, Pad, Blank, Foreign
  <2>. QED  BY <2>1
<1>11. CASE d.state = "reading" /\ c = Pad
  <2>1. Take(d, c) = [d EXCEPT !.state = "ended"]
    BY <1>6, <1>11 DEF TakeWith, Pad, Blank, Foreign
  <2>. QED  BY <1>7, <2>1
<1>12. CASE d.state = "reading" /\ c = Foreign
  <2>1. Take(d, c) = [d EXCEPT !.state = "spoilt"]
    BY <1>6, <1>12 DEF TakeWith, Pad, Blank, Foreign
  <2>. QED  BY <1>7, <2>1
<1>13. CASE d.state = "reading" /\ c # Blank /\ c # Pad /\ c # Foreign
  <2>1. Take(d, c) =
          IF bits >= 8
          THEN [d EXCEPT !.acc = acc, !.bits = bits - 8, !.out = Append(@, byte)]
          ELSE [d EXCEPT !.acc = acc, !.bits = bits]
    BY <1>6, <1>13 DEF TakeWith
  <2>. QED  BY <1>8, <1>9, <2>1
<1>. QED  BY <1>10, <1>11, <1>12, <1>13

\* The decoder's states on the way.
LEMMA DecodePass ==
  ASSUME NEW chars \in Seq(Char)
  PROVE  \E f \in [0..Len(chars) -> Decoder] :
            /\ f[0] = Fresh
            /\ \A i \in 1..Len(chars) : f[i] = Take(f[i - 1], chars[i])
            /\ Base64Decode(chars) = f[Len(chars)]
<1>. DEFINE n == Len(chars)
            step == [i \in 1..n |-> [d \in Decoder |-> Take(d, chars[i])]]
            pass[i \in 0..Len(chars)] ==
                IF i = 0 THEN [state |-> "reading", acc |-> 0, bits |-> 0, out |-> <<>>]
                ELSE Take(pass[i - 1], chars[i])
<1>1. n \in Nat /\ \A i \in 1..n : chars[i] \in Char
  OBVIOUS
<1>2. Fresh \in Decoder
  BY DEF Fresh, Decoder, Left
<1>3. step \in StepsOf(n, Decoder)
  BY <1>1, TakeType DEF StepsOf
<1>4. PICK f \in [0..n -> Decoder] :
        f[0] = Fresh /\ \A i \in 1..n : f[i] = step[i][f[i - 1]]
  <2>. HIDE DEF step, n
  <2>1. \E f : IsPass(f, n, Decoder, Fresh, step)
    BY <1>1, <1>2, <1>3, PassExists
  <2>. QED  BY <2>1 DEF IsPass
<1>5. \A i \in 1..n : f[i] = Take(f[i - 1], chars[i])
  <2>1. \A i \in 1..n : i - 1 \in 0..n
    BY <1>1
  <2>2. \A i \in 1..n, d \in Decoder : step[i][d] = Take(d, chars[i])
    OBVIOUS
  <2>. HIDE DEF step, n
  <2>. QED  BY <1>4, <2>1, <2>2
<1>6. f = [i \in 0..n |-> IF i = 0 THEN [state |-> "reading", acc |-> 0, bits |-> 0, out |-> <<>>]
                          ELSE Take(f[i - 1], chars[i])]
  <2>1. \A i \in 0..n : i # 0 => i \in 1..n
    BY <1>1
  <2>. HIDE DEF step, n
  <2>2. f = [i \in 0..n |-> f[i]]
    BY <1>4
  <2>. QED  BY <1>4, <1>5, <2>1, <2>2 DEF Fresh
<1>7. pass = [i \in 0..n |-> IF i = 0 THEN [state |-> "reading", acc |-> 0, bits |-> 0, out |-> <<>>]
                             ELSE Take(pass[i - 1], chars[i])]
  BY <1>6
<1>8. Base64Decode(chars) = pass[n]
  BY DEF Base64Decode
<1>. HIDE DEF pass, step
<1>9. \A i \in 0..n : i \in {k \in 0..n : pass[k] = f[k]}
  <2>. DEFINE T == {k \in 0..n : pass[k] = f[k]}
  <2>1. 0 \in T
    BY <1>1, <1>4, <1>7 DEF Fresh
  <2>2. ASSUME NEW i \in 1..n, i - 1 \in T PROVE i \in T
    <3>1. i \in 0..n /\ i # 0
      BY <1>1
    <3>2. pass[i] = Take(pass[i - 1], chars[i])
      BY <1>7, <3>1
    <3>. QED  BY <1>5, <2>2, <3>1, <3>2
  <2>. HIDE DEF T
  <2>. QED  BY <1>1, <2>1, <2>2, CountUp DEF T
<1>10. pass[n] = f[n]
  BY <1>1, <1>9
<1>. QED  BY <1>4, <1>5, <1>8, <1>10

\* Nothing decodes to nothing; one character more is one step more.
LEMMA DecodeEmpty == Base64Decode(<<>>) = Fresh
<1>1. <<>> \in Seq(Char) /\ Len(<<>>) = 0
  OBVIOUS
<1>2. PICK f \in [0..Len(<<>>) -> Decoder] :
        f[0] = Fresh /\ Base64Decode(<<>>) = f[Len(<<>>)]
  BY <1>1, DecodePass
<1>. QED  BY <1>1, <1>2

\* One character more is one turn of base64_decode's loop.
LEMMA DecodeAppend ==
  ASSUME NEW chars \in Seq(Char), NEW c \in Char
  PROVE  /\ Base64Decode(chars) \in Decoder
         /\ Base64Decode(Append(chars, c)) = Take(Base64Decode(chars), c)
<1>. DEFINE n == Len(chars)
            more == Append(chars, c)
<1>1. /\ more \in Seq(Char) /\ Len(more) = n + 1 /\ n \in Nat
      /\ more[n + 1] = c /\ \A i \in 1..n : more[i] = chars[i]
  OBVIOUS
<1>2. PICK f \in [0..n -> Decoder] :
        /\ f[0] = Fresh /\ \A i \in 1..n : f[i] = Take(f[i - 1], chars[i])
        /\ Base64Decode(chars) = f[n]
  BY DecodePass
<1>. HIDE DEF more
<1>3. PICK g \in [0..Len(more) -> Decoder] :
        /\ g[0] = Fresh /\ \A i \in 1..Len(more) : g[i] = Take(g[i - 1], more[i])
        /\ Base64Decode(more) = g[Len(more)]
  BY <1>1, DecodePass
<1>. HIDE DEF n
<1>. DEFINE T == {i \in 0..n : f[i] = g[i]}
<1>4. 0 \in T
  BY <1>1, <1>2, <1>3
<1>5. ASSUME NEW i \in 1..n, i - 1 \in T PROVE i \in T
  <2>1. i \in 0..n /\ i \in 1..Len(more)
    BY <1>1
  <2>2. f[i - 1] = g[i - 1]
    BY <1>5
  <2>. QED  BY <1>1, <1>2, <1>3, <2>1, <2>2
<1>6. f[n] = g[n]
  <2>. HIDE DEF T
  <2>1. n \in 0..n
    BY <1>1
  <2>. QED  BY <1>1, <1>4, <1>5, <2>1, CountUp DEF T
<1>7. n + 1 \in 1..Len(more) /\ (n + 1) - 1 = n /\ n \in 0..n
  BY <1>1
<1>8. g[n + 1] = Take(g[n], c)
  BY <1>1, <1>3, <1>7
<1>9. Base64Decode(chars) \in Decoder
  BY <1>2, <1>7
<1>. QED  BY <1>1, <1>2, <1>3, <1>6, <1>8, <1>9 DEF more

-----------------------------------------------------------------------------
(***************************************************************************)
(* from_pem.                                                               *)
(***************************************************************************)
Line == [kind : {"begin", "end", "text"}, chars : Seq(Char)]
Reader == [open : BOOLEAN, body : Seq(Char), out : Seq(Seq(Byte))]
Closed == [open |-> FALSE, body |-> <<>>, out |-> <<>>]

\* base64_decode ends as a decoder, with bytes.
LEMMA DecodeType ==
  ASSUME NEW chars \in Seq(Char)
  PROVE  Base64Decode(chars) \in Decoder
<1>1. PICK f \in [0..Len(chars) -> Decoder] : Base64Decode(chars) = f[Len(chars)]
  BY DecodePass
<1>2. Len(chars) \in 0..Len(chars)
  OBVIOUS
<1>. QED  BY <1>1, <1>2

\* A line leaves from_pem's state well formed.
LEMMA ScanType ==
  ASSUME NEW p \in Reader, NEW line \in Line
  PROVE  Scan(p, line) \in Reader
<1>. DEFINE decoded == Base64Decode(p.body)
            read == IF p.open /\ decoded.state # "spoilt" THEN Append(p.out, decoded.out)
                                                          ELSE p.out
<1>1. /\ p.open \in BOOLEAN /\ p.body \in Seq(Char) /\ p.out \in Seq(Seq(Byte))
      /\ line.chars \in Seq(Char) /\ line.kind \in {"begin", "end", "text"}
  BY DEF Reader, Line
<1>2. decoded.out \in Seq(Byte)
  <2>1. decoded \in Decoder
    BY <1>1, DecodeType
  <2>. HIDE DEF decoded
  <2>. QED  BY <2>1 DEF Decoder
<1>. HIDE DEF decoded
<1>3. read \in Seq(Seq(Byte))
  <2>. DEFINE Bytes == Seq(Byte)
  <2>1. p.out \in Seq(Bytes) /\ decoded.out \in Bytes
    BY <1>1, <1>2
  <2>. HIDE DEF Bytes
  <2>2. Append(p.out, decoded.out) \in Seq(Bytes)
    BY <2>1
  <2>. QED  BY <2>1, <2>2 DEF Bytes
<1>4. p.body \o line.chars \in Seq(Char)
  <2>. DEFINE b == p.body
              c == line.chars
  <2>1. b \in Seq(Char) /\ c \in Seq(Char)
    BY <1>1
  <2>. HIDE DEF b, c
  <2>2. b \o c \in Seq(Char)
    BY <2>1, ConcatType
  <2>. QED  BY <2>2 DEF b, c
<1>5. CASE line.kind = "begin"
  <2>1. Scan(p, line) = [p EXCEPT !.open = TRUE, !.body = <<>>]
    BY <1>5 DEF Scan
  <2>2. <<>> \in Seq(Char)
    OBVIOUS
  <2>. QED  BY <1>1, <2>1, <2>2 DEF Reader
<1>6. CASE line.kind = "end"
  <2>1. Scan(p, line) = [p EXCEPT !.open = FALSE, !.body = <<>>, !.out = read]
    BY <1>6 DEF Scan, decoded
  <2>2. <<>> \in Seq(Char)
    OBVIOUS
  <2>. HIDE DEF read
  <2>. QED  BY <1>1, <1>3, <2>1, <2>2 DEF Reader
<1>7. CASE line.kind = "text"
  <2>1. Scan(p, line) = IF p.open THEN [p EXCEPT !.body = p.body \o line.chars] ELSE p
    BY <1>7 DEF Scan
  <2>2. [p EXCEPT !.body = p.body \o line.chars] \in Reader
    BY <1>1, <1>4 DEF Reader
  <2>. QED  BY <2>1, <2>2
<1>. QED  BY <1>1, <1>5, <1>6, <1>7

\* The reader after all the lines.
Scanned(lines) ==
    LET pass[i \in 0..Len(lines)] ==
            IF i = 0 THEN [open |-> FALSE, body |-> <<>>, out |-> <<>>]
            ELSE Scan(pass[i - 1], lines[i])
    IN  pass[Len(lines)]

\* from_pem returns what its loop has gathered.
LEMMA FromPemScans == \A lines : FromPem(lines) = Scanned(lines).out
BY DEF FromPem, Scanned

\* The pass over the lines exists: each state is one turn from the last.
LEMMA ScanPass ==
  ASSUME NEW lines \in Seq(Line)
  PROVE  \E f \in [0..Len(lines) -> Reader] :
            /\ f[0] = Closed
            /\ \A i \in 1..Len(lines) : f[i] = Scan(f[i - 1], lines[i])
            /\ Scanned(lines) = f[Len(lines)]
<1>. DEFINE n == Len(lines)
            step == [i \in 1..n |-> [p \in Reader |-> Scan(p, lines[i])]]
            pass[i \in 0..Len(lines)] ==
                IF i = 0 THEN [open |-> FALSE, body |-> <<>>, out |-> <<>>]
                ELSE Scan(pass[i - 1], lines[i])
<1>1. n \in Nat /\ \A i \in 1..n : lines[i] \in Line
  OBVIOUS
<1>2. Closed \in Reader
  <2>1. <<>> \in Seq(Char) /\ <<>> \in Seq(Seq(Byte))
    OBVIOUS
  <2>. QED  BY <2>1 DEF Closed, Reader
<1>3. step \in StepsOf(n, Reader)
  BY <1>1, ScanType DEF StepsOf
<1>4. PICK f \in [0..n -> Reader] :
        f[0] = Closed /\ \A i \in 1..n : f[i] = step[i][f[i - 1]]
  <2>. HIDE DEF step, n
  <2>1. \E f : IsPass(f, n, Reader, Closed, step)
    BY <1>1, <1>2, <1>3, PassExists
  <2>. QED  BY <2>1 DEF IsPass
<1>5. \A i \in 1..n : f[i] = Scan(f[i - 1], lines[i])
  <2>1. \A i \in 1..n : i - 1 \in 0..n
    BY <1>1
  <2>2. \A i \in 1..n, p \in Reader : step[i][p] = Scan(p, lines[i])
    OBVIOUS
  <2>. HIDE DEF step, n
  <2>. QED  BY <1>4, <2>1, <2>2
<1>6. f = [i \in 0..n |-> IF i = 0 THEN [open |-> FALSE, body |-> <<>>, out |-> <<>>]
                          ELSE Scan(f[i - 1], lines[i])]
  <2>1. \A i \in 0..n : i # 0 => i \in 1..n
    BY <1>1
  <2>. HIDE DEF step, n
  <2>2. f = [i \in 0..n |-> f[i]]
    BY <1>4
  <2>. QED  BY <1>4, <1>5, <2>1, <2>2 DEF Closed
<1>7. pass = [i \in 0..n |-> IF i = 0 THEN [open |-> FALSE, body |-> <<>>, out |-> <<>>]
                             ELSE Scan(pass[i - 1], lines[i])]
  BY <1>6
<1>8. Scanned(lines) = pass[n]
  BY DEF Scanned
<1>. HIDE DEF pass, step
<1>9. \A i \in 0..n : i \in {k \in 0..n : pass[k] = f[k]}
  <2>. DEFINE T == {k \in 0..n : pass[k] = f[k]}
  <2>1. 0 \in T
    BY <1>1, <1>4, <1>7 DEF Closed
  <2>2. ASSUME NEW i \in 1..n, i - 1 \in T PROVE i \in T
    <3>1. i \in 0..n /\ i # 0
      BY <1>1
    <3>2. pass[i] = Scan(pass[i - 1], lines[i])
      BY <1>7, <3>1
    <3>. QED  BY <1>5, <2>2, <3>1, <3>2
  <2>. HIDE DEF T
  <2>. QED  BY <1>1, <2>1, <2>2, CountUp DEF T
<1>10. pass[n] = f[n]
  BY <1>1, <1>9
<1>. QED  BY <1>4, <1>5, <1>8, <1>10

\* Whatever the lines are, what is read is a sequence of byte sequences.
LEMMA ScannedType ==
  ASSUME NEW lines \in Seq(Line)
  PROVE  Scanned(lines) \in Reader /\ FromPem(lines) \in Seq(Seq(Byte))
<1>1. PICK f \in [0..Len(lines) -> Reader] : Scanned(lines) = f[Len(lines)]
  BY ScanPass
<1>2. Len(lines) \in 0..Len(lines)
  OBVIOUS
<1>3. Scanned(lines) \in Reader
  BY <1>1, <1>2
<1>. QED  BY <1>3, FromPemScans DEF Reader

\* Before any line no block is open.
LEMMA ScannedEmpty == Scanned(<<>>) = Closed
<1>1. <<>> \in Seq(Line) /\ Len(<<>>) = 0
  OBVIOUS
<1>2. PICK f \in [0..Len(<<>>) -> Reader] :
        f[0] = Closed /\ Scanned(<<>>) = f[Len(<<>>)]
  BY <1>1, ScanPass
<1>. QED  BY <1>1, <1>2

\* One line more is one turn of from_pem's loop.
LEMMA ScannedAppend ==
  ASSUME NEW lines \in Seq(Line), NEW line \in Line
  PROVE  Scanned(Append(lines, line)) = Scan(Scanned(lines), line)
<1>. DEFINE n == Len(lines)
            more == Append(lines, line)
<1>1. /\ more \in Seq(Line) /\ Len(more) = n + 1 /\ n \in Nat
      /\ more[n + 1] = line /\ \A i \in 1..n : more[i] = lines[i]
  OBVIOUS
<1>2. PICK f \in [0..n -> Reader] :
        /\ f[0] = Closed /\ \A i \in 1..n : f[i] = Scan(f[i - 1], lines[i])
        /\ Scanned(lines) = f[n]
  BY ScanPass
<1>. HIDE DEF more
<1>3. PICK g \in [0..Len(more) -> Reader] :
        /\ g[0] = Closed /\ \A i \in 1..Len(more) : g[i] = Scan(g[i - 1], more[i])
        /\ Scanned(more) = g[Len(more)]
  BY <1>1, ScanPass
<1>. HIDE DEF n
<1>. DEFINE T == {i \in 0..n : f[i] = g[i]}
<1>4. 0 \in T
  BY <1>1, <1>2, <1>3
<1>5. ASSUME NEW i \in 1..n, i - 1 \in T PROVE i \in T
  <2>1. i \in 0..n /\ i \in 1..Len(more)
    BY <1>1
  <2>2. f[i - 1] = g[i - 1]
    BY <1>5
  <2>. QED  BY <1>1, <1>2, <1>3, <2>1, <2>2
<1>6. f[n] = g[n]
  <2>. HIDE DEF T
  <2>1. n \in 0..n
    BY <1>1
  <2>. QED  BY <1>1, <1>4, <1>5, <2>1, CountUp DEF T
<1>7. n + 1 \in 1..Len(more) /\ (n + 1) - 1 = n /\ n \in 0..n
  BY <1>1
<1>8. g[n + 1] = Scan(g[n], line)
  BY <1>1, <1>3, <1>7
<1>. QED  BY <1>1, <1>2, <1>3, <1>6, <1>8 DEF more

-----------------------------------------------------------------------------
(***************************************************************************)
(* Quotients, and slices of a sequence.                                    *)
(***************************************************************************)

\* A quotient, and what it leaves.
LEMMA DivFacts ==
  ASSUME NEW a \in Nat, NEW k \in Nat \ {0}
  PROVE  /\ a \div k \in Nat
         /\ (a \div k) * k <= a
         /\ a < (a \div k) * k + k
OBVIOUS

\* The place where a chunk ends.
LEMMA TimesFacts ==
  ASSUME NEW i \in Nat, NEW k \in Nat
  PROVE  i * k \in Nat /\ (i + 1) * k = i * k + k
OBVIOUS

\* Places of chunks keep their order.
LEMMA TimesMonotone ==
  ASSUME NEW i \in Nat, NEW j \in Nat, i <= j, NEW k \in Nat
  PROVE  i * k <= j * k
OBVIOUS

\* The end of the i-th slice.
Cut(s, k, i) == IF i * k < Len(s) THEN i * k ELSE Len(s)

\* Chunks cuts a sequence into slices that follow one another to its end.
LEMMA ChunksFacts ==
  ASSUME NEW S, NEW s \in Seq(S), NEW k \in Nat \ {0}
  PROVE  LET n == (Len(s) + k - 1) \div k
         IN  /\ Chunks(s, k) \in Seq(Seq(S)) /\ Len(Chunks(s, k)) = n /\ n \in Nat
             /\ \A i \in 1..n :
                   /\ Chunks(s, k)[i] = SubSeq(s, (i - 1) * k + 1, Cut(s, k, i))
                   /\ (i - 1) * k \in Nat /\ (i - 1) * k < Len(s)
                   /\ Cut(s, k, i - 1) = (i - 1) * k
                   /\ Cut(s, k, i) \in Nat /\ Cut(s, k, i) <= Len(s)
                   /\ Cut(s, k, i) > (i - 1) * k
             /\ Cut(s, k, n) = Len(s)
             /\ \A i \in 1..(n - 1) : Cut(s, k, i) = i * k
<1>. DEFINE L == Len(s)
            n == (L + k - 1) \div k
            c == Chunks(s, k)
<1>1. L \in Nat /\ L + k - 1 \in Nat
  OBVIOUS
<1>. HIDE DEF L
<1>2. n \in Nat /\ n * k <= L + k - 1 /\ L + k - 1 < n * k + k
  BY <1>1, DivFacts
<1>. HIDE DEF n
<1>3. ASSUME NEW i \in 1..n
      PROVE  (i - 1) * k \in Nat /\ (i - 1) * k < L /\ i * k \in Nat /\ i * k = (i - 1) * k + k
  <2>1. i - 1 \in Nat /\ i \in Nat /\ (i - 1) + 1 = i /\ k \in Nat
    BY <1>2
  <2>2. (i - 1) * k \in Nat /\ i * k = (i - 1) * k + k
    <3>. DEFINE j == i - 1
    <3>1. j \in Nat /\ j + 1 = i
      BY <2>1
    <3>. HIDE DEF j
    <3>2. j * k \in Nat /\ (j + 1) * k = j * k + k
      BY <2>1, <3>1, TimesFacts
    <3>. QED  BY <3>1, <3>2 DEF j
  <2>3. i * k <= n * k
    BY <1>2, <2>1, TimesMonotone
  <2>. QED  BY <1>1, <1>2, <2>2, <2>3
<1>4. c = [i \in 1..n |-> SubSeq(s, (i - 1) * k + 1, Cut(s, k, i))]
  BY DEF Chunks, Cut, n, L
<1>5. ASSUME NEW i \in 1..n
      PROVE  /\ Cut(s, k, i - 1) = (i - 1) * k
             /\ Cut(s, k, i) \in Nat /\ Cut(s, k, i) <= L /\ Cut(s, k, i) > (i - 1) * k
  BY <1>1, <1>3 DEF Cut, L
<1>6. ASSUME NEW i \in 1..n PROVE c[i] \in Seq(S)
  <2>. DEFINE from == (i - 1) * k + 1
              to == Cut(s, k, i)
  <2>1. from \in Nat /\ from >= 1 /\ to \in Nat /\ to <= Len(s)
    BY <1>3, <1>5 DEF L
  <2>2. c[i] = SubSeq(s, from, to)
    BY <1>4
  <2>. HIDE DEF from, to, c
  <2>3. SubSeq(s, from, to) \in Seq(S)
    BY <2>1
  <2>. QED  BY <2>2, <2>3
<1>7. c \in Seq(Seq(S)) /\ Len(c) = n
  <2>. DEFINE V == Seq(S)
  <2>1. c \in [1..n -> V]
    BY <1>4, <1>6
  <2>. HIDE DEF V, c
  <2>2. c \in Seq(V) /\ Len(c) = n
    BY <1>2, <2>1, FunctionIsSeq
  <2>. QED  BY <2>2 DEF V
<1>8. Cut(s, k, n) = L
  BY <1>1, <1>2 DEF Cut, L
<1>9. ASSUME NEW i \in 1..(n - 1) PROVE Cut(s, k, i) = i * k
  <2>1. i + 1 \in 1..n /\ (i + 1) - 1 = i
    BY <1>2
  <2>2. i * k < L
    BY <1>3, <2>1
  <2>. QED  BY <2>2 DEF Cut, L
<1>10. \A i \in 1..n : c[i] = SubSeq(s, (i - 1) * k + 1, Cut(s, k, i))
  BY <1>4
<1>. HIDE DEF c
<1>. QED  BY <1>2, <1>3, <1>5, <1>7, <1>8, <1>9, <1>10 DEF n, c, L

-----------------------------------------------------------------------------
(***************************************************************************)
(* base64_encode, and the way back.                                        *)
(***************************************************************************)
Letter == 0..64

\* base64_encode writes four letters, or padding, for a chunk.
LEMMA EncodeGroupType ==
  ASSUME NEW b \in Seq(Byte), Len(b) \in 1..3
  PROVE  EncodeGroup(b) \in Seq(Letter) /\ Len(EncodeGroup(b)) = 4
<1>. DEFINE at(i) == IF i <= Len(b) THEN b[i] ELSE 0
            n == at(1) * 65536 + at(2) * 256 + at(3)
            c1 == (n \div 262144) % 64
            c2 == (n \div 4096) % 64
            c3 == IF Len(b) > 1 THEN (n \div 64) % 64 ELSE Pad
            c4 == IF Len(b) > 2 THEN n % 64 ELSE Pad
<1>1. \A i \in 1..3 : at(i) \in Nat
  <2>1. \A i \in 1..Len(b) : b[i] \in Nat
    <3>1. \A i \in 1..Len(b) : b[i] \in Byte
      OBVIOUS
    <3>2. \A x \in Byte : x \in Nat
      BY DEF Byte
    <3>. QED  BY <3>1, <3>2
  <2>2. \A i \in 1..3 : i <= Len(b) => i \in 1..Len(b)
    OBVIOUS
  <2>. QED  BY <2>1, <2>2
<1>2. n \in Nat
  <2>. HIDE DEF at
  <2>1. at(1) \in Nat /\ at(2) \in Nat /\ at(3) \in Nat
    BY <1>1
  <2>. QED  BY <2>1
<1>. HIDE DEF n
<1>3. n \div 262144 \in Nat /\ n \div 4096 \in Nat /\ n \div 64 \in Nat
  BY <1>2
<1>4. \A x \in Nat : x % 64 \in Letter
  BY DEF Letter
<1>5. Pad \in Letter
  BY DEF Pad, Letter
<1>6. c1 \in Letter /\ c2 \in Letter /\ c3 \in Letter /\ c4 \in Letter
  BY <1>2, <1>3, <1>4, <1>5
<1>7. EncodeGroup(b) = <<c1, c2, c3, c4>>
  BY DEF EncodeGroup, n
<1>. HIDE DEF c1, c2, c3, c4
<1>. QED  BY <1>6, <1>7

\* The groups of base64_encode.
Groups(data) == [i \in DOMAIN Chunks(data, 3) |-> EncodeGroup(Chunks(data, 3)[i])]

\* A slice has k elements at most, and k unless it is the last.
LEMMA ChunkLen ==
  ASSUME NEW S, NEW s \in Seq(S), NEW k \in Nat \ {0},
         NEW i \in 1..Len(Chunks(s, k))
  PROVE  /\ Len(Chunks(s, k)[i]) \in 1..k /\ Chunks(s, k)[i] \in Seq(S)
         /\ i # Len(Chunks(s, k)) => Len(Chunks(s, k)[i]) = k
<1>. DEFINE from == (i - 1) * k
            to == Cut(s, k, i)
            c == Chunks(s, k)
            n == (Len(s) + k - 1) \div k
<1>1. /\ c \in Seq(Seq(S)) /\ Len(c) = n /\ n \in Nat
      /\ \A j \in 1..n :
            /\ c[j] = SubSeq(s, (j - 1) * k + 1, Cut(s, k, j))
            /\ (j - 1) * k \in Nat /\ (j - 1) * k < Len(s)
            /\ Cut(s, k, j) \in Nat /\ Cut(s, k, j) <= Len(s)
            /\ Cut(s, k, j) > (j - 1) * k
      /\ \A j \in 1..(n - 1) : Cut(s, k, j) = j * k
  <2>. HIDE DEF c
  <2>. QED  BY ChunksFacts DEF c
<1>. HIDE DEF n, c
<1>2. i \in 1..n /\ (i # n => i \in 1..(n - 1))
  BY <1>1 DEF c
<1>3. /\ c[i] = SubSeq(s, from + 1, to) /\ from \in Nat /\ to \in Nat
      /\ to <= Len(s) /\ to > from
  BY <1>1, <1>2
<1>4. i # n => to = i * k
  BY <1>1, <1>2
<1>5. i * k = from + k /\ i * k \in Nat
  <2>. DEFINE j == i - 1
  <2>1. j \in Nat /\ j + 1 = i /\ k \in Nat
    BY <1>1, <1>2
  <2>. HIDE DEF j
  <2>2. j * k \in Nat /\ (j + 1) * k = j * k + k
    BY <2>1, TimesFacts
  <2>. QED  BY <2>1, <2>2 DEF j
<1>6. to <= i * k
  BY <1>3, <1>5 DEF Cut
<1>. HIDE DEF from, to
<1>7. Len(c[i]) = to - from /\ c[i] \in Seq(S)
  BY <1>3
<1>8. to - from \in 1..k /\ (i # n => to - from = k)
  <2>. DEFINE p == i * k
  <2>1. p = from + k /\ to <= p /\ (i # n => to = p)
    BY <1>4, <1>5, <1>6
  <2>. HIDE DEF p
  <2>. QED  BY <1>3, <2>1
<1>9. Len(c) = n
  BY <1>1
<1>10. Len(c[i]) \in 1..k /\ c[i] \in Seq(S) /\ (i # Len(c) => Len(c[i]) = k)
  BY <1>7, <1>8, <1>9
<1>. QED  BY <1>10 DEF c

\* Only the last slice may be short.
LEMMA ChunkFull ==
  ASSUME NEW S, NEW s \in Seq(S), NEW k \in Nat \ {0},
         NEW i \in 1..Len(Chunks(s, k)), i # Len(Chunks(s, k))
  PROVE  Len(Chunks(s, k)[i]) = k
BY ChunkLen

\* base64_encode writes characters of its alphabet.
LEMMA GroupsType ==
  ASSUME NEW data \in Seq(Byte)
  PROVE  /\ Groups(data) \in Seq(Seq(Letter))
         /\ Len(Groups(data)) = Len(Chunks(data, 3))
         /\ \A i \in 1..Len(Groups(data)) :
               /\ Groups(data)[i] = EncodeGroup(Chunks(data, 3)[i])
               /\ Len(Groups(data)[i]) = 4
         /\ Base64Encode(data) = FlattenSeq(Groups(data))
         /\ Base64Encode(data) \in Seq(Letter)
<1>. DEFINE c == Chunks(data, 3)
            n == Len(c)
            g == Groups(data)
<1>1. c \in Seq(Seq(Byte)) /\ n \in Nat /\ DOMAIN c = 1..n
  <2>1. c \in Seq(Seq(Byte))
    BY ChunksFacts
  <2>. HIDE DEF c
  <2>. QED  BY <2>1
<1>2. \A i \in 1..n : EncodeGroup(c[i]) \in Seq(Letter) /\ Len(EncodeGroup(c[i])) = 4
  <2>1. ASSUME NEW i \in 1..n PROVE Len(c[i]) \in 1..3 /\ c[i] \in Seq(Byte)
    <3>1. 3 \in Nat \ {0}
      OBVIOUS
    <3>. QED  BY <3>1, ChunkLen
  <2>. HIDE DEF c
  <2>. QED  BY <2>1, EncodeGroupType
<1>3. g = [i \in 1..n |-> EncodeGroup(c[i])]
  BY <1>1 DEF Groups
<1>4. g \in Seq(Seq(Letter)) /\ Len(g) = n
  <2>. DEFINE V == Seq(Letter)
  <2>1. g \in [1..n -> V]
    BY <1>2, <1>3
  <2>. HIDE DEF V, g, n
  <2>2. g \in Seq(V) /\ Len(g) = n
    BY <1>1, <2>1, FunctionIsSeq
  <2>. QED  BY <2>2 DEF V
<1>5. Base64Encode(data) = FlattenSeq(g)
  BY DEF Base64Encode, Groups
<1>6. FlattenSeq(g) \in Seq(Letter)
  BY <1>4, FlattenType
<1>. HIDE DEF g, c
<1>. QED  BY <1>2, <1>3, <1>4, <1>5, <1>6 DEF g, c

\* The accumulator after one more letter.
Shift(acc, x) == (acc * 64 + x) % 16384

\* The bytes of a group, from its letters.
AfterTwo(a, x, y) == (a \div 16) % 256 = x * 4 + y \div 16 /\ a % 16 = y % 16
AfterThree(a, acc, x) == (a \div 4) % 256 = (acc % 16) * 16 + x \div 4 /\ a % 4 = x % 4
AfterFour(a, acc, x) == a % 256 = (acc % 4) * 64 + x

\* Two letters bring the first byte of a chunk into the accumulator.
LEMMA FirstByte ==
  ASSUME NEW acc \in Nat, NEW x \in 0..63, NEW y \in 0..63
  PROVE  AfterTwo(Shift(Shift(acc, x), y), x, y)
<1>. DEFINE a == (acc * 64 + x) % 16384
            b == (a * 64 + y) % 16384
<1>1. a % 256 = (acc % 4) * 64 + x
  OBVIOUS
<1>2. a \in Nat
  OBVIOUS
<1>0. Shift(Shift(acc, x), y) = b
  BY DEF Shift
<1>. HIDE DEF a
<1>3. b = (a % 256) * 64 + y
  BY <1>2
<1>. HIDE DEF b
<1>4. acc % 4 \in 0..3
  OBVIOUS
<1>5. b = (acc % 4) * 4096 + x * 64 + y
  BY <1>1, <1>3, <1>4
<1>6. AfterTwo(b, x, y)
  BY <1>4, <1>5 DEF AfterTwo
<1>. QED  BY <1>0, <1>6

\* The third and the fourth bring the others.
LEMMA NextBytes ==
  ASSUME NEW acc \in Nat, NEW x \in 0..63
  PROVE  AfterThree(Shift(acc, x), acc, x) /\ AfterFour(Shift(acc, x), acc, x)
BY DEF Shift, AfterThree, AfterFour

\* The letters of three bytes.
Letter1(n) == (n \div 262144) % 64
Letter2(n) == (n \div 4096) % 64
Letter3(n) == (n \div 64) % 64
Letter4(n) == n % 64
Joined(n, p, q, r) == n = p * 65536 + q * 256 + r

\* Which bits of three bytes the four letters are.
LEMMA SplitBytes ==
  ASSUME NEW p \in 0..255, NEW q \in 0..255, NEW r \in 0..255,
         NEW n \in Nat, Joined(n, p, q, r)
  PROVE  /\ Letter1(n) = p \div 4 /\ Letter2(n) = (p % 4) * 16 + q \div 16
         /\ Letter3(n) = (q % 16) * 4 + r \div 64 /\ Letter4(n) = r % 64
<1>1. n \div 262144 = p \div 4 /\ p \div 4 \in 0..63
  BY DEF Joined
<1>2. n \div 4096 = p * 16 + q \div 16 /\ q \div 16 \in 0..15
  BY DEF Joined
<1>3. n \div 64 = p * 1024 + q * 4 + r \div 64 /\ r \div 64 \in 0..3
  BY DEF Joined
<1>4. n % 64 = r % 64
  BY DEF Joined
<1>5. (n \div 262144) % 64 = p \div 4
  BY <1>1
<1>6. (n \div 4096) % 64 = (p % 4) * 16 + q \div 16
  <2>. DEFINE t == q \div 16
  <2>1. t \in 0..15
    BY <1>2
  <2>. HIDE DEF t
  <2>2. (p * 16 + t) % 64 = (p % 4) * 16 + t
    BY <2>1
  <2>. QED  BY <1>2, <2>2 DEF t
<1>7. (n \div 64) % 64 = (q % 16) * 4 + r \div 64
  <2>. DEFINE t == r \div 64
  <2>1. t \in 0..3
    BY <1>3
  <2>. HIDE DEF t
  <2>2. (p * 1024 + q * 4 + t) % 64 = (q % 16) * 4 + t
    BY <2>1
  <2>. QED  BY <1>3, <2>2 DEF t
<1>. QED  BY <1>4, <1>5, <1>6, <1>7 DEF Letter1, Letter2, Letter3, Letter4

\* The letters of three bytes, and the bytes of the letters.
IsSplit(x, y, z, v, p, q, w) ==
    /\ x \in 0..63 /\ y \in 0..63 /\ z \in 0..63 /\ v \in 0..63
    /\ x * 4 + y \div 16 = p
    /\ (y % 16) * 16 + z \div 4 = q
    /\ (z % 4) * 64 + v = w

\* Put together again they are the three bytes.
LEMMA SplitJoins ==
  ASSUME NEW p \in 0..255, NEW q \in 0..255, NEW w \in 0..255,
         NEW n \in Nat, Joined(n, p, q, w)
  PROVE  IsSplit(Letter1(n), Letter2(n), Letter3(n), Letter4(n), p, q, w)
<1>. DEFINE p0 == p \div 4
            p1 == p % 4
            q0 == q \div 16
            q1 == q % 16
            w0 == w \div 64
            w1 == w % 64
<1>1. /\ Letter1(n) = p0 /\ Letter2(n) = p1 * 16 + q0
      /\ Letter3(n) = q1 * 4 + w0 /\ Letter4(n) = w1
  BY SplitBytes
<1>2. p = p0 * 4 + p1 /\ p1 \in 0..3 /\ p0 \in 0..63
  OBVIOUS
<1>3. q = q0 * 16 + q1 /\ q1 \in 0..15 /\ q0 \in 0..15
  OBVIOUS
<1>4. w = w0 * 64 + w1 /\ w1 \in 0..63 /\ w0 \in 0..3
  OBVIOUS
<1>. HIDE DEF p0, p1, q0, q1, w0, w1
<1>5. (p1 * 16 + q0) \div 16 = p1 /\ (p1 * 16 + q0) % 16 = q0
      /\ p1 * 16 + q0 \in 0..63
  BY <1>2, <1>3
<1>6. (q1 * 4 + w0) \div 4 = q1 /\ (q1 * 4 + w0) % 4 = w0
      /\ q1 * 4 + w0 \in 0..63
  BY <1>3, <1>4
<1>. QED  BY <1>1, <1>2, <1>3, <1>4, <1>5, <1>6 DEF IsSplit

\* Three bytes and their number.
ThreeBytes(n, p, q, w) ==
    p \in 0..255 /\ q \in 0..255 /\ w \in 0..255 /\ n \in Nat /\ Joined(n, p, q, w)

\* The same, of any three bytes.
LEMMA BytesSplit ==
  ASSUME NEW n, NEW p, NEW q, NEW w, ThreeBytes(n, p, q, w)
  PROVE  IsSplit(Letter1(n), Letter2(n), Letter3(n), Letter4(n), p, q, w)
BY SplitJoins DEF ThreeBytes

\* A sequence appended element by element.
LEMMA AppendAll ==
  ASSUME NEW S, NEW o \in Seq(S), NEW b \in Seq(S)
  PROVE  /\ Len(b) = 1 => Append(o, b[1]) = o \o b
         /\ Len(b) = 2 => Append(Append(o, b[1]), b[2]) = o \o b
         /\ Len(b) = 3 => Append(Append(Append(o, b[1]), b[2]), b[3]) = o \o b
         /\ Len(b) = 4 =>
               Append(Append(Append(Append(o, b[1]), b[2]), b[3]), b[4]) = o \o b
<1>1. o \o b \in Seq(S) /\ Len(o \o b) = Len(o) + Len(b)
  OBVIOUS
<1>2. \A i \in 1..Len(b) : b[i] \in S
  OBVIOUS
<1>3. ASSUME Len(b) = 1 PROVE Append(o, b[1]) = o \o b
  <2>1. b[1] \in S
    BY <1>2, <1>3
  <2>. QED  BY <1>1, <1>3, <2>1
<1>4. ASSUME Len(b) = 2 PROVE Append(Append(o, b[1]), b[2]) = o \o b
  <2>1. b[1] \in S /\ b[2] \in S
    BY <1>2, <1>4
  <2>. QED  BY <1>1, <1>4, <2>1
<1>5. ASSUME Len(b) = 3 PROVE Append(Append(Append(o, b[1]), b[2]), b[3]) = o \o b
  <2>1. b[1] \in S /\ b[2] \in S /\ b[3] \in S
    BY <1>2, <1>5
  <2>. QED  BY <1>1, <1>5, <2>1
<1>6. ASSUME Len(b) = 4
      PROVE  Append(Append(Append(Append(o, b[1]), b[2]), b[3]), b[4]) = o \o b
  <2>1. b[1] \in S /\ b[2] \in S /\ b[3] \in S /\ b[4] \in S
    BY <1>2, <1>6
  <2>. QED  BY <1>1, <1>6, <2>1
<1>. QED  BY <1>3, <1>4, <1>5, <1>6

\* One letter, by the bits that are left from the letters before it.
TookLetter(e, d, x) ==
    LET acc == Shift(d.acc, x)
    IN  /\ e \in Decoder /\ e.state = "reading" /\ e.acc = acc
        /\ d.bits = 0 => e.bits = 6 /\ e.out = d.out
        /\ d.bits = 6 => e.bits = 4 /\ e.out = Append(d.out, (acc \div 16) % 256)
        /\ d.bits = 4 => e.bits = 2 /\ e.out = Append(d.out, (acc \div 4) % 256)
        /\ d.bits = 2 => e.bits = 0 /\ e.out = Append(d.out, acc % 256)

\* A letter is taken into the accumulator, and a byte leaves it when eight bits
\* are there.
LEMMA TakeLetter ==
  ASSUME NEW d \in Decoder, d.state = "reading", NEW x \in 0..63
  PROVE  TookLetter(Take(d, x), d, x)
<1>. DEFINE acc == Shift(d.acc, x)
            bits == d.bits + 6
            byte == (acc \div 2^(bits - 8)) % 256
            e == Take(d, x)
<1>1. x \in Char /\ x # Pad /\ x # Blank /\ x # Foreign
  BY DEF Char, Pad, Blank, Foreign
<1>2. e \in Decoder
  <2>. HIDE DEF e
  <2>. QED  BY <1>1, TakeType DEF e
<1>3. e = IF bits >= 8
          THEN [d EXCEPT !.acc = acc, !.bits = bits - 8, !.out = Append(@, byte)]
          ELSE [d EXCEPT !.acc = acc, !.bits = bits]
  <2>. DEFINE a == (d.acc * 64 + x) % 16384
              k == d.bits + 6
              o == (a \div 2^(k - 8)) % 256
  <2>1. e = TakeWith(d, x, a, k, o)
    BY TakeForm
  <2>2. a = acc /\ k = bits /\ o = byte
    BY DEF Shift
  <2>. HIDE DEF a, k, o, e, acc, bits, byte
  <2>3. e = TakeWith(d, x, acc, bits, byte)
    BY <2>1, <2>2
  <2>. QED  BY <1>1, <2>3 DEF TakeWith
<1>4. d.bits \in {0, 2, 4, 6}
  BY DEF Decoder
<1>5. 2^0 = 1 /\ 2^2 = 4 /\ 2^4 = 16
  OBVIOUS
<1>6. acc \in Nat
  <2>1. d.acc \in Nat /\ x \in Nat
    BY DEF Decoder, Left
  <2>2. d.acc * 64 + x \in Nat
    BY <2>1
  <2>. HIDE DEF acc
  <2>. QED  BY <2>2, Remainders DEF acc, Shift, Left
<1>. HIDE DEF acc, e
<1>7. acc \div 1 = acc
  BY <1>6
<1>8. /\ e.state = "reading" /\ e.acc = acc
      /\ bits >= 8 => e.bits = bits - 8 /\ e.out = Append(d.out, byte)
      /\ ~(bits >= 8) => e.bits = bits /\ e.out = d.out
  <2>. HIDE DEF bits, byte
  <2>1. CASE bits >= 8
    <3>1. e = [d EXCEPT !.acc = acc, !.bits = bits - 8, !.out = Append(@, byte)]
      BY <1>3, <2>1
    <3>. QED  BY <2>1, <3>1 DEF Decoder
  <2>2. CASE ~(bits >= 8)
    <3>1. e = [d EXCEPT !.acc = acc, !.bits = bits]
      BY <1>3, <2>2
    <3>. QED  BY <2>2, <3>1 DEF Decoder
  <2>. QED  BY <2>1, <2>2
<1>9. d.bits = 0 => e.bits = 6 /\ e.out = d.out
  BY <1>8
<1>10. d.bits = 6 => e.bits = 4 /\ e.out = Append(d.out, (acc \div 16) % 256)
  BY <1>5, <1>8
<1>11. d.bits = 4 => e.bits = 2 /\ e.out = Append(d.out, (acc \div 4) % 256)
  BY <1>5, <1>8
<1>12. d.bits = 2 => e.bits = 0 /\ e.out = Append(d.out, acc % 256)
  BY <1>5, <1>7, <1>8
<1>. QED  BY <1>2, <1>8, <1>9, <1>10, <1>11, <1>12 DEF TookLetter, e, acc

\* A foreign character spoils the reading.
LEMMA TakeForeign ==
  ASSUME NEW d, d.state = "reading"
  PROVE  Take(d, Foreign) = [d EXCEPT !.state = "spoilt"]
<1>. DEFINE acc == (d.acc * 64 + Foreign) % 16384
            bits == d.bits + 6
            byte == (acc \div 2^(bits - 8)) % 256
<1>1. Take(d, Foreign) = TakeWith(d, Foreign, acc, bits, byte)
  BY TakeForm
<1>2. Foreign # Blank /\ Foreign # Pad
  BY DEF Foreign, Blank, Pad
<1>. HIDE DEF acc, bits, byte
<1>. QED  BY <1>1, <1>2 DEF TakeWith

\* Padding ends the reading and changes nothing else.
LEMMA TakePad ==
  ASSUME NEW d \in Decoder, d.state # "spoilt"
  PROVE  /\ Take(d, Pad) \in Decoder /\ Take(d, Pad).out = d.out
         /\ Take(d, Pad).state = "ended"
<1>1. Pad \in Char /\ Pad # Blank /\ Pad # Foreign
  BY DEF Char, Pad, Blank, Foreign
<1>2. Take(d, Pad) \in Decoder
  BY <1>1, TakeType
<1>3. CASE d.state = "reading"
  <2>1. Take(d, Pad) = [d EXCEPT !.state = "ended"]
    <3>. DEFINE acc == (d.acc * 64 + Pad) % 16384
                bits == d.bits + 6
                byte == (acc \div 2^(bits - 8)) % 256
    <3>1. Take(d, Pad) = TakeWith(d, Pad, acc, bits, byte)
      BY TakeForm
    <3>. HIDE DEF acc, bits, byte
    <3>. QED  BY <1>1, <1>3, <3>1 DEF TakeWith
  <2>. QED  BY <1>2, <2>1 DEF Decoder
<1>4. CASE d.state = "ended"
  <2>1. Take(d, Pad) = d
    BY <1>1, <1>4 DEF Take
  <2>. QED  BY <1>2, <1>4, <2>1
<1>. QED  BY <1>3, <1>4 DEF Decoder

\* A group of characters gives its bytes back; a whole one leaves the decoder
\* between groups.
Four(d, e) == Take(Take(Take(Take(d, e[1]), e[2]), e[3]), e[4])

\* The four characters of a chunk give its bytes to a decoder with no bits
\* left.
LEMMA GroupDecodes ==
  ASSUME NEW d \in Decoder, d.state = "reading", d.bits = 0,
         NEW b \in Seq(Byte), Len(b) \in 1..3
  PROVE  LET r == Four(d, EncodeGroup(b))
         IN  /\ r \in Decoder /\ r.out = d.out \o b /\ r.state # "spoilt"
             /\ Len(b) = 3 => r.state = "reading" /\ r.bits = 0
<1>. DEFINE at(i) == IF i <= Len(b) THEN b[i] ELSE 0
            p == at(1)
            q == at(2)
            w == at(3)
            n == p * 65536 + q * 256 + w
            e == EncodeGroup(b)
            d1 == Take(d, e[1])
            d2 == Take(d1, e[2])
            d3 == Take(d2, e[3])
            d4 == Take(d3, e[4])
<1>1. p \in Byte /\ q \in Byte /\ w \in Byte
  <2>1. \A i \in 1..Len(b) : b[i] \in Byte
    OBVIOUS
  <2>2. \A i \in 1..3 : i <= Len(b) => i \in 1..Len(b)
    OBVIOUS
  <2>3. 0 \in Byte
    BY DEF Byte
  <2>. QED  BY <2>1, <2>2, <2>3
<1>2. b[1] = p /\ (Len(b) > 1 => b[2] = q) /\ (Len(b) > 2 => b[3] = w)
      /\ (Len(b) = 1 => q = 0) /\ (Len(b) < 3 => w = 0)
  OBVIOUS
<1>3. /\ e[1] = Letter1(n) /\ e[2] = Letter2(n)
      /\ e[3] = (IF Len(b) > 1 THEN Letter3(n) ELSE Pad)
      /\ e[4] = (IF Len(b) > 2 THEN Letter4(n) ELSE Pad)
  <2>1. e = <<Letter1(n), Letter2(n),
              IF Len(b) > 1 THEN Letter3(n) ELSE Pad,
              IF Len(b) > 2 THEN Letter4(n) ELSE Pad>>
    BY DEF EncodeGroup, Letter1, Letter2, Letter3, Letter4
  <2>. HIDE DEF n, e
  <2>. QED  BY <2>1
<1>. HIDE DEF p, q, w, e
<1>4. p \in 0..255 /\ q \in 0..255 /\ w \in 0..255
  BY <1>1 DEF Byte
<1>5. IsSplit(Letter1(n), Letter2(n), Letter3(n), Letter4(n), p, q, w)
  <2>1. n \in Nat /\ Joined(n, p, q, w)
    BY <1>4 DEF Joined
  <2>. HIDE DEF n
  <2>2. ThreeBytes(n, p, q, w)
    BY <1>4, <2>1 DEF ThreeBytes
  <2>. QED  BY <2>2, BytesSplit
<1>. HIDE DEF n
<1>. DEFINE x == Letter1(n)
            y == Letter2(n)
            z == Letter3(n)
            v == Letter4(n)
<1>6. x \in 0..63 /\ y \in 0..63 /\ z \in 0..63 /\ v \in 0..63
  BY <1>5 DEF IsSplit
<1>7. /\ x * 4 + y \div 16 = p
      /\ (y % 16) * 16 + z \div 4 = q
      /\ (z % 4) * 64 + v = w
  BY <1>5 DEF IsSplit
<1>8. e[1] = x /\ e[2] = y
      /\ (Len(b) > 1 => e[3] = z) /\ (Len(b) > 2 => e[4] = v)
      /\ (~(Len(b) > 1) => e[3] = Pad) /\ (~(Len(b) > 2) => e[4] = Pad)
  BY <1>3
<1>. HIDE DEF x, y, z, v
<1>9. Len(b) = 1 \/ Len(b) = 2 \/ Len(b) = 3
  OBVIOUS
<1>. HIDE DEF d1, d2, d3, d4
<1>10. d.acc \in Nat /\ d.out \in Seq(Byte)
  BY DEF Decoder, Left
\* The first two letters: one byte, and four bits left.
<1>. DEFINE a1 == Shift(d.acc, x)
            a2 == Shift(a1, y)
            a3 == Shift(a2, z)
            a4 == Shift(a3, v)
<1>11. /\ d1 \in Decoder /\ d1.state = "reading" /\ d1.acc = a1 /\ d1.bits = 6
       /\ d1.out = d.out
  <2>1. TookLetter(d1, d, x)
    BY <1>6, <1>8, TakeLetter DEF d1
  <2>. QED  BY <2>1 DEF TookLetter
<1>12. /\ d2 \in Decoder /\ d2.state = "reading" /\ d2.acc = a2 /\ d2.bits = 4
       /\ d2.out = Append(d.out, (a2 \div 16) % 256)
  <2>1. TookLetter(d2, d1, y)
    BY <1>6, <1>8, <1>11, TakeLetter DEF d2
  <2>. HIDE DEF a1
  <2>. QED  BY <1>11, <2>1 DEF TookLetter
<1>13. (a2 \div 16) % 256 = p /\ a2 % 16 = y % 16
  <2>1. AfterTwo(a2, x, y)
    BY <1>6, <1>10, FirstByte
  <2>. HIDE DEF a2
  <2>. QED  BY <1>7, <2>1 DEF AfterTwo
<1>14. a2 \in Nat
  BY <1>12 DEF Decoder, Left
<1>. HIDE DEF a1, a2
<1>15. AfterThree(a3, a2, z)
  BY <1>6, <1>14, NextBytes
\* The third: one byte more, and two bits left; the fourth: the last byte.
<1>16. ASSUME Len(b) > 1
       PROVE  /\ d3 \in Decoder /\ d3.state = "reading" /\ d3.acc = a3 /\ d3.bits = 2
              /\ d3.out = Append(d2.out, q)
  <2>1. TookLetter(d3, d2, z)
    BY <1>6, <1>8, <1>12, <1>16, TakeLetter DEF d3
  <2>. HIDE DEF a3
  <2>2. (a3 \div 4) % 256 = q
    BY <1>7, <1>13, <1>15 DEF AfterThree
  <2>. QED  BY <1>12, <2>1, <2>2 DEF TookLetter, a3
<1>. HIDE DEF a3
<1>17. ASSUME Len(b) > 2
       PROVE  /\ d4 \in Decoder /\ d4.state = "reading" /\ d4.bits = 0
              /\ d4.out = Append(d3.out, w)
  <2>0. Len(b) > 1
    BY <1>17
  <2>1. TookLetter(d4, d3, v)
    BY <1>6, <1>8, <1>16, <1>17, <2>0, TakeLetter DEF d4
  <2>2. a3 \in Nat
    BY <1>16, <2>0 DEF Decoder, Left
  <2>3. AfterFour(a4, a3, v)
    BY <1>6, <2>2, NextBytes
  <2>. HIDE DEF a4
  <2>4. a4 % 256 = w
    BY <1>7, <1>15, <2>3 DEF AfterThree, AfterFour
  <2>. QED  BY <1>16, <2>0, <2>1, <2>4 DEF TookLetter, a4
<1>18. Four(d, e) = d4
  BY DEF Four, d1, d2, d3, d4
<1>19. /\ Len(b) = 1 => Append(d.out, b[1]) = d.out \o b
       /\ Len(b) = 2 => Append(Append(d.out, b[1]), b[2]) = d.out \o b
       /\ Len(b) = 3 => Append(Append(Append(d.out, b[1]), b[2]), b[3]) = d.out \o b
  BY <1>10, AppendAll
<1>20. CASE Len(b) = 1
  <2>1. /\ d3 \in Decoder /\ d3.out = d2.out /\ d3.state = "ended"
    BY <1>8, <1>12, <1>20, TakePad DEF d3
  <2>2. /\ d4 \in Decoder /\ d4.out = d3.out /\ d4.state = "ended"
    BY <1>8, <1>20, <2>1, TakePad DEF d4
  <2>. QED  BY <1>2, <1>12, <1>13, <1>18, <1>19, <1>20, <2>1, <2>2 DEF e
<1>21. CASE Len(b) = 2
  <2>0. Len(b) > 1 /\ ~(Len(b) > 2)
    BY <1>21
  <2>1. /\ d4 \in Decoder /\ d4.out = d3.out /\ d4.state = "ended"
    <3>1. d3 \in Decoder /\ d3.state # "spoilt" /\ e[4] = Pad
      BY <1>8, <1>16, <2>0
    <3>2. d4 = Take(d3, Pad)
      BY <3>1 DEF d4
    <3>. QED  BY <3>1, <3>2, TakePad
  <2>2. b[1] = p /\ b[2] = q /\ d2.out = Append(d.out, p) /\ d3.out = Append(d2.out, q)
    BY <1>2, <1>12, <1>13, <1>16, <2>0
  <2>3. Append(Append(d.out, p), q) = d.out \o b
    BY <1>19, <1>21, <2>2
  <2>. QED  BY <1>18, <1>21, <2>1, <2>2, <2>3 DEF e
<1>22. CASE Len(b) = 3
  <2>0. Len(b) > 1 /\ Len(b) > 2
    BY <1>22
  <2>1. /\ b[1] = p /\ b[2] = q /\ b[3] = w
        /\ d2.out = Append(d.out, p) /\ d3.out = Append(d2.out, q)
        /\ d4 \in Decoder /\ d4.state = "reading" /\ d4.bits = 0
        /\ d4.out = Append(d3.out, w)
    BY <1>2, <1>12, <1>13, <1>16, <1>17, <2>0
  <2>2. Append(Append(Append(d.out, p), q), w) = d.out \o b
    BY <1>19, <1>22, <2>1
  <2>. QED  BY <1>18, <1>22, <2>1, <2>2 DEF e
<1>. QED  BY <1>9, <1>20, <1>21, <1>22

\* Four characters more are four turns.
LEMMA DecodeFour ==
  ASSUME NEW chars \in Seq(Char), NEW e \in Seq(Char), Len(e) = 4
  PROVE  Base64Decode(chars \o e) = Four(Base64Decode(chars), e)
<1>. DEFINE s1 == Append(chars, e[1])
            s2 == Append(s1, e[2])
            s3 == Append(s2, e[3])
            s4 == Append(s3, e[4])
<1>1. e[1] \in Char /\ e[2] \in Char /\ e[3] \in Char /\ e[4] \in Char
  <2>1. 1 \in 1..Len(e) /\ 2 \in 1..Len(e) /\ 3 \in 1..Len(e) /\ 4 \in 1..Len(e)
    OBVIOUS
  <2>. QED  BY <2>1, ElementType
<1>2. s4 = chars \o e
  BY AppendAll
<1>3. s1 \in Seq(Char)
  BY <1>1
<1>. HIDE DEF s1
<1>4. s2 \in Seq(Char)
  BY <1>1, <1>3
<1>. HIDE DEF s2
<1>5. s3 \in Seq(Char)
  BY <1>1, <1>4
<1>. HIDE DEF s3
<1>6. Base64Decode(s1) = Take(Base64Decode(chars), e[1])
  BY <1>1, DecodeAppend DEF s1
<1>7. Base64Decode(s2) = Take(Base64Decode(s1), e[2])
  BY <1>1, <1>3, DecodeAppend DEF s2
<1>8. Base64Decode(s3) = Take(Base64Decode(s2), e[3])
  BY <1>1, <1>4, DecodeAppend DEF s3
<1>9. Base64Decode(s4) = Take(Base64Decode(s3), e[4])
  BY <1>1, <1>5, DecodeAppend
<1>. HIDE DEF s4
<1>. QED  BY <1>2, <1>6, <1>7, <1>8, <1>9 DEF Four

\* base64_decode gives back what base64_encode was given.
THEOREM DecodeEncodes ==
  ASSUME NEW data \in Seq(Byte)
  PROVE  /\ Base64Decode(Base64Encode(data)).out = data
         /\ Base64Decode(Base64Encode(data)).state # "spoilt"
<1>. DEFINE c == Chunks(data, 3)
            g == Groups(data)
            n == Len(g)
            E(i) == FlattenSeq(SubSeq(g, 1, i))
            D(i) == Base64Decode(E(i))
            cut(i) == Cut(data, 3, i)
<1>1. /\ g \in Seq(Seq(Letter)) /\ n = Len(c) /\ n \in Nat
      /\ \A i \in 1..n : g[i] = EncodeGroup(c[i]) /\ Len(g[i]) = 4
      /\ Base64Encode(data) = FlattenSeq(g)
  <2>1. /\ g \in Seq(Seq(Letter)) /\ n = Len(c)
        /\ \A i \in 1..n : g[i] = EncodeGroup(c[i]) /\ Len(g[i]) = 4
        /\ Base64Encode(data) = FlattenSeq(g)
    BY GroupsType
  <2>. HIDE DEF g
  <2>. QED  BY <2>1
<1>2. \A i \in 1..n : /\ Len(c[i]) \in 1..3 /\ c[i] \in Seq(Byte)
                      /\ i # n => Len(c[i]) = 3
  <2>1. ASSUME NEW i \in 1..n
        PROVE  Len(c[i]) \in 1..3 /\ c[i] \in Seq(Byte) /\ (i # n => Len(c[i]) = 3)
    <3>1. 3 \in Nat \ {0} /\ i \in 1..Len(c)
      BY <1>1
    <3>2. Len(c[i]) \in 1..3 /\ c[i] \in Seq(Byte)
      BY <3>1, ChunkLen
    <3>3. ASSUME i # Len(c) PROVE Len(c[i]) = 3
      BY <3>1, <3>3, ChunkFull
    <3>. HIDE DEF n, c
    <3>. QED  BY <1>1, <3>2, <3>3
  <2>. QED  BY <2>1
<1>3. /\ \A i \in 1..n :
            /\ c[i] = SubSeq(data, (i - 1) * 3 + 1, cut(i))
            /\ (i - 1) * 3 \in Nat /\ cut(i - 1) = (i - 1) * 3
            /\ cut(i) \in Nat /\ cut(i) <= Len(data) /\ cut(i) > (i - 1) * 3
      /\ cut(n) = Len(data)
  <2>. DEFINE k == (Len(data) + 3 - 1) \div 3
  <2>1. /\ Len(c) = k
        /\ \A i \in 1..k :
              /\ c[i] = SubSeq(data, (i - 1) * 3 + 1, cut(i))
              /\ (i - 1) * 3 \in Nat /\ cut(i - 1) = (i - 1) * 3
              /\ cut(i) \in Nat /\ cut(i) <= Len(data) /\ cut(i) > (i - 1) * 3
        /\ cut(k) = Len(data)
    <3>1. 3 \in Nat \ {0}
      OBVIOUS
    <3>. QED  BY <3>1, ChunksFacts
  <2>. HIDE DEF k, c, n, cut
  <2>. QED  BY <1>1, <2>1
<1>. HIDE DEF c, cut
<1>4. \A x \in Seq(Letter) : x \in Seq(Char)
  BY DEF Letter, Char
<1>5. ASSUME NEW i \in 0..n
      PROVE  SubSeq(g, 1, i) \in Seq(Seq(Letter)) /\ E(i) \in Seq(Letter) /\ E(i) \in Seq(Char)
  <2>. DEFINE V == Seq(Letter)
              s == SubSeq(g, 1, i)
  <2>1. s \in Seq(V)
    <3>1. g \in Seq(V)
      BY <1>1
    <3>. HIDE DEF V, g
    <3>. QED  BY <3>1, PrefixFacts
  <2>. HIDE DEF s
  <2>2. FlattenSeq(s) \in Seq(Letter)
    BY <2>1, FlattenType
  <2>. QED  BY <1>4, <2>1, <2>2 DEF s
<1>6. ASSUME NEW i \in 1..n
      PROVE  D(i) = Four(D(i - 1), EncodeGroup(c[i]))
  <2>. DEFINE s == SubSeq(g, 1, i - 1)
              e == g[i]
              V == Seq(Letter)
  <2>1. i - 1 \in 0..n
    BY <1>1
  <2>2. SubSeq(g, 1, i) = Append(s, e)
    <3>1. g \in Seq(V)
      BY <1>1
    <3>. HIDE DEF V, g
    <3>. QED  BY <3>1, PrefixFacts
  <2>3. e \in Seq(Letter) /\ Len(e) = 4 /\ e = EncodeGroup(c[i])
    <3>1. g \in Seq(V)
      BY <1>1
    <3>2. e \in V
      <4>. HIDE DEF V, g
      <4>. QED  BY <3>1
    <3>. HIDE DEF g
    <3>. QED  BY <1>1, <3>2
  <2>4. s \in Seq(Seq(Letter)) /\ FlattenSeq(s) \in Seq(Char)
    BY <1>5, <2>1
  <2>. HIDE DEF s, e, g
  <2>5. FlattenSeq(Append(s, e)) = FlattenSeq(s) \o e
    BY <2>3, <2>4, FlattenAppend
  <2>6. e \in Seq(Char)
    BY <1>4, <2>3
  <2>7. Base64Decode(FlattenSeq(s) \o e) = Four(Base64Decode(FlattenSeq(s)), e)
    BY <2>3, <2>4, <2>6, DecodeFour
  <2>. QED  BY <2>2, <2>3, <2>5, <2>7 DEF s
<1>. HIDE DEF D
<1>. DEFINE Good(i) == /\ D(i) \in Decoder /\ D(i).out = SubSeq(data, 1, cut(i))
                       /\ D(i).state # "spoilt"
                       /\ i # n => D(i).state = "reading" /\ D(i).bits = 0
<1>7. Good(0)
  <2>1. E(0) = <<>>
    <3>1. SubSeq(g, 1, 0) = <<>>
      <4>. DEFINE V == Seq(Letter)
      <4>1. g \in Seq(V)
        BY <1>1
      <4>. HIDE DEF V, g
      <4>. QED  BY <4>1, PrefixFacts
    <3>. QED  BY <3>1, FlattenEmpty
  <2>2. D(0) = Fresh
    BY <2>1, DecodeEmpty DEF D
  <2>3. cut(0) = 0
    BY DEF cut, Cut
  <2>4. Fresh \in Decoder /\ Fresh.out = <<>> /\ Fresh.state = "reading" /\ Fresh.bits = 0
    BY DEF Fresh, Decoder, Left
  <2>5. SubSeq(data, 1, 0) = <<>>
    BY PrefixFacts
  <2>. QED  BY <2>2, <2>3, <2>4, <2>5
<1>8. ASSUME NEW i \in 1..n, Good(i - 1)
      PROVE  Good(i)
  <2>. DEFINE d == D(i - 1)
              b == c[i]
  <2>1. d \in Decoder /\ d.out = SubSeq(data, 1, (i - 1) * 3)
        /\ d.state = "reading" /\ d.bits = 0
    <3>1. i - 1 # n
      BY <1>1
    <3>. QED  BY <1>3, <1>8, <3>1
  <2>2. b \in Seq(Byte) /\ Len(b) \in 1..3 /\ (i # n => Len(b) = 3)
    BY <1>2
  <2>. HIDE DEF d, b
  <2>3. LET r == Four(d, EncodeGroup(b))
        IN  /\ r \in Decoder /\ r.out = d.out \o b /\ r.state # "spoilt"
            /\ Len(b) = 3 => r.state = "reading" /\ r.bits = 0
    BY <2>1, <2>2, GroupDecodes
  <2>4. D(i) = Four(d, EncodeGroup(b))
    BY <1>6 DEF d, b
  <2>5. d.out \o b = SubSeq(data, 1, cut(i))
    <3>. DEFINE from == (i - 1) * 3
                to == cut(i)
    <3>1. from \in Nat /\ to \in Nat /\ from <= to /\ to <= Len(data)
          /\ b = SubSeq(data, from + 1, to)
      BY <1>3 DEF b
    <3>2. d.out = SubSeq(data, 1, from)
      BY <2>1
    <3>. HIDE DEF from, to
    <3>3. SubSeq(data, 1, from) \o SubSeq(data, from + 1, to) = SubSeq(data, 1, to)
      BY <3>1, SlicesJoin
    <3>. QED  BY <3>1, <3>2, <3>3 DEF to
  <2>. QED  BY <2>2, <2>3, <2>4, <2>5
<1>9. Good(n)
  <2>. DEFINE T == {i \in 0..n : Good(i)}
  <2>. HIDE DEF Good
  <2>1. 0 \in T
    BY <1>1, <1>7
  <2>2. ASSUME NEW i \in 1..n, i - 1 \in T
        PROVE  i \in T
    BY <1>1, <1>8, <2>2
  <2>3. \A i \in 0..n : i \in T
    <3>. HIDE DEF T, n
    <3>. QED  BY <1>1, <2>1, <2>2, CountUp
  <2>4. n \in 0..n
    BY <1>1
  <2>. HIDE DEF n
  <2>. QED  BY <2>3, <2>4
<1>10. E(n) = Base64Encode(data)
  <2>1. SubSeq(g, 1, n) = g
    <3>. DEFINE V == Seq(Letter)
    <3>1. g \in Seq(V)
      BY <1>1
    <3>. HIDE DEF V, g
    <3>. QED  BY <3>1, PrefixFacts
  <2>. QED  BY <1>1, <2>1
<1>11. SubSeq(data, 1, cut(n)) = data
  <2>1. SubSeq(data, 1, Len(data)) = data
    BY PrefixFacts
  <2>. QED  BY <1>3, <2>1
<1>. HIDE DEF n
<1>. QED  BY <1>9, <1>10, <1>11 DEF D

-----------------------------------------------------------------------------
(***************************************************************************)
(* to_pem, and the way back.                                               *)
(***************************************************************************)

\* The lines to_pem writes are lines.
LEMMA LineFacts ==
  /\ Begin \in Line /\ End \in Line
  /\ \A x \in Seq(Char) : Text(x) \in Line
  /\ \A x \in Seq(Letter) : x \in Seq(Char)
<1>1. <<>> \in Seq(Char)
  OBVIOUS
<1>2. Begin \in Line /\ End \in Line
  BY <1>1 DEF Begin, End, Line
<1>3. \A x \in Seq(Char) : Text(x) \in Line
  BY DEF Text, Line
<1>4. \A x \in Seq(Letter) : x \in Seq(Char)
  BY DEF Letter, Char
<1>. QED  BY <1>2, <1>3, <1>4

\* The text lines of to_pem.
TextLines(der) ==
    LET c == Chunks(Base64Encode(der), LineWidth)
    IN  [i \in DOMAIN c |-> Text(c[i])]

\* Between its markers to_pem writes one text line for each chunk.
LEMMA TextLinesFacts ==
  ASSUME NEW der \in Seq(Byte)
  PROVE  LET c == Chunks(Base64Encode(der), LineWidth)
         IN  /\ TextLines(der) \in Seq(Line) /\ Len(TextLines(der)) = Len(c)
             /\ \A i \in 1..Len(c) : TextLines(der)[i] = Text(c[i]) /\ c[i] \in Seq(Char)
             /\ ToPem(der) = <<Begin>> \o TextLines(der) \o <<End>>
<1>. DEFINE chars == Base64Encode(der)
            c == Chunks(chars, LineWidth)
            n == Len(c)
            t == TextLines(der)
<1>1. chars \in Seq(Letter) /\ LineWidth \in Nat \ {0}
  BY GroupsType, PemAssumption
<1>2. c \in Seq(Seq(Letter))
  <2>. HIDE DEF chars
  <2>. QED  BY <1>1, ChunksFacts
<1>3. t = [i \in DOMAIN c |-> Text(c[i])] /\ ToPem(der) = <<Begin>> \o t \o <<End>>
  BY DEF TextLines, ToPem
<1>. HIDE DEF c, t
<1>4. n \in Nat /\ DOMAIN c = 1..n
  BY <1>2
<1>5. \A i \in 1..n : c[i] \in Seq(Char)
  <2>1. ASSUME NEW i \in 1..n PROVE c[i] \in Seq(Letter)
    <3>. DEFINE V == Seq(Letter)
    <3>1. c \in Seq(V)
      BY <1>2
    <3>. HIDE DEF V
    <3>2. c[i] \in V
      BY <3>1, ElementType
    <3>. QED  BY <3>2 DEF V
  <2>. QED  BY <2>1, LineFacts
<1>. HIDE DEF n
<1>6. t \in [1..n -> Line]
  BY <1>3, <1>4, <1>5, LineFacts
<1>7. t \in Seq(Line) /\ Len(t) = n
  BY <1>4, <1>6, FunctionIsSeq
<1>8. \A i \in 1..n : t[i] = Text(c[i])
  BY <1>3, <1>4
<1>. QED  BY <1>3, <1>5, <1>7, <1>8 DEF n, c, t

\* to_pem writes lines.
LEMMA ToPemType ==
  ASSUME NEW der \in Seq(Byte)
  PROVE  ToPem(der) \in Seq(Line)
<1>. DEFINE t == TextLines(der)
<1>1. t \in Seq(Line) /\ ToPem(der) = <<Begin>> \o t \o <<End>>
  BY TextLinesFacts
<1>2. <<Begin>> \in Seq(Line) /\ <<End>> \in Seq(Line)
  BY LineFacts
<1>. HIDE DEF t
<1>. DEFINE u == <<Begin>> \o t
<1>3. u \in Seq(Line)
  BY <1>1, <1>2, ConcatType
<1>. HIDE DEF u
<1>4. u \o <<End>> \in Seq(Line)
  BY <1>2, <1>3, ConcatType
<1>. QED  BY <1>1, <1>4 DEF u

\* The reader in the middle of a block.
Within(body, out) == [open |-> TRUE, body |-> body, out |-> out]

\* The first marker opens an empty block.
LEMMA ScanBegin ==
  ASSUME NEW p \in Reader
  PROVE  Scan(p, Begin) = Within(<<>>, p.out)
<1>1. Begin.kind = "begin"
  BY DEF Begin
<1>2. Scan(p, Begin) = [p EXCEPT !.open = TRUE, !.body = <<>>]
  BY <1>1 DEF Scan
<1>. QED  BY <1>2 DEF Reader, Within

\* A text line inside a block is added to its body.
LEMMA ScanText ==
  ASSUME NEW body, NEW out, NEW chars
  PROVE  Scan(Within(body, out), Text(chars)) = Within(body \o chars, out)
<1>1. Text(chars).kind = "text" /\ Text(chars).chars = chars
  BY DEF Text
<1>2. Within(body, out).open = TRUE /\ Within(body, out).body = body
  BY DEF Within
<1>3. Scan(Within(body, out), Text(chars)) = [Within(body, out) EXCEPT !.body = @ \o chars]
  BY <1>1, <1>2 DEF Scan
<1>. QED  BY <1>3 DEF Within

\* Outside a block a line of text is passed over.
LEMMA ScanOutside ==
  ASSUME NEW p \in Reader, ~p.open, NEW chars
  PROVE  Scan(p, Text(chars)) = p
<1>1. Text(chars).kind = "text"
  BY DEF Text
<1>. QED  BY <1>1 DEF Scan

\* The last marker closes the block and keeps what it decodes to.
LEMMA ScanEnd ==
  ASSUME NEW body, NEW out, Base64Decode(body).state # "spoilt"
  PROVE  Scan(Within(body, out), End) =
            [open |-> FALSE, body |-> <<>>, out |-> Append(out, Base64Decode(body).out)]
<1>1. End.kind = "end"
  BY DEF End
<1>. DEFINE p == Within(body, out)
<1>2. p.open = TRUE /\ p.body = body /\ p.out = out
  BY DEF Within
<1>3. Scan(p, End) = [p EXCEPT !.open = FALSE, !.body = <<>>,
                               !.out = IF p.open /\ Base64Decode(p.body).state # "spoilt"
                                       THEN Append(@, Base64Decode(p.body).out) ELSE @]
  BY <1>1 DEF Scan
<1>4. Scan(p, End) = [p EXCEPT !.open = FALSE, !.body = <<>>,
                               !.out = Append(out, Base64Decode(body).out)]
  BY <1>2, <1>3
<1>. QED  BY <1>4 DEF Within

\* Joining a sequence one element at a time.
LEMMA ConcatStep ==
  ASSUME NEW S, NEW s \in Seq(S), NEW t \in Seq(S)
  PROVE  /\ s \o SubSeq(t, 1, 0) = s
         /\ \A i \in 0..Len(t) : s \o SubSeq(t, 1, i) \in Seq(S)
         /\ \A i \in 1..Len(t) :
               s \o SubSeq(t, 1, i) = Append(s \o SubSeq(t, 1, i - 1), t[i])
OBVIOUS

\* Joining a block one part at a time.
LEMMA ConcatBlock ==
  ASSUME NEW S, NEW s \in Seq(S), NEW t \in Seq(S), NEW a \in S, NEW z \in S
  PROVE  s \o (<<a>> \o t \o <<z>>) = Append(Append(s, a) \o t, z)
OBVIOUS

\* The text lines of a block, inside one, are added to its body.
LEMMA TextsScan ==
  ASSUME NEW lines \in Seq(Line), NEW der \in Seq(Byte), Scanned(lines).open
  PROVE  Scanned(lines \o TextLines(der)) =
            Within(Scanned(lines).body \o Base64Encode(der), Scanned(lines).out)
<1>. DEFINE chars == Base64Encode(der)
            c == Chunks(chars, LineWidth)
            t == TextLines(der)
            n == Len(c)
            body == Scanned(lines).body
            out == Scanned(lines).out
            cut(i) == Cut(chars, LineWidth, i)
            L(i) == lines \o SubSeq(t, 1, i)
<1>1. chars \in Seq(Letter) /\ LineWidth \in Nat \ {0}
  BY GroupsType, PemAssumption
<1>2. /\ n \in Nat
      /\ \A i \in 1..n :
            /\ c[i] = SubSeq(chars, (i - 1) * LineWidth + 1, cut(i))
            /\ (i - 1) * LineWidth \in Nat /\ cut(i - 1) = (i - 1) * LineWidth
            /\ cut(i) \in Nat /\ cut(i) <= Len(chars) /\ cut(i) > (i - 1) * LineWidth
      /\ cut(n) = Len(chars)
  <2>. DEFINE k == (Len(chars) + LineWidth - 1) \div LineWidth
  <2>. HIDE DEF chars
  <2>1. /\ Len(c) = k /\ k \in Nat
        /\ \A i \in 1..k :
              /\ c[i] = SubSeq(chars, (i - 1) * LineWidth + 1, cut(i))
              /\ (i - 1) * LineWidth \in Nat /\ cut(i - 1) = (i - 1) * LineWidth
              /\ cut(i) \in Nat /\ cut(i) <= Len(chars) /\ cut(i) > (i - 1) * LineWidth
        /\ cut(k) = Len(chars)
    BY <1>1, ChunksFacts
  <2>. HIDE DEF k, c, cut
  <2>. QED  BY <2>1
<1>3. /\ t \in Seq(Line) /\ Len(t) = n
      /\ \A i \in 1..n : t[i] = Text(c[i])
  BY TextLinesFacts
<1>4. Scanned(lines) \in Reader
  BY ScannedType
<1>5. Scanned(lines) = Within(body, out) /\ body \in Seq(Char)
  BY <1>4 DEF Reader, Within
<1>6. chars \in Seq(Char)
  BY <1>1, LineFacts
<1>7. /\ L(0) = lines
      /\ \A i \in 0..n : L(i) \in Seq(Line)
      /\ \A i \in 1..n : L(i) = Append(L(i - 1), t[i]) /\ t[i] \in Line
  <2>. HIDE DEF t
  <2>1. L(0) = lines
    BY <1>3, ConcatStep
  <2>2. \A i \in 0..Len(t) : L(i) \in Seq(Line)
    BY <1>3, ConcatStep
  <2>3. \A i \in 1..Len(t) : L(i) = Append(L(i - 1), t[i])
    BY <1>3, ConcatStep
  <2>4. \A i \in 1..Len(t) : t[i] \in Line
    BY <1>3, ElementType
  <2>. HIDE DEF L, n
  <2>. QED  BY <1>3, <2>1, <2>2, <2>3, <2>4
<1>. HIDE DEF t, c, L, cut, chars, n, body, out
<1>. DEFINE Good(i) == Scanned(L(i)) = Within(body \o SubSeq(chars, 1, cut(i)), out)
<1>8. Good(0)
  <2>1. cut(0) = 0
    <3>1. 0 * LineWidth = 0 /\ Len(chars) \in Nat
      BY <1>1
    <3>. QED  BY <3>1 DEF cut, Cut
  <2>2. SubSeq(chars, 1, 0) = <<>>
    BY <1>1, PrefixFacts
  <2>3. body \o <<>> = body
    BY <1>5
  <2>. QED  BY <1>5, <1>7, <2>1, <2>2, <2>3
<1>9. ASSUME NEW i \in 1..n, Good(i - 1)
      PROVE  Good(i)
  <2>1. i - 1 \in 0..n
    BY <1>2
  <2>2. Scanned(L(i)) = Scan(Scanned(L(i - 1)), Text(c[i]))
    <3>1. L(i - 1) \in Seq(Line) /\ L(i) = Append(L(i - 1), t[i]) /\ t[i] \in Line
      BY <1>7, <2>1
    <3>. QED  BY <1>3, <3>1, ScannedAppend
  <2>. DEFINE from == (i - 1) * LineWidth
              to == cut(i)
              front == SubSeq(chars, 1, from)
  <2>3. from \in Nat /\ to \in Nat /\ from <= to /\ to <= Len(chars)
        /\ c[i] = SubSeq(chars, from + 1, to) /\ cut(i - 1) = from
    BY <1>2
  <2>4. Scanned(L(i)) = Within((body \o front) \o c[i], out)
    BY <1>9, <2>2, <2>3, ScanText
  <2>5. front \o c[i] = SubSeq(chars, 1, to)
    <3>. HIDE DEF from, to
    <3>. QED  BY <1>1, <2>3, SlicesJoin DEF front
  <2>6. front \in Seq(Char) /\ c[i] \in Seq(Char)
    <3>. HIDE DEF from, to
    <3>1. SubSeq(chars, 1, from) \in Seq(Char) /\ SubSeq(chars, from + 1, to) \in Seq(Char)
      BY <1>6, <2>3, SliceType
    <3>. QED  BY <2>3, <3>1 DEF front
  <2>7. (body \o front) \o c[i] = body \o (front \o c[i])
    <3>. DEFINE u == c[i]
    <3>1. body \in Seq(Char) /\ front \in Seq(Char) /\ u \in Seq(Char)
      BY <1>5, <2>6
    <3>. HIDE DEF front, u
    <3>2. body \o (front \o u) = (body \o front) \o u
      BY <3>1, ConcatAssoc
    <3>. QED  BY <3>2 DEF u
  <2>. QED  BY <2>4, <2>5, <2>7 DEF to
<1>10. Good(n)
  <2>. DEFINE T == {i \in 0..n : Good(i)}
  <2>. HIDE DEF Good
  <2>1. 0 \in T
    BY <1>2, <1>8
  <2>2. ASSUME NEW i \in 1..n, i - 1 \in T
        PROVE  i \in T
    BY <1>2, <1>9, <2>2
  <2>3. \A i \in 0..n : i \in T
    <3>. HIDE DEF T
    <3>. QED  BY <1>2, <2>1, <2>2, CountUp
  <2>4. n \in 0..n
    BY <1>2
  <2>. QED  BY <2>3, <2>4
<1>11. Scanned(L(n)) = Within(body \o chars, out)
  <2>1. SubSeq(chars, 1, Len(chars)) = chars
    BY <1>1, PrefixFacts
  <2>. QED  BY <1>2, <1>10, <2>1
<1>12. L(n) = lines \o t
  <2>1. SubSeq(t, 1, n) = t
    BY <1>3, PrefixFacts
  <2>. QED  BY <2>1 DEF L
<1>. QED  BY <1>11, <1>12 DEF t, chars, body, out

\* Outside one they are passed over.
LEMMA TextsPassed ==
  ASSUME NEW lines \in Seq(Line), NEW der \in Seq(Byte), ~Scanned(lines).open
  PROVE  Scanned(lines \o TextLines(der)) = Scanned(lines)
<1>. DEFINE t == TextLines(der)
            n == Len(t)
            c == Chunks(Base64Encode(der), LineWidth)
            L(i) == lines \o SubSeq(t, 1, i)
<1>1. /\ t \in Seq(Line) /\ n \in Nat
      /\ \A i \in 1..n : t[i] = Text(c[i])
  BY TextLinesFacts
<1>2. /\ L(0) = lines
      /\ \A i \in 0..n : L(i) \in Seq(Line)
      /\ \A i \in 1..n : L(i) = Append(L(i - 1), t[i]) /\ t[i] \in Line
  <2>. HIDE DEF t
  <2>1. L(0) = lines /\ \A i \in 0..n : L(i) \in Seq(Line)
    BY <1>1, ConcatStep
  <2>2. \A i \in 1..n : L(i) = Append(L(i - 1), t[i])
    BY <1>1, ConcatStep
  <2>3. \A i \in 1..n : t[i] \in Line
    BY <1>1, ElementType
  <2>. QED  BY <2>1, <2>2, <2>3
<1>3. L(n) = lines \o t
  <2>1. SubSeq(t, 1, n) = t
    BY <1>1, PrefixFacts
  <2>. QED  BY <2>1
<1>4. Scanned(lines) \in Reader
  BY ScannedType
<1>. HIDE DEF t, n, c, L
<1>. DEFINE T == {i \in 0..n : Scanned(L(i)) = Scanned(lines)}
<1>5. 0 \in T
  BY <1>1, <1>2
<1>6. ASSUME NEW i \in 1..n, i - 1 \in T
      PROVE  i \in T
  <2>1. i - 1 \in 0..n /\ i \in 0..n
    BY <1>1
  <2>2. Scanned(L(i)) = Scan(Scanned(L(i - 1)), Text(c[i]))
    BY <1>1, <1>2, <2>1, ScannedAppend
  <2>3. Scanned(L(i)) = Scanned(lines)
    BY <1>4, <1>6, <2>2, ScanOutside
  <2>. QED  BY <2>1, <2>3
<1>7. n \in T
  <2>. HIDE DEF T
  <2>1. \A i \in 0..n : i \in T
    BY <1>1, <1>5, <1>6, CountUp
  <2>. QED  BY <1>1, <2>1
<1>. QED  BY <1>3, <1>7 DEF t

\* A block that to_pem wrote is read whole, whatever stands before it.
THEOREM ReadsBlock ==
  ASSUME NEW lines \in Seq(Line), NEW der \in Seq(Byte)
  PROVE  Scanned(lines \o ToPem(der)) =
            [open |-> FALSE, body |-> <<>>, out |-> Append(Scanned(lines).out, der)]
<1>. DEFINE chars == Base64Encode(der)
            t == TextLines(der)
            out == Scanned(lines).out
            begun == Append(lines, Begin)
            inside == begun \o t
<1>1. chars \in Seq(Letter)
  BY GroupsType
<1>2. t \in Seq(Line) /\ ToPem(der) = <<Begin>> \o t \o <<End>>
  BY TextLinesFacts
<1>3. Scanned(lines) \in Reader /\ Begin \in Line /\ End \in Line
  BY ScannedType, LineFacts
<1>4. begun \in Seq(Line)
  BY <1>3
<1>5. Scanned(begun) = Within(<<>>, out)
  BY <1>3, ScannedAppend, ScanBegin
<1>6. Scanned(begun).open /\ Scanned(begun).body = <<>> /\ Scanned(begun).out = out
  BY <1>5 DEF Within
<1>. HIDE DEF begun, t, chars, out
<1>7. Scanned(inside) = Within(chars, out)
  <2>1. Scanned(inside) = Within(<<>> \o chars, out)
    BY <1>4, <1>6, TextsScan DEF t, chars
  <2>2. <<>> \o chars = chars
    BY <1>1
  <2>. QED  BY <2>1, <2>2
<1>8. inside \in Seq(Line)
  BY <1>2, <1>4, ConcatType
<1>9. Base64Decode(chars).state # "spoilt" /\ Base64Decode(chars).out = der
  BY DecodeEncodes DEF chars
<1>10. Scanned(Append(inside, End)) = Scan(Within(chars, out), End)
  BY <1>3, <1>7, <1>8, ScannedAppend
<1>11. Scanned(Append(inside, End)) =
         [open |-> FALSE, body |-> <<>>, out |-> Append(out, der)]
  BY <1>9, <1>10, ScanEnd
<1>12. lines \o ToPem(der) = Append(inside, End)
  <2>1. t \in Seq(Line) /\ Begin \in Line /\ End \in Line
    BY <1>2, <1>3
  <2>2. lines \o (<<Begin>> \o t \o <<End>>) = Append(Append(lines, Begin) \o t, End)
    BY <2>1, ConcatBlock
  <2>. QED  BY <1>2, <2>2 DEF begun
<1>. QED  BY <1>11, <1>12 DEF out
-----------------------------------------------------------------------------
(***************************************************************************)
(* What accidents leave.                                                   *)
(***************************************************************************)

\* A character more takes nothing of what has been decoded away, and what is
\* spoilt stays so.
LEMMA TakeExtends ==
  ASSUME NEW d \in Decoder, NEW c \in Char
  PROVE  /\ Take(d, c).out = d.out
            \/ \E b \in Byte : Take(d, c).out = Append(d.out, b)
         /\ d.state = "spoilt" => Take(d, c).state = "spoilt"
<1>. DEFINE acc == (d.acc * 64 + c) % 16384
            bits == d.bits + 6
            byte == (acc \div 2^(bits - 8)) % 256
<1>1. Take(d, c) \in Decoder
  BY TakeType
<1>4. Take(d, c) = TakeWith(d, c, acc, bits, byte)
  BY TakeForm
<1>5. Blank # Pad /\ Blank # Foreign /\ Pad # Foreign
  BY DEF Blank, Pad, Foreign
<1>2. \/ Take(d, c) = d
      \/ d.state # "spoilt" /\ Take(d, c).out = d.out
      \/ d.state # "spoilt" /\ Take(d, c).out = Append(d.out, byte)
  <2>. HIDE DEF acc, bits, byte
  <2>1. CASE d.state # "reading" \/ c = Blank
    BY <1>4, <2>1 DEF TakeWith
  <2>2. CASE d.state = "reading" /\ c = Pad
    <3>1. Take(d, c) = [d EXCEPT !.state = "ended"]
      BY <1>4, <1>5, <2>2 DEF TakeWith
    <3>. QED  BY <2>2, <3>1 DEF Decoder
  <2>3. CASE d.state = "reading" /\ c = Foreign
    <3>1. Take(d, c) = [d EXCEPT !.state = "spoilt"]
      BY <1>4, <1>5, <2>3 DEF TakeWith
    <3>. QED  BY <2>3, <3>1 DEF Decoder
  <2>4. CASE d.state = "reading" /\ c # Blank /\ c # Pad /\ c # Foreign
    <3>1. Take(d, c) =
            IF bits >= 8
            THEN [d EXCEPT !.acc = acc, !.bits = bits - 8, !.out = Append(@, byte)]
            ELSE [d EXCEPT !.acc = acc, !.bits = bits]
      BY <1>4, <2>4 DEF TakeWith
    <3>2. d.state # "spoilt"
      BY <2>4
    <3>3. CASE bits >= 8
      BY <3>1, <3>2, <3>3 DEF Decoder
    <3>4. CASE ~(bits >= 8)
      BY <3>1, <3>2, <3>4 DEF Decoder
    <3>. QED  BY <3>3, <3>4
  <2>. QED  BY <2>1, <2>2, <2>3, <2>4
<1>. HIDE DEF byte
<1>3. Take(d, c).out = Append(d.out, byte) => byte \in Byte
  <2>. DEFINE o == d.out
              p == Take(d, c).out
  <2>1. o \in Seq(Byte) /\ p \in Seq(Byte)
    BY <1>1 DEF Decoder
  <2>. HIDE DEF o, p
  <2>2. p = Append(o, byte) => byte = p[Len(p)] /\ Len(p) \in 1..Len(p)
    BY <2>1
  <2>3. p = Append(o, byte) => byte \in Byte
    BY <2>1, <2>2, ElementType
  <2>. QED  BY <2>3 DEF o, p
<1>. QED  BY <1>2, <1>3

\* Nor do several.
LEMMA DecodeExtends ==
  ASSUME NEW a \in Seq(Char), NEW b \in Seq(Char), NEW o \in Seq(Byte),
         IsPrefix(o, Base64Decode(a).out)
  PROVE  /\ IsPrefix(o, Base64Decode(a \o b).out)
         /\ Base64Decode(a).state = "spoilt" => Base64Decode(a \o b).state = "spoilt"
<1>. DEFINE n == Len(b)
            A(i) == a \o SubSeq(b, 1, i)
            D(i) == Base64Decode(A(i))
<1>1. /\ A(0) = a /\ n \in Nat
      /\ \A i \in 0..n : A(i) \in Seq(Char)
      /\ \A i \in 1..n : A(i) = Append(A(i - 1), b[i]) /\ b[i] \in Char
  <2>1. A(0) = a /\ \A i \in 0..n : A(i) \in Seq(Char)
    BY ConcatStep
  <2>2. \A i \in 1..n : A(i) = Append(A(i - 1), b[i])
    BY ConcatStep
  <2>3. \A i \in 1..n : b[i] \in Char
    BY ElementType
  <2>. QED  BY <2>1, <2>2, <2>3
<1>2. A(n) = a \o b
  BY PrefixFacts
<1>. HIDE DEF A, n
<1>. DEFINE Good(i) == /\ IsPrefix(o, D(i).out)
                       /\ Base64Decode(a).state = "spoilt" => D(i).state = "spoilt"
<1>3. Good(0)
  BY <1>1
<1>4. ASSUME NEW i \in 1..n, Good(i - 1)
      PROVE  Good(i)
  <2>1. i - 1 \in 0..n /\ A(i - 1) \in Seq(Char) /\ b[i] \in Char
    BY <1>1
  <2>2. D(i - 1) \in Decoder /\ D(i) = Take(D(i - 1), b[i])
    BY <1>1, <2>1, DecodeAppend
  <2>. HIDE DEF D
  <2>3. D(i - 1).out \in Seq(Byte)
    BY <2>2 DEF Decoder
  <2>4. IsPrefix(o, D(i - 1).out)
    BY <1>4
  <2>5. IsPrefix(o, D(i).out)
    <3>1. CASE D(i).out = D(i - 1).out
      BY <2>4, <3>1
    <3>2. ASSUME NEW x \in Byte, D(i).out = Append(D(i - 1).out, x)
          PROVE  IsPrefix(o, D(i).out)
      BY <2>3, <2>4, <3>2, BeginningOfAppend
    <3>. QED  BY <2>1, <2>2, <3>1, <3>2, TakeExtends
  <2>6. Base64Decode(a).state = "spoilt" => D(i).state = "spoilt"
    BY <1>4, <2>1, <2>2, TakeExtends
  <2>. QED  BY <2>5, <2>6
<1>5. Good(n)
  <2>. DEFINE T == {i \in 0..n : Good(i)}
  <2>. HIDE DEF Good
  <2>1. 0 \in T
    BY <1>1, <1>3
  <2>2. ASSUME NEW i \in 1..n, i - 1 \in T
        PROVE  i \in T
    BY <1>1, <1>4, <2>2
  <2>3. \A i \in 0..n : i \in T
    <3>. HIDE DEF T
    <3>. QED  BY <1>1, <2>1, <2>2, CountUp
  <2>. QED  BY <1>1, <2>3
<1>. QED  BY <1>2, <1>5

-----------------------------------------------------------------------------
(***************************************************************************)
(* The sort.                                                               *)
(***************************************************************************)

\* SortOrder is a permutation of the positions that puts the keys in order.
LEMMA SortFacts ==
  ASSUME NEW n \in Nat, NEW keys \in [1..n -> Nat]
  PROVE  /\ SortOrder(keys) \in [1..n -> 1..n]
         /\ \A i \in 1..n : \E k \in 1..n : SortOrder(keys)[k] = i
         /\ \A a, b \in 1..n : a < b =>
               LET i == SortOrder(keys)[a]
                   j == SortOrder(keys)[b]
               IN  i # j /\ keys[i] <= keys[j]
<1>. DEFINE Before(i) == {j \in 1..n : keys[j] < keys[i] \/ (keys[j] = keys[i] /\ j <= i)}
            rank == [i \in 1..n |-> Cardinality(Before(i))]
<1>1. IsFiniteSet(1..n) /\ Cardinality(1..n) = n
  BY FS_Interval
<1>2. ASSUME NEW i \in 1..n
      PROVE  /\ IsFiniteSet(Before(i)) /\ i \in Before(i)
             /\ Cardinality(Before(i)) \in 1..n
  <2>1. Before(i) \in SUBSET (1..n) /\ i \in Before(i)
    OBVIOUS
  <2>2. IsFiniteSet(Before(i)) /\ Cardinality(Before(i)) <= n
        /\ Cardinality(Before(i)) \in Nat /\ Cardinality(Before(i)) # 0
    <3>. HIDE DEF Before
    <3>1. IsFiniteSet(Before(i)) /\ Cardinality(Before(i)) <= n
      BY <1>1, <2>1, FS_Subset
    <3>. QED  BY <2>1, <3>1, FS_CardinalityType, FS_EmptySet
  <2>. QED  BY <2>1, <2>2
<1>3. ASSUME NEW i \in 1..n, NEW j \in 1..n, i # j, j \in Before(i)
      PROVE  rank[j] < rank[i]
  <2>1. Before(j) \in SUBSET Before(i) /\ i \notin Before(j) /\ i \in Before(i)
    BY <1>3
  <2>. HIDE DEF Before
  <2>2. /\ Cardinality(Before(j)) <= Cardinality(Before(i))
        /\ Cardinality(Before(j)) # Cardinality(Before(i))
    BY <1>2, <2>1, FS_Subset
  <2>. QED  BY <1>2, <2>2
<1>4. ASSUME NEW i \in 1..n, NEW j \in 1..n, i # j
      PROVE  i \in Before(j) \/ j \in Before(i)
  BY <1>4
<1>5. rank \in [1..n -> 1..n]
  <2>. HIDE DEF Before
  <2>. QED  BY <1>2
<1>6. \A i, j \in 1..n : rank[i] = rank[j] => i = j
  <2>1. SUFFICES ASSUME NEW i \in 1..n, NEW j \in 1..n, i # j, rank[i] = rank[j]
                 PROVE  FALSE
    OBVIOUS
  <2>2. rank[i] \in Nat
    BY <1>5
  <2>3. rank[i] < rank[j] \/ rank[j] < rank[i]
    <3>. HIDE DEF Before, rank
    <3>. QED  BY <1>3, <1>4, <2>1
  <2>. HIDE DEF Before, rank
  <2>. QED  BY <2>1, <2>2, <2>3
<1>7. \A k \in 1..n : \E i \in 1..n : rank[i] = k
  <2>. HIDE DEF rank
  <2>1. rank \in Injection(1..n, 1..n)
    BY <1>5, <1>6 DEF Injection, IsInjective
  <2>2. rank \in Surjection(1..n, 1..n)
    BY <1>1, <2>1, FS_Injection
  <2>. QED  BY <2>2 DEF Surjection
<1>8. SortOrder(keys) = [k \in 1..n |-> CHOOSE i \in 1..n : Cardinality(Before(i)) = k]
  <2>1. DOMAIN keys = 1..n
    OBVIOUS
  <2>. QED  BY <2>1 DEF SortOrder
<1>. DEFINE o == SortOrder(keys)
<1>9. ASSUME NEW k \in 1..n  PROVE o[k] \in 1..n /\ rank[o[k]] = k
  <2>1. \E i \in 1..n : Cardinality(Before(i)) = k
    BY <1>7
  <2>2. o[k] = CHOOSE i \in 1..n : Cardinality(Before(i)) = k
    <3>. HIDE DEF Before
    <3>. QED  BY <1>8
  <2>3. o[k] \in 1..n /\ Cardinality(Before(o[k])) = k
    <3>. HIDE DEF Before, o
    <3>. QED  BY <2>1, <2>2
  <2>. HIDE DEF o, Before
  <2>. QED  BY <2>3
<1>10. o \in [1..n -> 1..n]
  <2>. HIDE DEF rank
  <2>. QED  BY <1>8, <1>9
<1>11. \A i \in 1..n : o[rank[i]] = i
  <2>. HIDE DEF rank, o
  <2>. QED  BY <1>5, <1>6, <1>9
<1>12. ASSUME NEW a \in 1..n, NEW b \in 1..n, a < b
       PROVE  o[a] # o[b] /\ keys[o[a]] <= keys[o[b]]
  <2>1. o[a] # o[b]
    <3>. HIDE DEF rank, o
    <3>1. rank[o[a]] = a /\ rank[o[b]] = b
      BY <1>9
    <3>2. a # b
      BY <1>12
    <3>. QED  BY <3>1, <3>2
  <2>2. ~(o[b] \in Before(o[a]))
    <3>. DEFINE x == o[a]
                y == o[b]
    <3>1. x \in 1..n /\ rank[x] = a /\ y \in 1..n /\ rank[y] = b /\ x # y
      <4>. HIDE DEF rank, o
      <4>. QED  BY <1>9, <2>1
    <3>. HIDE DEF rank, o, Before, x, y
    <3>2. y \in Before(x) => rank[y] < rank[x]
      BY <1>3, <3>1
    <3>3. ~(b < a)
      BY <1>12
    <3>4. ~(y \in Before(x))
      BY <3>1, <3>2, <3>3
    <3>. QED  BY <3>4 DEF x, y
  <2>3. o[a] \in 1..n /\ o[b] \in 1..n
    BY <1>9
  <2>. HIDE DEF o, rank
  <2>. QED  BY <2>1, <2>2, <2>3
<1>. HIDE DEF o, rank
<1>13. \A i \in 1..n : \E k \in 1..n : o[k] = i
  BY <1>5, <1>11
<1>. QED  BY <1>10, <1>12, <1>13 DEF o

\* The two library names for what a sequence holds.
LEMMA ToSetIsRange == \A s : ToSet(s) = Range(s)
BY DEF ToSet, Range

\* The order of config::load: every name of the registry, in its place.
LEMMA NameFacts ==
  ASSUME NEW add, DOMAIN add \subseteq AdditionNames
  PROVE  /\ NameOrder(add) \in Seq(DOMAIN add)
         /\ Len(NameOrder(add)) = Cardinality(DOMAIN add)
         /\ ToSet(NameOrder(add)) = DOMAIN add
         /\ \A a, b \in DOMAIN NameOrder(add) : a < b => NameOrder(add)[a] < NameOrder(add)[b]
<1>. DEFINE S == DOMAIN add
            n == Cardinality(S)
            names == SetToSeq(S)
            o == SortOrder(names)
            sorted == [k \in 1..n |-> names[o[k]]]
<1>1. IsFiniteSet(S) /\ S \subseteq Nat
  BY ComposeAssumption, FS_Subset
<1>2. n \in Nat /\ \E f \in [1..n -> S] : IsInjective(f)
  <2>1. n \in Nat /\ ExistsBijection(1..n, S)
    BY <1>1, FS_CardinalityType
  <2>. QED  BY <2>1 DEF ExistsBijection, Bijection, Injection
<1>3. names \in [1..n -> S] /\ IsInjective(names)
  <2>. HIDE DEF S
  <2>. QED  BY <1>2 DEF SetToSeq
<1>. HIDE DEF n, names, S
<1>4. \A x \in S : \E i \in 1..n : names[i] = x
  <2>1. names \in Injection(1..n, S)
    BY <1>3 DEF Injection
  <2>2. Cardinality(1..n) = n
    BY <1>2, FS_Interval
  <2>3. names \in Surjection(1..n, S)
    BY <1>1, <2>1, <2>2, FS_Injection DEF n
  <2>. QED  BY <2>3 DEF Surjection
<1>5. /\ o \in [1..n -> 1..n]
      /\ \A i \in 1..n : \E k \in 1..n : o[k] = i
      /\ \A a, b \in 1..n : a < b => o[a] # o[b] /\ names[o[a]] <= names[o[b]]
  <2>1. names \in [1..n -> Nat]
    BY <1>1, <1>3
  <2>. QED  BY <1>2, <2>1, SortFacts
<1>6. NameOrder(add) = sorted
  <2>1. DOMAIN names = 1..n
    BY <1>3
  <2>. QED  BY <2>1 DEF NameOrder, names, S
<1>. HIDE DEF o
<1>7. sorted \in [1..n -> S]
  BY <1>3, <1>5
<1>8. sorted \in Seq(S) /\ Len(sorted) = n /\ DOMAIN sorted = 1..n
  BY <1>2, <1>7, FunctionIsSeq
<1>9. ToSet(sorted) = S
  <2>1. \A x \in S : \E k \in 1..n : sorted[k] = x
    BY <1>4, <1>5
  <2>2. \A k \in 1..n : sorted[k] \in S
    BY <1>7
  <2>. HIDE DEF sorted
  <2>. QED  BY <1>8, <2>1, <2>2 DEF ToSet
<1>10. ASSUME NEW a \in 1..n, NEW b \in 1..n, a < b
       PROVE  sorted[a] < sorted[b]
  <2>1. o[a] \in 1..n /\ o[b] \in 1..n /\ o[a] # o[b] /\ names[o[a]] <= names[o[b]]
    BY <1>5, <1>10
  <2>2. names[o[a]] # names[o[b]]
    BY <1>3, <2>1 DEF IsInjective
  <2>3. names[o[a]] \in Nat /\ names[o[b]] \in Nat
    BY <1>1, <1>3, <2>1
  <2>. QED  BY <2>1, <2>2, <2>3
<1>. HIDE DEF sorted
<1>. QED  BY <1>6, <1>8, <1>9, <1>10 DEF S, n

\* What compose collects: entries, fingerprints seen and warnings.
EntrySet == [fp : IsCA, source : Sources, name : Nat,
             purposes : PurposeLists \cup {{ServerAuth}}]
Errors == {"Malformed", "NotACa", "Expired", "none"}
Kinds == {"block", "addition", "distrusted", "duplicate", "unmatched"}
Warning == [kind : Kinds, about : Nat \cup Errors]
Collected == [roots : Seq(EntrySet), seen : SUBSET Fingerprints,
              warnings : SUBSET Warning, shipped : Nat, added : Nat, skipped : Nat]

\* No two entries have one fingerprint.
Distinct(roots) ==
    \A i, j \in DOMAIN roots : roots[i].fp = roots[j].fp => i = j

\* The sort loses and repeats nothing.
LEMMA SortRootsFacts ==
  ASSUME NEW roots \in Seq(EntrySet), Distinct(roots)
  PROVE  /\ SortRoots(roots) \in Seq(EntrySet)
         /\ ToSet(SortRoots(roots)) = ToSet(roots)
         /\ \A i, j \in DOMAIN SortRoots(roots) :
               i < j => SortRoots(roots)[i].fp < SortRoots(roots)[j].fp
<1>. DEFINE n == Len(roots)
            keys == [i \in 1..n |-> roots[i].fp]
            o == SortOrder(keys)
            sorted == [k \in 1..n |-> roots[o[k]]]
<1>1. n \in Nat /\ DOMAIN roots = 1..n /\ \A i \in 1..n : roots[i] \in EntrySet
  OBVIOUS
<1>2. \A e \in EntrySet : e.fp \in Nat
  BY ComposeAssumption DEF EntrySet
<1>. HIDE DEF n
<1>3. keys \in [1..n -> Nat]
  BY <1>1, <1>2
<1>4. /\ o \in [1..n -> 1..n]
      /\ \A i \in 1..n : \E k \in 1..n : o[k] = i
      /\ \A a, b \in 1..n : a < b => o[a] # o[b] /\ keys[o[a]] <= keys[o[b]]
  <2>. HIDE DEF keys
  <2>. QED  BY <1>1, <1>3, SortFacts
<1>5. SortRoots(roots) = sorted
  BY <1>1 DEF SortRoots
<1>. HIDE DEF o
<1>6. sorted \in [1..n -> EntrySet]
  BY <1>1, <1>4
<1>7. sorted \in Seq(EntrySet) /\ DOMAIN sorted = 1..n
  BY <1>1, <1>6, FunctionIsSeq
<1>8. ToSet(sorted) = ToSet(roots)
  <2>1. \A i \in 1..n : \E k \in 1..n : sorted[k] = roots[i]
    BY <1>4
  <2>2. \A k \in 1..n : \E i \in 1..n : sorted[k] = roots[i]
    BY <1>4
  <2>. HIDE DEF sorted
  <2>3. ToSet(sorted) \subseteq ToSet(roots)
    BY <1>1, <1>7, <2>2 DEF ToSet
  <2>4. ToSet(roots) \subseteq ToSet(sorted)
    BY <1>1, <1>7, <2>1 DEF ToSet
  <2>. QED  BY <2>3, <2>4
<1>9. ASSUME NEW a \in 1..n, NEW b \in 1..n, a < b
      PROVE  sorted[a].fp < sorted[b].fp
  <2>1. o[a] \in 1..n /\ o[b] \in 1..n /\ o[a] # o[b] /\ keys[o[a]] <= keys[o[b]]
    BY <1>4, <1>9
  <2>2. roots[o[a]].fp # roots[o[b]].fp
    BY <1>1, <2>1 DEF Distinct
  <2>3. roots[o[a]].fp \in Nat /\ roots[o[b]].fp \in Nat
    BY <1>1, <1>2, <2>1
  <2>. QED  BY <2>1, <2>2, <2>3
<1>. HIDE DEF sorted
<1>. QED  BY <1>5, <1>7, <1>8, <1>9

-----------------------------------------------------------------------------
(***************************************************************************)
(* One entry after another.                                                *)
(***************************************************************************)

\* cert::parse accepts a CA certificate that has not expired by its clock.
Expired(f, now) == now >= 0 /\ NotAfter[f] <= now

\* What cert::parse answers.
LEMMA ParseFacts ==
  ASSUME NEW f \in Fingerprints \cup {0}, NEW now \in Nat \cup {-1}
  PROVE  /\ ParseError(f, now) = "none" <=> f \in IsCA /\ ~Expired(f, now)
         /\ ParseError(f, -1) = "none" <=> f \in IsCA
         /\ ParseError(f, now) \in Errors /\ ParseError(f, -1) \in Errors
<1>1. 0 \notin IsCA /\ IsCA \subseteq Fingerprints
  BY ComposeAssumption
<1>2. ~(-1 >= 0)
  OBVIOUS
<1>3. {"Malformed", "NotACa", "Expired", "none"} = Errors
  BY DEF Errors
<1>4. CASE f = 0
  <2>1. ParseError(f, now) = "Malformed" /\ ParseError(f, -1) = "Malformed"
    BY <1>1, <1>4 DEF ParseError
  <2>. QED  BY <1>1, <1>3, <1>4, <2>1
<1>5. CASE f # 0 /\ f \notin IsCA
  <2>1. ParseError(f, now) = "NotACa" /\ ParseError(f, -1) = "NotACa"
    BY <1>5 DEF ParseError
  <2>. QED  BY <1>3, <1>5, <2>1
<1>6. CASE f \in IsCA
  <2>1. f # 0
    BY <1>1, <1>6
  <2>2. ParseError(f, -1) = "none"
    BY <1>2, <1>6, <2>1 DEF ParseError
  <2>3. CASE Expired(f, now)
    <3>1. ParseError(f, now) = "Expired"
      BY <1>6, <2>1, <2>3 DEF ParseError, Expired
    <3>. QED  BY <1>3, <1>6, <2>2, <2>3, <3>1
  <2>4. CASE ~Expired(f, now)
    <3>1. ParseError(f, now) = "none"
      BY <1>6, <2>1, <2>4 DEF ParseError, Expired
    <3>. QED  BY <1>3, <1>6, <2>2, <2>4, <3>1
  <2>. QED  BY <2>3, <2>4
<1>. QED  BY <1>4, <1>5, <1>6

Prints(roots) == {e.fp : e \in ToSet(roots)}

\* A warning changes nothing else.
Warned(o, out, kind, about) ==
    /\ o \in Collected
    /\ o.warnings = out.warnings \cup {[kind |-> kind, about |-> about]}
    /\ o.roots = out.roots /\ o.seen = out.seen
    /\ o.shipped = out.shipped /\ o.added = out.added /\ o.skipped = out.skipped

\* A warning is added and nothing else changes.
LEMMA WarnFacts ==
  ASSUME NEW out \in Collected, NEW kind \in Kinds, NEW about \in Nat \cup Errors
  PROVE  Warned(Warn(out, kind, about), out, kind, about)
BY DEF Warned, Warn, Collected, Warning

\* What push does: a distrusted entry is warned of, a fingerprint that is there
\* already is not added again, anything else becomes a root.
Pushed(o, out, D, e) ==
    /\ o \in Collected /\ Distinct(o.roots)
    /\ o.seen = out.seen \cup {e.fp} /\ out.warnings \subseteq o.warnings
    /\ o.shipped = out.shipped /\ o.added = out.added /\ o.skipped = out.skipped
    /\ e.fp \in D => /\ o.roots = out.roots
                     /\ [kind |-> "distrusted", about |-> e.fp] \in o.warnings
    /\ e.fp \notin D /\ e.fp \in Prints(out.roots) =>
          /\ o.roots = out.roots
          /\ e.source = "Added" => [kind |-> "duplicate", about |-> e.name] \in o.warnings
    /\ e.fp \notin D /\ e.fp \notin Prints(out.roots) =>
          ToSet(o.roots) = ToSet(out.roots) \cup {e}

\* What push leaves, case by case.
LEMMA PushFacts ==
  ASSUME NEW out \in Collected, NEW D, NEW e \in EntrySet, Distinct(out.roots)
  PROVE  Pushed(Push(out, D, e), out, D, e)
<1>. DEFINE q == [out EXCEPT !.seen = @ \cup {e.fp}]
            present == \E i \in DOMAIN q.roots : q.roots[i].fp = e.fp
            o == Push(out, D, e)
<1>1. e.fp \in IsCA /\ e.fp \in Fingerprints /\ e.fp \in Nat /\ e.name \in Nat
  BY ComposeAssumption DEF EntrySet
<1>2. /\ q \in Collected /\ q.seen = out.seen \cup {e.fp} /\ q.roots = out.roots
      /\ q.warnings = out.warnings /\ q.shipped = out.shipped
      /\ q.added = out.added /\ q.skipped = out.skipped
  BY <1>1 DEF Collected
<1>3. present <=> e.fp \in Prints(out.roots)
  BY <1>2 DEF Prints, ToSet
<1>4. o = CASE e.fp \in D -> Warn(q, "distrusted", e.fp)
            [] e.fp \notin D /\ present ->
                  IF e.source = "Added" THEN Warn(q, "duplicate", e.name) ELSE q
            [] OTHER -> [q EXCEPT !.roots = Append(@, e)]
  BY DEF Push
<1>. HIDE DEF q, present, o
<1>5. CASE e.fp \in D
  <2>1. o = Warn(q, "distrusted", e.fp)
    BY <1>4, <1>5
  <2>2. Warned(o, q, "distrusted", e.fp)
    <3>1. "distrusted" \in Kinds
      BY DEF Kinds
    <3>. QED  BY <1>1, <1>2, <2>1, <3>1, WarnFacts
  <2>. QED  BY <1>2, <1>5, <2>2 DEF Warned, Pushed, o
<1>6. CASE e.fp \notin D /\ present
  <2>1. o = IF e.source = "Added" THEN Warn(q, "duplicate", e.name) ELSE q
    BY <1>4, <1>6
  <2>2. CASE e.source = "Added"
    <3>1. o = Warn(q, "duplicate", e.name)
      BY <2>1, <2>2
    <3>2. Warned(o, q, "duplicate", e.name)
      <4>1. "duplicate" \in Kinds
        BY DEF Kinds
      <4>. QED  BY <1>1, <1>2, <3>1, <4>1, WarnFacts
    <3>. QED  BY <1>2, <1>3, <1>6, <3>2 DEF Warned, Pushed, o
  <2>3. CASE e.source # "Added"
    <3>1. o = q
      BY <2>1, <2>3
    <3>. QED  BY <1>2, <1>3, <1>6, <2>3, <3>1 DEF Pushed, o
  <2>. QED  BY <2>2, <2>3
<1>7. CASE e.fp \notin D /\ ~present
  <2>1. o = [q EXCEPT !.roots = Append(@, e)]
    BY <1>4, <1>7
  <2>2. out.roots \in Seq(EntrySet)
    BY DEF Collected
  <2>3. /\ Append(out.roots, e) \in Seq(EntrySet)
        /\ ToSet(Append(out.roots, e)) = ToSet(out.roots) \cup {e}
    BY <2>2, AppendFacts, ToSetIsRange
  <2>4. /\ o \in Collected /\ o.roots = Append(out.roots, e)
        /\ o.seen = q.seen /\ o.warnings = q.warnings /\ o.shipped = q.shipped
        /\ o.added = q.added /\ o.skipped = q.skipped
    BY <1>2, <2>1, <2>3 DEF Collected
  <2>5. Distinct(Append(out.roots, e))
    <3>. DEFINE r == out.roots
                n == Len(r)
    <3>1. /\ n \in Nat /\ DOMAIN r = 1..n /\ DOMAIN Append(r, e) = 1..(n + 1)
          /\ \A i \in 1..n : Append(r, e)[i] = r[i]
          /\ Append(r, e)[n + 1] = e
      BY <2>2
    <3>2. \A i \in 1..n : r[i].fp # e.fp
      BY <1>2, <1>7, <3>1 DEF present
    <3>. HIDE DEF n, r
    <3>3. \A i \in 1..(n + 1) : i \in 1..n \/ i = n + 1
      BY <3>1
    <3>4. Distinct(r)
      BY DEF r
    <3>. QED  BY <3>1, <3>2, <3>3, <3>4 DEF Distinct, r
  <2>. QED  BY <1>2, <1>3, <1>7, <2>3, <2>4, <2>5 DEF Pushed, o
<1>. QED  BY <1>5, <1>6, <1>7

-----------------------------------------------------------------------------
(***************************************************************************)
(* The pass over the shipped blocks.                                       *)
(***************************************************************************)

\* What the blocks in a set, taken one after another, leave.
Shipped(out, taken, D) ==
    /\ out \in Collected /\ Distinct(out.roots)
    /\ Prints(out.roots) = (taken \cap IsCA) \ D
    /\ \A e \in ToSet(out.roots) : e.source = "Shipped" /\ e.purposes = {ServerAuth}
    /\ out.seen = taken \cap IsCA
    /\ \A f \in taken \ IsCA :
          [kind |-> "block", about |-> ParseError(f, -1)] \in out.warnings
    /\ \A f \in out.seen \cap D : [kind |-> "distrusted", about |-> f] \in out.warnings

Count(out) == out.shipped + out.added + out.skipped

\* compose starts with no entry, no warning and counters at zero.
LEMMA EmptyFacts ==
  ASSUME NEW D
  PROVE  Shipped(Empty, {}, D) /\ Count(Empty) = 0
<1>1. <<>> \in Seq(EntrySet) /\ ToSet(<<>>) = {} /\ Distinct(<<>>) /\ Prints(<<>>) = {}
  BY DEF ToSet, Distinct, Prints
<1>2. Empty \in Collected
  BY <1>1 DEF Empty, Collected
<1>. QED  BY <1>1, <1>2 DEF Shipped, Count, Empty

\* One block more.
LEMMA TakeShippedFacts ==
  ASSUME NEW out, NEW taken \in SUBSET (Fingerprints \cup {0}), NEW D,
         NEW der \in Fingerprints \cup {0}, Shipped(out, taken, D)
  PROVE  /\ Shipped(TakeShipped(out, D, der), taken \cup {der}, D)
         /\ Count(TakeShipped(out, D, der)) = Count(out) + 1
<1>. DEFINE o == TakeShipped(out, D, der)
<1>0. out \in Collected /\ Distinct(out.roots) /\ -1 \in Nat \cup {-1}
  BY DEF Shipped
<1>1. CASE ParseError(der, -1) # "none"
  <2>. DEFINE q == [out EXCEPT !.skipped = @ + 1]
              err == ParseError(der, -1)
  <2>1. der \notin IsCA /\ err \in Nat \cup Errors /\ "block" \in Kinds
    BY <1>0, <1>1, ParseFacts DEF Kinds
  <2>2. /\ q \in Collected /\ q.roots = out.roots /\ q.seen = out.seen
        /\ q.warnings = out.warnings /\ q.skipped = out.skipped + 1
        /\ q.shipped = out.shipped /\ q.added = out.added
    BY <1>0 DEF Collected
  <2>3. o = Warn(q, "block", err)
    BY <1>1 DEF TakeShipped
  <2>. HIDE DEF q, o, err
  <2>4. Warned(o, q, "block", err)
    BY <2>1, <2>2, <2>3, WarnFacts
  <2>5. (taken \cup {der}) \cap IsCA = taken \cap IsCA
    BY <2>1
  <2>6. \A f \in (taken \cup {der}) \ IsCA :
           [kind |-> "block", about |-> ParseError(f, -1)] \in o.warnings
    BY <2>2, <2>4 DEF Shipped, Warned, err
  <2>7. Shipped(o, taken \cup {der}, D)
    BY <2>2, <2>4, <2>5, <2>6 DEF Shipped, Warned
  <2>8. Count(o) = Count(out) + 1
    BY <1>0, <2>2, <2>4 DEF Count, Collected, Warned
  <2>. QED  BY <2>7, <2>8 DEF o
<1>2. CASE ParseError(der, -1) = "none"
  <2>. DEFINE q == [out EXCEPT !.shipped = @ + 1]
              e == [fp |-> der, source |-> "Shipped", name |-> 0,
                    purposes |-> {ServerAuth}]
  <2>1. der \in IsCA /\ e \in EntrySet
    <3>1. der \in IsCA
      BY <1>0, <1>2, ParseFacts
    <3>. QED  BY <3>1 DEF EntrySet, Sources
  <2>2. /\ q \in Collected /\ q.roots = out.roots /\ q.seen = out.seen
        /\ q.warnings = out.warnings /\ q.skipped = out.skipped
        /\ q.shipped = out.shipped + 1 /\ q.added = out.added
    BY <1>0 DEF Collected
  <2>3. o = Push(q, D, e)
    BY <1>2 DEF TakeShipped
  <2>4. e.fp = der /\ e.source = "Shipped" /\ e.purposes = {ServerAuth}
    OBVIOUS
  <2>. HIDE DEF q, o, e
  <2>5. /\ o \in Collected /\ Distinct(o.roots)
        /\ o.seen = out.seen \cup {der} /\ out.warnings \subseteq o.warnings
        /\ o.shipped = q.shipped /\ o.added = q.added /\ o.skipped = q.skipped
        /\ der \in D => /\ o.roots = out.roots
                        /\ [kind |-> "distrusted", about |-> der] \in o.warnings
        /\ der \notin D /\ der \in Prints(out.roots) => o.roots = out.roots
        /\ der \notin D /\ der \notin Prints(out.roots) =>
              ToSet(o.roots) = ToSet(out.roots) \cup {e}
    <3>1. q \in Collected /\ e \in EntrySet /\ Distinct(q.roots)
      BY <1>0, <2>1, <2>2
    <3>2. Pushed(o, q, D, e)
      BY <2>3, <3>1, PushFacts
    <3>. QED  BY <2>2, <2>4, <3>2 DEF Pushed
  <2>6. Prints(o.roots) = ((taken \cup {der}) \cap IsCA) \ D
        /\ \A x \in ToSet(o.roots) : x.source = "Shipped" /\ x.purposes = {ServerAuth}
    <3>1. CASE o.roots = out.roots /\ (der \in D \/ der \in Prints(out.roots))
      BY <3>1, <2>1 DEF Shipped
    <3>2. CASE der \notin D /\ ToSet(o.roots) = ToSet(out.roots) \cup {e}
      <4>1. Prints(o.roots) = Prints(out.roots) \cup {der}
        BY <2>4, <3>2 DEF Prints
      <4>. QED  BY <2>1, <2>4, <3>2, <4>1 DEF Shipped
    <3>. QED  BY <2>5, <3>1, <3>2
  <2>7. o.seen = (taken \cup {der}) \cap IsCA
    BY <2>1, <2>5 DEF Shipped
  <2>8. /\ \A f \in (taken \cup {der}) \ IsCA :
              [kind |-> "block", about |-> ParseError(f, -1)] \in o.warnings
        /\ \A f \in o.seen \cap D : [kind |-> "distrusted", about |-> f] \in o.warnings
    BY <2>1, <2>5 DEF Shipped
  <2>9. Shipped(o, taken \cup {der}, D)
    BY <2>5, <2>6, <2>7, <2>8 DEF Shipped
  <2>10. Count(o) = Count(out) + 1
    BY <1>0, <2>2, <2>5 DEF Count, Collected
  <2>. QED  BY <2>9, <2>10 DEF o
<1>. QED  BY <1>1, <1>2

\* What a pass over entries goes through.
Collecting == {out \in Collected : Distinct(out.roots)}

\* One shipped block more keeps what the pass has established.
LEMMA TakeShippedStays ==
  ASSUME NEW out \in Collecting, NEW D, NEW der \in Fingerprints \cup {0}
  PROVE  TakeShipped(out, D, der) \in Collecting
<1>. DEFINE e == [fp |-> der, source |-> "Shipped", name |-> 0,
                  purposes |-> {ServerAuth}]
            bad == [out EXCEPT !.skipped = @ + 1]
            good == [out EXCEPT !.shipped = @ + 1]
            err == ParseError(der, -1)
<1>1. /\ bad \in Collected /\ bad.roots = out.roots
      /\ good \in Collected /\ good.roots = out.roots /\ Distinct(out.roots)
  BY DEF Collecting, Collected
<1>2. -1 \in Nat \cup {-1}
  OBVIOUS
<1>3. err \in Nat \cup Errors /\ "block" \in Kinds
  BY <1>2, ParseFacts DEF Kinds
<1>4. err = "none" => e \in EntrySet
  BY <1>2, ParseFacts DEF EntrySet, Sources
<1>5. TakeShipped(out, D, der) =
        IF err # "none" THEN Warn(bad, "block", err) ELSE Push(good, D, e)
  BY DEF TakeShipped
<1>. HIDE DEF e, bad, good, err
<1>6. Warned(Warn(bad, "block", err), bad, "block", err)
  BY <1>1, <1>3, WarnFacts
<1>7. err = "none" => Pushed(Push(good, D, e), good, D, e)
  BY <1>1, <1>4, PushFacts
<1>. QED  BY <1>1, <1>5, <1>6, <1>7 DEF Warned, Pushed, Collecting

\* The whole bundle.
LEMMA BlocksFacts ==
  ASSUME NEW blocks \in Seq(Fingerprints \cup {0}), NEW D
  PROVE  /\ Shipped(TakeBlocks(blocks, D), ToSet(blocks), D)
         /\ Count(TakeBlocks(blocks, D)) = Len(blocks)
<1>. DEFINE n == Len(blocks)
            step == [i \in 1..n |->
                       [out \in Collecting |-> TakeShipped(out, D, blocks[i])]]
            pass[i \in 0..Len(blocks)] ==
                IF i = 0 THEN Empty ELSE TakeShipped(pass[i - 1], D, blocks[i])
<1>1. n \in Nat /\ DOMAIN blocks = 1..n /\ \A i \in 1..n : blocks[i] \in Fingerprints \cup {0}
  OBVIOUS
<1>2. step \in StepsOf(n, Collecting) /\ Empty \in Collecting
  BY <1>1, TakeShippedStays, EmptyFacts DEF StepsOf, Collecting, Shipped
<1>3. PICK f \in [0..n -> Collecting] :
        f[0] = Empty /\ \A i \in 1..n : f[i] = step[i][f[i - 1]]
  <2>. HIDE DEF step, n
  <2>1. \E f : IsPass(f, n, Collecting, Empty, step)
    BY <1>1, <1>2, PassExists
  <2>. QED  BY <2>1 DEF IsPass
<1>4. f = [i \in 0..n |-> IF i = 0 THEN Empty ELSE TakeShipped(f[i - 1], D, blocks[i])]
  <2>1. \A i \in 0..n : i # 0 => i \in 1..n /\ f[i - 1] \in Collecting
    <3>1. \A i \in 0..n : i # 0 => i \in 1..n /\ i - 1 \in 0..n
      BY <1>1
    <3>. HIDE DEF step, n
    <3>. QED  BY <1>3, <3>1
  <2>2. \A i \in 1..n, out \in Collecting : step[i][out] = TakeShipped(out, D, blocks[i])
    OBVIOUS
  <2>. HIDE DEF step, n
  <2>3. \A i \in 0..n : f[i] = IF i = 0 THEN Empty ELSE TakeShipped(f[i - 1], D, blocks[i])
    BY <1>3, <2>1, <2>2
  <2>4. f = [i \in 0..n |-> f[i]]
    BY <1>3
  <2>. QED  BY <2>3, <2>4
<1>5. pass = [i \in 0..n |-> IF i = 0 THEN Empty
                             ELSE TakeShipped(pass[i - 1], D, blocks[i])]
  BY <1>4
<1>6. TakeBlocks(blocks, D) = pass[n]
  BY DEF TakeBlocks
<1>. HIDE DEF pass, step
<1>. DEFINE taken(i) == {blocks[j] : j \in 1..i}
            Good(i) == Shipped(pass[i], taken(i), D) /\ Count(pass[i]) = i
<1>7. Good(0)
  <2>1. pass[0] = Empty /\ taken(0) = {}
    BY <1>1, <1>5
  <2>. HIDE DEF taken
  <2>. QED  BY <2>1, EmptyFacts
<1>8. ASSUME NEW i \in 1..n, Good(i - 1)
      PROVE  Good(i)
  <2>1. i \in 0..n /\ i # 0 /\ i - 1 \in Nat /\ blocks[i] \in Fingerprints \cup {0}
    BY <1>1
  <2>2. taken(i) = taken(i - 1) \cup {blocks[i]}
    BY <1>1, <2>1
  <2>3. taken(i - 1) \in SUBSET (Fingerprints \cup {0})
    BY <1>1
  <2>4. pass[i] = TakeShipped(pass[i - 1], D, blocks[i])
    BY <1>5, <2>1
  <2>5. /\ Shipped(pass[i - 1], taken(i - 1), D)
        /\ Count(pass[i - 1]) = i - 1
    BY <1>8
  <2>. HIDE DEF taken
  <2>6. Shipped(pass[i], taken(i), D) /\ Count(pass[i]) = Count(pass[i - 1]) + 1
    <3>. DEFINE before == pass[i - 1]
                set == taken(i - 1)
                der == blocks[i]
    <3>1. /\ set \in SUBSET (Fingerprints \cup {0}) /\ Shipped(before, set, D)
          /\ der \in Fingerprints \cup {0}
      BY <2>1, <2>3, <2>5
    <3>. HIDE DEF before, set, der
    <3>2. /\ Shipped(TakeShipped(before, D, der), set \cup {der}, D)
          /\ Count(TakeShipped(before, D, der)) = Count(before) + 1
      BY <3>1, TakeShippedFacts
    <3>. QED  BY <2>2, <2>4, <3>2 DEF before, set, der
  <2>. QED  BY <1>1, <2>1, <2>5, <2>6
<1>9. Good(n)
  <2>. DEFINE T == {i \in 0..n : Good(i)}
  <2>. HIDE DEF Good
  <2>1. 0 \in T
    BY <1>1, <1>7
  <2>2. ASSUME NEW i \in 1..n, i - 1 \in T
        PROVE  i \in T
    BY <1>1, <1>8, <2>2
  <2>3. \A i \in 0..n : i \in T
    <3>. HIDE DEF T
    <3>. QED  BY <1>1, <2>1, <2>2, CountUp
  <2>4. n \in 0..n
    BY <1>1
  <2>. HIDE DEF n
  <2>. QED  BY <2>3, <2>4
<1>10. taken(n) = ToSet(blocks)
  BY <1>1 DEF ToSet
<1>. HIDE DEF taken
<1>. QED  BY <1>6, <1>9, <1>10

-----------------------------------------------------------------------------
(***************************************************************************)
(* The pass over the additions, in name order.                             *)
(***************************************************************************)

\* The purposes an addition is for.
Given(addition) == IF addition.purposes = {} THEN {ServerAuth} ELSE addition.purposes

\* The names whose certificate parses, and certificates by name.
Usable(add, names, now) == {n \in names : ParseError(add[n].der, now) = "none"}
Ders(add, names) == {add[n].der : n \in names}

\* A root is shipped, or is the first addition of its certificate.
RootOf(e, base, add, names) ==
    \/ e.source = "Shipped" /\ e.fp \in base /\ e.purposes = {ServerAuth}
    \/ /\ e.source = "Added" /\ e.fp \notin base
       /\ e.name \in names /\ add[e.name].der = e.fp /\ e.purposes = Given(add[e.name])
       /\ \A m \in names : add[m].der = e.fp => e.name <= m

\* An addition is served, or a warning says why not.
Accounted(out, add, n) ==
    \/ \E e \in ToSet(out.roots) : e.name = n
    \/ [kind |-> "addition", about |-> n] \in out.warnings
    \/ [kind |-> "duplicate", about |-> n] \in out.warnings
    \/ [kind |-> "distrusted", about |-> add[n].der] \in out.warnings

\* What the additions in a set of names, taken in their order after the pass
\* over the blocks left first, leave.
Added(out, first, add, names, D, now) ==
    LET all == first.seen \cup Ders(add, Usable(add, names, now))
    IN  /\ out \in Collecting
        /\ Prints(out.roots) = all \ D
        /\ out.seen = all
        /\ \A e \in ToSet(out.roots) : RootOf(e, first.seen, add, names)
        /\ \A n \in names : Accounted(out, add, n)
        /\ first.warnings \subseteq out.warnings
        /\ \A f \in out.seen \cap D : [kind |-> "distrusted", about |-> f] \in out.warnings

Registry(add) == DOMAIN add \subseteq AdditionNames /\ \A n \in DOMAIN add : add[n] \in Addition

\* The pass over the additions starts from what the shipped blocks left.
LEMMA AdditionsStart ==
  ASSUME NEW first, NEW taken, NEW D, NEW add, NEW now, Shipped(first, taken, D)
  PROVE  Added(first, first, add, {}, D, now)
<1>1. Ders(add, Usable(add, {}, now)) = {}
  BY DEF Ders, Usable
<1>. QED  BY <1>1 DEF Added, Shipped, Collecting, RootOf, Prints

\* What is made of one addition.
EntryOf(n, addition) ==
    [fp |-> addition.der, source |-> "Added", name |-> n, purposes |-> Given(addition)]

Took(o, out, D, n, addition, now) ==
    LET err == ParseError(addition.der, now)
    IN  /\ o \in Collecting /\ out.warnings \subseteq o.warnings
        /\ Count(o) = Count(out) + 1
        /\ err # "none" => /\ o.roots = out.roots /\ o.seen = out.seen
                           /\ [kind |-> "addition", about |-> n] \in o.warnings
        /\ err = "none" =>
              /\ o.seen = out.seen \cup {addition.der}
              /\ addition.der \in D =>
                    /\ o.roots = out.roots
                    /\ [kind |-> "distrusted", about |-> addition.der] \in o.warnings
              /\ addition.der \notin D /\ addition.der \in Prints(out.roots) =>
                    /\ o.roots = out.roots
                    /\ [kind |-> "duplicate", about |-> n] \in o.warnings
              /\ addition.der \notin D /\ addition.der \notin Prints(out.roots) =>
                    ToSet(o.roots) = ToSet(out.roots) \cup {EntryOf(n, addition)}

\* One addition as an entry, or its error.
LEMMA TakeAddedTook ==
  ASSUME NEW out \in Collecting, NEW D, NEW addition \in Addition,
         NEW n \in Nat, NEW now \in Nat \cup {-1}
  PROVE  Took(TakeAdded(out, D, n, addition, now), out, D, n, addition, now)
<1>. DEFINE o == TakeAdded(out, D, n, addition, now)
            e == EntryOf(n, addition)
            bad == [out EXCEPT !.skipped = @ + 1]
            good == [out EXCEPT !.added = @ + 1]
            err == ParseError(addition.der, now)
<1>0. out \in Collected /\ Distinct(out.roots)
  BY DEF Collecting
<1>1. /\ bad \in Collected /\ bad.roots = out.roots /\ bad.seen = out.seen
      /\ bad.warnings = out.warnings /\ Count(bad) = Count(out) + 1
      /\ good \in Collected /\ good.roots = out.roots /\ good.seen = out.seen
      /\ good.warnings = out.warnings /\ Count(good) = Count(out) + 1
  <2>1. out.shipped \in Nat /\ out.added \in Nat /\ out.skipped \in Nat
    BY <1>0 DEF Collected
  <2>2. /\ bad.shipped = out.shipped /\ bad.added = out.added
        /\ bad.skipped = out.skipped + 1
        /\ good.shipped = out.shipped /\ good.added = out.added + 1
        /\ good.skipped = out.skipped
    BY <1>0 DEF Collected
  <2>3. /\ bad.roots = out.roots /\ bad.seen = out.seen /\ bad.warnings = out.warnings
        /\ good.roots = out.roots /\ good.seen = out.seen /\ good.warnings = out.warnings
    BY <1>0 DEF Collected
  <2>5. bad \in Collected
    BY <1>0 DEF Collected
  <2>6. good \in Collected
    BY <1>0 DEF Collected
  <2>. HIDE DEF bad, good
  <2>4. Count(bad) = Count(out) + 1 /\ Count(good) = Count(out) + 1
    BY <2>1, <2>2 DEF Count
  <2>. QED  BY <2>3, <2>4, <2>5, <2>6
<1>2. /\ addition.der \in Fingerprints /\ addition.purposes \in PurposeLists
      /\ "addition" \in Kinds
  BY DEF Addition, Kinds
<1>3. err = "none" => e \in EntrySet
  <2>1. Given(addition) \in PurposeLists \cup {{ServerAuth}}
    BY <1>2 DEF Given
  <2>2. err = "none" => addition.der \in IsCA
    BY <1>2, ParseFacts
  <2>. QED  BY <1>2, <2>1, <2>2 DEF EntrySet, Sources, EntryOf
<1>4. o = IF err # "none" THEN Warn(bad, "addition", n) ELSE Push(good, D, e)
  BY DEF TakeAdded, Given, EntryOf
<1>5. e.fp = addition.der /\ e.source = "Added" /\ e.name = n
  BY DEF EntryOf
<1>. HIDE DEF e, bad, good, o
<1>6. CASE err # "none"
  <2>1. Warned(o, bad, "addition", n)
    BY <1>1, <1>2, <1>4, <1>6, WarnFacts
  <2>2. Distinct(o.roots) /\ Count(o) = Count(bad)
    BY <1>0, <1>1, <2>1 DEF Warned, Count
  <2>. QED  BY <1>1, <1>6, <2>1, <2>2 DEF Warned, Collecting, Took, o
<1>7. CASE err = "none"
  <2>1. Pushed(o, good, D, e)
    <3>1. good \in Collected /\ e \in EntrySet /\ Distinct(good.roots)
      BY <1>0, <1>1, <1>3, <1>7
    <3>2. o = Push(good, D, e)
      BY <1>4, <1>7
    <3>. QED  BY <3>1, <3>2, PushFacts
  <2>2. Count(o) = Count(good)
    BY <2>1 DEF Pushed, Count
  <2>. QED  BY <1>1, <1>5, <1>7, <2>1, <2>2 DEF Pushed, Collecting, Took, o, e
<1>. QED  BY <1>6, <1>7

\* The additions of a registry, in name order.
LEMMA RegistryFacts ==
  ASSUME NEW add, Registry(add), NEW n \in DOMAIN add
  PROVE  n \in Nat /\ add[n] \in Addition /\ add[n].der \in Fingerprints
BY ComposeAssumption DEF Registry, Addition

\* The certificates of one more name.
LEMMA OneMoreName ==
  ASSUME NEW add, NEW names, NEW n, NEW now
  PROVE  /\ ParseError(add[n].der, now) = "none" =>
               Ders(add, Usable(add, names \cup {n}, now))
                  = Ders(add, Usable(add, names, now)) \cup {add[n].der}
         /\ ParseError(add[n].der, now) # "none" =>
               Ders(add, Usable(add, names \cup {n}, now)) = Ders(add, Usable(add, names, now))
<1>1. CASE ParseError(add[n].der, now) = "none"
  <2>1. Usable(add, names \cup {n}, now) = Usable(add, names, now) \cup {n}
    BY <1>1 DEF Usable
  <2>. QED  BY <1>1, <2>1 DEF Ders
<1>2. CASE ParseError(add[n].der, now) # "none"
  <2>1. Usable(add, names \cup {n}, now) = Usable(add, names, now)
    BY <1>2 DEF Usable
  <2>. QED  BY <1>2, <2>1
<1>. QED  BY <1>1, <1>2

\* One addition more, after all the names before it.
LEMMA TakeAddedFacts ==
  ASSUME NEW out, NEW first, NEW add, Registry(add), NEW names, names \subseteq DOMAIN add,
         NEW D, NEW now \in Nat \cup {-1}, Added(out, first, add, names, D, now),
         NEW n \in DOMAIN add, \A m \in names : m < n
  PROVE  /\ Added(TakeAdded(out, D, n, add[n], now), first, add, names \cup {n}, D, now)
         /\ Count(TakeAdded(out, D, n, add[n], now)) = Count(out) + 1
<1>. DEFINE o == TakeAdded(out, D, n, add[n], now)
            der == add[n].der
            more == names \cup {n}
            e == EntryOf(n, add[n])
            before == Ders(add, Usable(add, names, now))
            after == Ders(add, Usable(add, more, now))
            seen == first.seen
<1>1. n \in Nat /\ add[n] \in Addition /\ \A m \in names : m \in Nat
  BY RegistryFacts
<1>2. out \in Collecting
  BY DEF Added
<1>3. Took(o, out, D, n, add[n], now)
  <2>. HIDE DEF o
  <2>. QED  BY <1>1, <1>2, TakeAddedTook DEF o
<1>4. /\ ParseError(der, now) = "none" => after = before \cup {der}
      /\ ParseError(der, now) # "none" => after = before
  BY OneMoreName
<1>5. /\ Prints(out.roots) = (seen \cup before) \ D
      /\ out.seen = seen \cup before
      /\ \A x \in ToSet(out.roots) : RootOf(x, seen, add, names)
      /\ \A m \in names : Accounted(out, add, m)
      /\ first.warnings \subseteq out.warnings
      /\ \A f \in out.seen \cap D : [kind |-> "distrusted", about |-> f] \in out.warnings
  BY DEF Added
<1>6. /\ e.fp = der /\ e.source = "Added" /\ e.name = n /\ e.purposes = Given(add[n])
  BY DEF EntryOf
<1>. HIDE DEF o, before, after, e
<1>7. /\ o \in Collecting /\ out.warnings \subseteq o.warnings
      /\ Count(o) = Count(out) + 1
  BY <1>3 DEF Took
\* What was a root stays one: a later name is never the first of a certificate.
<1>8. \A x \in ToSet(out.roots) : RootOf(x, seen, add, more)
  <2>1. SUFFICES ASSUME NEW x \in ToSet(out.roots)
                 PROVE  RootOf(x, seen, add, more)
    OBVIOUS
  <2>2. RootOf(x, seen, add, names)
    BY <1>5
  <2>. HIDE DEF seen
  <2>. QED  BY <1>1, <2>2 DEF RootOf
<1>9. CASE ParseError(der, now) # "none"
  <2>1. /\ o.roots = out.roots /\ o.seen = out.seen
        /\ [kind |-> "addition", about |-> n] \in o.warnings
    BY <1>3, <1>9 DEF Took
  <2>2. \A m \in more : Accounted(o, add, m)
    BY <1>5, <1>7, <2>1 DEF Accounted
  <2>3. /\ Prints(o.roots) = (seen \cup after) \ D
        /\ o.seen = seen \cup after
        /\ \A f \in o.seen \cap D : [kind |-> "distrusted", about |-> f] \in o.warnings
    BY <1>4, <1>5, <1>7, <1>9, <2>1
  <2>4. first.warnings \subseteq o.warnings
    BY <1>5, <1>7
  <2>. HIDE DEF more, seen
  <2>5. Added(o, first, add, more, D, now)
    BY <1>7, <1>8, <2>1, <2>2, <2>3, <2>4 DEF Added, after, seen
  <2>. QED  BY <1>7, <2>5 DEF o, more
<1>10. CASE ParseError(der, now) = "none"
  <2>. HIDE DEF seen
  <2>1. /\ o.seen = seen \cup after
        /\ \A f \in o.seen \cap D : [kind |-> "distrusted", about |-> f] \in o.warnings
    BY <1>3, <1>4, <1>5, <1>7, <1>10 DEF Took
  <2>2. /\ Prints(o.roots) = (seen \cup after) \ D
        /\ \A x \in ToSet(o.roots) : RootOf(x, seen, add, more)
        /\ Accounted(o, add, n)
        /\ ToSet(out.roots) \subseteq ToSet(o.roots)
    <3>1. CASE der \in D
      <4>1. /\ o.roots = out.roots
            /\ [kind |-> "distrusted", about |-> der] \in o.warnings
        BY <1>3, <1>10, <3>1 DEF Took
      <4>. QED  BY <1>4, <1>5, <1>8, <1>10, <3>1, <4>1 DEF Accounted
    <3>2. CASE der \notin D /\ der \in Prints(out.roots)
      <4>1. /\ o.roots = out.roots
            /\ [kind |-> "duplicate", about |-> n] \in o.warnings
        BY <1>3, <1>10, <3>2 DEF Took
      <4>. QED  BY <1>4, <1>5, <1>8, <1>10, <3>2, <4>1 DEF Accounted
    <3>3. CASE der \notin D /\ der \notin Prints(out.roots)
      <4>1. ToSet(o.roots) = ToSet(out.roots) \cup {e}
        BY <1>3, <1>10, <3>3 DEF Took, e
      <4>2. Prints(o.roots) = Prints(out.roots) \cup {der}
        BY <1>6, <4>1 DEF Prints
      <4>3. der \notin seen /\ der \notin before
        BY <1>5, <3>3
      <4>4. \A m \in names : add[m].der # der
        BY <1>10, <4>3 DEF before, Ders, Usable
      <4>5. RootOf(e, seen, add, more)
        BY <1>1, <1>6, <4>3, <4>4 DEF RootOf
      <4>6. Prints(o.roots) = (seen \cup after) \ D
        BY <1>4, <1>5, <1>10, <3>3, <4>2
      <4>7. Accounted(o, add, n)
        BY <1>6, <4>1 DEF Accounted
      <4>. QED  BY <1>8, <4>1, <4>5, <4>6, <4>7
    <3>. QED  BY <3>1, <3>2, <3>3
  <2>3. \A m \in more : Accounted(o, add, m)
    BY <1>5, <1>7, <2>2 DEF Accounted
  <2>4. first.warnings \subseteq o.warnings
    BY <1>5, <1>7
  <2>. HIDE DEF more
  <2>5. Added(o, first, add, more, D, now)
    BY <1>7, <2>1, <2>2, <2>3, <2>4 DEF Added, after, seen
  <2>. QED  BY <1>7, <2>5 DEF o, more
<1>. QED  BY <1>9, <1>10

\* Every addition of the registry.
LEMMA AdditionsFacts ==
  ASSUME NEW first, NEW taken, NEW D, Shipped(first, taken, D),
         NEW add, Registry(add), NEW now \in Nat \cup {-1}
  PROVE  LET out == TakeAdditions(first, D, NameOrder(add), add, now)
         IN  /\ Added(out, first, add, DOMAIN add, D, now)
             /\ Count(out) = Count(first) + Cardinality(DOMAIN add)
<1>. DEFINE names == NameOrder(add)
            n == Len(names)
            step == [i \in 1..n |->
                       [out \in Collecting |->
                          TakeAdded(out, D, names[i], add[names[i]], now)]]
            pass[i \in 0..Len(names)] ==
                IF i = 0 THEN first
                ELSE TakeAdded(pass[i - 1], D, names[i], add[names[i]], now)
<1>1. /\ names \in Seq(DOMAIN add) /\ n = Cardinality(DOMAIN add)
      /\ ToSet(names) = DOMAIN add
      /\ \A a, b \in DOMAIN names : a < b => names[a] < names[b]
  BY NameFacts DEF Registry
<1>2. n \in Nat /\ DOMAIN names = 1..n /\ \A i \in 1..n : names[i] \in DOMAIN add
  BY <1>1
<1>. HIDE DEF names
<1>3. step \in StepsOf(n, Collecting) /\ first \in Collecting
  <2>1. ASSUME NEW i \in 1..n, NEW out \in Collecting
        PROVE  TakeAdded(out, D, names[i], add[names[i]], now) \in Collecting
    <3>1. names[i] \in Nat /\ add[names[i]] \in Addition
      BY <1>2, RegistryFacts
    <3>. QED  BY <3>1, TakeAddedTook DEF Took
  <2>2. first \in Collecting
    BY DEF Shipped, Collecting
  <2>. QED  BY <2>1, <2>2 DEF StepsOf
<1>4. PICK f \in [0..n -> Collecting] :
        f[0] = first /\ \A i \in 1..n : f[i] = step[i][f[i - 1]]
  <2>. HIDE DEF step, n
  <2>1. \E f : IsPass(f, n, Collecting, first, step)
    BY <1>2, <1>3, PassExists
  <2>. QED  BY <2>1 DEF IsPass
<1>5. f = [i \in 0..n |-> IF i = 0 THEN first
                          ELSE TakeAdded(f[i - 1], D, names[i], add[names[i]], now)]
  <2>1. \A i \in 0..n : i # 0 => i \in 1..n /\ f[i - 1] \in Collecting
    <3>1. \A i \in 0..n : i # 0 => i \in 1..n /\ i - 1 \in 0..n
      BY <1>2
    <3>. HIDE DEF step, n
    <3>. QED  BY <1>4, <3>1
  <2>2. \A i \in 1..n, out \in Collecting :
          step[i][out] = TakeAdded(out, D, names[i], add[names[i]], now)
    OBVIOUS
  <2>. HIDE DEF step, n
  <2>3. \A i \in 0..n : f[i] = IF i = 0 THEN first
                               ELSE TakeAdded(f[i - 1], D, names[i], add[names[i]], now)
    BY <1>4, <2>1, <2>2
  <2>4. f = [i \in 0..n |-> f[i]]
    BY <1>4
  <2>. QED  BY <2>3, <2>4
<1>6. pass = [i \in 0..n |-> IF i = 0 THEN first
                             ELSE TakeAdded(pass[i - 1], D, names[i], add[names[i]], now)]
  BY <1>5
<1>7. TakeAdditions(first, D, names, add, now) = pass[n]
  BY DEF TakeAdditions
<1>. HIDE DEF pass, step
<1>. DEFINE before(i) == {names[j] : j \in 1..i}
            Good(i) == /\ Added(pass[i], first, add, before(i), D, now)
                       /\ Count(pass[i]) = Count(first) + i
<1>8. Good(0)
  <2>1. pass[0] = first /\ before(0) = {}
    BY <1>2, <1>6
  <2>2. Added(first, first, add, {}, D, now)
    BY AdditionsStart
  <2>3. Count(first) = Count(first) + 0
    BY DEF Count, Shipped, Collected
  <2>. HIDE DEF before
  <2>. QED  BY <2>1, <2>2, <2>3
<1>9. ASSUME NEW i \in 1..n, Good(i - 1)
      PROVE  Good(i)
  <2>. DEFINE out == pass[i - 1]
              set == before(i - 1)
              k == names[i]
  <2>1. i \in 0..n /\ i # 0 /\ i - 1 \in Nat /\ k \in DOMAIN add
    BY <1>2
  <2>2. before(i) = set \cup {k}
    BY <1>2, <2>1
  <2>3. set \subseteq DOMAIN add /\ \A m \in set : m < k
    BY <1>1, <1>2
  <2>4. pass[i] = TakeAdded(out, D, k, add[k], now)
    BY <1>6, <2>1
  <2>5. Added(out, first, add, set, D, now) /\ Count(out) = Count(first) + (i - 1)
    BY <1>9
  <2>6. Count(first) \in Nat
    BY DEF Count, Shipped, Collected
  <2>. HIDE DEF before, out, set, k
  <2>7. /\ Added(TakeAdded(out, D, k, add[k], now), first, add, set \cup {k}, D, now)
        /\ Count(TakeAdded(out, D, k, add[k], now)) = Count(out) + 1
    BY <2>1, <2>3, <2>5, TakeAddedFacts
  <2>8. Count(pass[i]) = Count(first) + i
    BY <1>2, <2>1, <2>4, <2>5, <2>6, <2>7
  <2>. QED  BY <2>2, <2>4, <2>7, <2>8
<1>10. Good(n)
  <2>. DEFINE T == {i \in 0..n : Good(i)}
  <2>. HIDE DEF Good
  <2>1. 0 \in T
    BY <1>2, <1>8
  <2>2. ASSUME NEW i \in 1..n, i - 1 \in T
        PROVE  i \in T
    BY <1>2, <1>9, <2>2
  <2>3. \A i \in 0..n : i \in T
    <3>. HIDE DEF T
    <3>. QED  BY <1>2, <2>1, <2>2, CountUp
  <2>4. n \in 0..n
    BY <1>2
  <2>. HIDE DEF n
  <2>. QED  BY <2>3, <2>4
<1>11. before(n) = DOMAIN add
  BY <1>1, <1>2 DEF ToSet
<1>. HIDE DEF before, n
<1>. QED  BY <1>1, <1>7, <1>10, <1>11 DEF names

-----------------------------------------------------------------------------
(***************************************************************************)
(* What compose returns, against the definition of module TrustStore.      *)
(***************************************************************************)

\* Inputs, and blocks as from_pem reads them.
InputOK ==
    /\ Registry(input.add) /\ input.now \in Nat \cup {-1}
    /\ \A d \in input.distrust : d.fp \in Fingerprints
Blocked == shipped \in Seq(Fingerprints \cup {0})

\* compose before its sort.
Gone == {Normalise(d) : d \in input.distrust}
First == TakeBlocks(shipped, Gone)
Both == TakeAdditions(First, Gone, NameOrder(input.add), input.add, input.now)

\* What both passes have established together.
LEMMA BothFacts ==
  ASSUME InputOK, Blocked
  PROVE  /\ Shipped(First, ToSet(shipped), Gone) /\ First.seen = ShippedSet
         /\ Added(Both, First, input.add, DOMAIN input.add, Gone, input.now)
         /\ Both \in Collected /\ Distinct(Both.roots)
         /\ Count(Both) = Len(shipped) + Cardinality(DOMAIN input.add)
<1>1. Shipped(First, ToSet(shipped), Gone) /\ Count(First) = Len(shipped)
  BY BlocksFacts DEF Blocked, First
<1>2. /\ Added(Both, First, input.add, DOMAIN input.add, Gone, input.now)
      /\ Count(Both) = Count(First) + Cardinality(DOMAIN input.add)
  <2>1. Registry(input.add) /\ input.now \in Nat \cup {-1}
    BY DEF InputOK
  <2>. QED  BY <1>1, <2>1, AdditionsFacts DEF Both
<1>3. First.seen = ShippedSet
  BY <1>1 DEF Shipped, ShippedSet
<1>4. Both \in Collected /\ Distinct(Both.roots)
  BY <1>2 DEF Added, Collecting
<1>. QED  BY <1>1, <1>2, <1>3, <1>4

\* What the map of the additions says of one of them: the word of the first
\* name.
LEMMA MapFacts ==
  ASSUME Registry(input.add), NEW n \in DOMAIN input.add, input.add[n].der \in IsCA,
         \A m \in DOMAIN input.add : input.add[m].der = input.add[n].der => n <= m
  PROVE  /\ input.add[n].der \in DOMAIN AddedMap
         /\ AddedMap[input.add[n].der] =
               IF Given(input.add[n]) \cap ServerAuthSpellings # {} THEN ServerAuth
                                                                  ELSE "Other"
<1>. DEFINE f == input.add[n].der
            certs == {input.add[m].der : m \in DOMAIN input.add} \cap IsCA
            name(g) == CHOOSE m \in DOMAIN input.add :
                          /\ input.add[m].der = g
                          /\ \A k \in DOMAIN input.add : input.add[k].der = g => m <= k
            purposes(g) == input.add[name(g)].purposes
            word(g) == IF purposes(g) = {} \/ purposes(g) \cap ServerAuthSpellings # {}
                       THEN ServerAuth ELSE "Other"
<1>1. f \in certs
  OBVIOUS
<1>2. name(f) = n
  <2>1. /\ name(f) \in DOMAIN input.add /\ input.add[name(f)].der = f
        /\ \A k \in DOMAIN input.add : input.add[k].der = f => name(f) <= k
    <3>1. \E m \in DOMAIN input.add :
             /\ input.add[m].der = f
             /\ \A k \in DOMAIN input.add : input.add[k].der = f => m <= k
      OBVIOUS
    <3>. HIDE DEF f
    <3>. QED  BY <3>1
  <2>. HIDE DEF name
  <2>2. name(f) <= n /\ n <= name(f)
    BY <2>1
  <2>3. name(f) \in Nat /\ n \in Nat
    BY <2>1, RegistryFacts
  <2>. QED  BY <2>2, <2>3
<1>3. AddedMap = [g \in certs |-> word(g)]
  BY DEF AddedMap
<1>4. AddedMap[f] = word(f) /\ f \in DOMAIN AddedMap
  <2>. HIDE DEF f, certs, word
  <2>. QED  BY <1>1, <1>3
<1>5. purposes(f) = input.add[n].purposes
  <2>. HIDE DEF name
  <2>. QED  BY <1>2
<1>6. word(f) = IF Given(input.add[n]) \cap ServerAuthSpellings # {} THEN ServerAuth
                                                                    ELSE "Other"
  <2>. HIDE DEF purposes
  <2>1. CASE input.add[n].purposes = {}
    <3>1. Given(input.add[n]) \cap ServerAuthSpellings # {}
      BY <2>1 DEF Given, ServerAuth, ServerAuthSpellings
    <3>. QED  BY <1>5, <2>1, <3>1
  <2>2. CASE input.add[n].purposes # {}
    <3>1. Given(input.add[n]) = input.add[n].purposes
      BY <2>2 DEF Given
    <3>. QED  BY <1>5, <2>2, <3>1
  <2>. QED  BY <2>1, <2>2
<1>. QED  BY <1>4, <1>6

\* The reference, certificate by certificate.
RefPrints == (ShippedSet \cup ((DOMAIN AddedMap) \ ExpiredSet)) \ Gone
RefEntry(f) ==
    IF f \in ShippedSet
    THEN [fp |-> f, source |-> "Shipped", purpose |-> ServerAuth]
    ELSE [fp |-> f, source |-> "Added", purpose |-> AddedMap[f]]

\* The reference, as one entry for each of its fingerprints.
LEMMA ReferenceEntries == Reference = {RefEntry(f) : f \in RefPrints}
<1>. DEFINE S == ShippedSet
            M == AddedMap
            X == ExpiredSet
<1>1. Gone = {d.fp : d \in input.distrust}
  BY DEF Gone, Normalise
<1>2. Reference = Roots(S, M, Gone, X)
  BY <1>1 DEF Reference
<1>. HIDE DEF S, M, X
<1>. QED  BY <1>2 DEF Roots, RefPrints, RefEntry, S, M, X

\* The usable additions are those of the map that have not expired.
LEMMA UsableFacts ==
  ASSUME InputOK
  PROVE  Ders(input.add, Usable(input.add, DOMAIN input.add, input.now))
            = (DOMAIN AddedMap) \ ExpiredSet
<1>. DEFINE add == input.add
            now == input.now
<1>1. \A n \in DOMAIN add : add[n].der \in Fingerprints
  BY RegistryFacts DEF InputOK
<1>2. \A n \in DOMAIN add :
        ParseError(add[n].der, now) = "none" <=> add[n].der \in IsCA /\ ~Expired(add[n].der, now)
  <2>1. now \in Nat \cup {-1}
    BY DEF InputOK
  <2>. HIDE DEF now, add
  <2>. QED  BY <1>1, <2>1, ParseFacts
<1>3. \A f \in Fingerprints : f \in ExpiredSet <=> Expired(f, now)
  BY DEF ExpiredSet, Expired
<1>4. DOMAIN AddedMap = {add[n].der : n \in DOMAIN add} \cap IsCA
  BY DEF AddedMap
<1>. HIDE DEF add, now
<1>. QED  BY <1>1, <1>2, <1>3, <1>4 DEF Ders, Usable, add, now

\* compose collects the reference's fingerprints.
LEMMA PrintsAreReference ==
  ASSUME InputOK, Blocked
  PROVE  Prints(Both.roots) = RefPrints
BY BothFacts, UsableFacts DEF Added, RefPrints

\* Each root is the entry of the reference for its certificate.
LEMMA EntriesAreReference ==
  ASSUME InputOK, Blocked, NEW e \in ToSet(Both.roots)
  PROVE  Abstract(e) = RefEntry(e.fp)
<1>1. RootOf(e, ShippedSet, input.add, DOMAIN input.add)
  BY BothFacts DEF Added
<1>2. e.fp \in RefPrints
  BY PrintsAreReference DEF Prints
<1>3. CASE e.source = "Shipped" /\ e.fp \in ShippedSet /\ e.purposes = {ServerAuth}
  <2>1. e.purposes \cap ServerAuthSpellings # {}
    BY <1>3 DEF ServerAuth, ServerAuthSpellings
  <2>. QED  BY <1>3, <2>1 DEF Abstract, RefEntry
<1>4. CASE /\ e.source = "Added" /\ e.fp \notin ShippedSet
           /\ e.name \in DOMAIN input.add /\ input.add[e.name].der = e.fp
           /\ e.purposes = Given(input.add[e.name])
           /\ \A m \in DOMAIN input.add : input.add[m].der = e.fp => e.name <= m
  <2>1. input.add[e.name].der \in IsCA
    <3>1. DOMAIN AddedMap \subseteq IsCA
      BY DEF AddedMap
    <3>. QED  BY <1>2, <1>4, <3>1 DEF RefPrints
  <2>2. Registry(input.add)
    BY DEF InputOK
  <2>3. AddedMap[e.fp] = IF e.purposes \cap ServerAuthSpellings # {} THEN ServerAuth
                                                                     ELSE "Other"
    BY <1>4, <2>1, <2>2, MapFacts
  <2>. QED  BY <1>4, <2>3 DEF Abstract, RefEntry
<1>. QED  BY <1>1, <1>3, <1>4 DEF RootOf

\* compose's entries before the sort are the reference.
LEMMA AbstractRoots ==
  ASSUME InputOK, Blocked
  PROVE  {Abstract(e) : e \in ToSet(Both.roots)} = Reference
<1>1. {Abstract(e) : e \in ToSet(Both.roots)} = {RefEntry(e.fp) : e \in ToSet(Both.roots)}
  BY EntriesAreReference
<1>2. {RefEntry(e.fp) : e \in ToSet(Both.roots)} = {RefEntry(f) : f \in RefPrints}
  <2>1. RefPrints = {e.fp : e \in ToSet(Both.roots)}
    BY PrintsAreReference DEF Prints
  <2>. QED  BY <2>1
<1>. QED  BY <1>1, <1>2, ReferenceEntries

\* compose's result: the roots of the two passes, sorted, and their warnings.
Composed(c) ==
    /\ Len(shipped) < Floor => ~c.ok /\ c.out = Empty
    /\ Len(shipped) >= Floor =>
          /\ c.ok <=> ToSet(Both.roots) # {}
          /\ c.out.roots \in Seq(EntrySet)
          /\ ToSet(c.out.roots) = ToSet(Both.roots)
          /\ \A i, j \in DOMAIN c.out.roots :
                i < j => c.out.roots[i].fp < c.out.roots[j].fp
          /\ c.out.warnings = Both.warnings
                \cup {[kind |-> "unmatched", about |-> f] : f \in Gone \ Both.seen}
          /\ Count(c.out) = Count(Both)

\* What compose returns: its floor, its refusal, its order, its warnings and
\* counters.
LEMMA ComposeFacts ==
  ASSUME InputOK, Blocked
  PROVE  Composed(Compose(input, shipped))
<1>. DEFINE out == WarnUnmatched(Both, Gone)
            sorted == SortRoots(out.roots)
            some == sorted # <<>>
            final == [out EXCEPT !.roots = sorted]
            c == Compose(input, shipped)
<1>1. Both \in Collected /\ Distinct(Both.roots)
  BY BothFacts
<1>2. /\ out.roots = Both.roots /\ Count(out) = Count(Both)
      /\ out.warnings = Both.warnings
            \cup {[kind |-> "unmatched", about |-> f] : f \in Gone \ Both.seen}
      /\ out = [out EXCEPT !.roots = out.roots]
  BY <1>1 DEF WarnUnmatched, Collected, Count
<1>3. /\ Len(shipped) < Floor => c = [ok |-> FALSE, out |-> Empty]
      /\ ~(Len(shipped) < Floor) =>
            c = [ok |-> some, out |-> final]
  BY DEF Compose, Both, First, Gone
<1>4. /\ final.roots = sorted /\ final.warnings = out.warnings
      /\ Count(final) = Count(out)
  BY <1>1 DEF WarnUnmatched, Collected, Count
<1>5. /\ sorted \in Seq(EntrySet) /\ ToSet(sorted) = ToSet(Both.roots)
      /\ \A i, j \in DOMAIN sorted : i < j => sorted[i].fp < sorted[j].fp
  <2>1. Both.roots \in Seq(EntrySet)
    BY <1>1 DEF Collected
  <2>. QED  BY <1>1, <1>2, <2>1, SortRootsFacts
<1>. HIDE DEF out, sorted, c, final
<1>6. some <=> ToSet(Both.roots) # {}
  <2>1. sorted # <<>> <=> ToSet(sorted) # {}
    BY <1>5 DEF ToSet
  <2>. QED  BY <1>5, <2>1
<1>7. Len(shipped) \in Nat /\ Floor \in Nat
  BY ComposeAssumption DEF Blocked
<1>. HIDE DEF some
<1>8. CASE Len(shipped) < Floor
  BY <1>3, <1>7, <1>8 DEF Composed, c
<1>9. CASE ~(Len(shipped) < Floor)
  <2>1. c.ok = some /\ c.out = final
    BY <1>3, <1>9
  <2>. QED  BY <1>2, <1>4, <1>5, <1>6, <1>9, <2>1 DEF Composed, c
<1>. QED  BY <1>8, <1>9

-----------------------------------------------------------------------------
(***************************************************************************)
(* The properties of one composition.                                      *)
(***************************************************************************)

\* What stands in result once compose has run.
Settled == InputOK /\ Blocked /\ result = Compose(input, shipped)

\* The same of a result that is not an error.
LEMMA OutFacts ==
  ASSUME Settled, result.ok
  PROVE  /\ Len(shipped) >= Floor /\ ToSet(Out.roots) = ToSet(Both.roots)
         /\ Out.warnings = Both.warnings
                \cup {[kind |-> "unmatched", about |-> f] : f \in Gone \ Both.seen}
         /\ Count(Out) = Count(Both)
         /\ {Abstract(Out.roots[i]) : i \in DOMAIN Out.roots} = Reference
<1>1. Composed(result)
  BY ComposeFacts DEF Settled
<1>2. Len(shipped) >= Floor
  <2>1. Len(shipped) \in Nat /\ Floor \in Nat
    BY ComposeAssumption DEF Settled, Blocked
  <2>. QED  BY <1>1, <2>1 DEF Composed
<1>3. /\ ToSet(Out.roots) = ToSet(Both.roots) /\ Count(Out) = Count(Both)
      /\ Out.warnings = Both.warnings
                \cup {[kind |-> "unmatched", about |-> f] : f \in Gone \ Both.seen}
  BY <1>1, <1>2 DEF Composed, Out
<1>4. {Abstract(Out.roots[i]) : i \in DOMAIN Out.roots} = {Abstract(e) : e \in ToSet(Out.roots)}
  BY DEF ToSet
<1>5. {Abstract(e) : e \in ToSet(Both.roots)} = Reference
  BY AbstractRoots DEF Settled
<1>. QED  BY <1>2, <1>3, <1>4, <1>5

\* The result is the one the precedence rules define.
LEMMA SettledIsReference ==
  ASSUME Settled
  PROVE  /\ result.ok <=> Composes(Len(shipped), Floor, Reference)
         /\ result.ok => {Abstract(Out.roots[i]) : i \in DOMAIN Out.roots} = Reference
<1>1. Composed(result) /\ {Abstract(e) : e \in ToSet(Both.roots)} = Reference
  BY ComposeFacts, AbstractRoots DEF Settled
<1>2. Len(shipped) \in Nat /\ Floor \in Nat
  BY ComposeAssumption DEF Settled, Blocked
<1>3. Reference # {} <=> ToSet(Both.roots) # {}
  BY <1>1
<1>4. result.ok <=> Len(shipped) >= Floor /\ Reference # {}
  BY <1>1, <1>2, <1>3 DEF Composed
<1>. QED  BY <1>4, OutFacts DEF Composes

\* Its roots are in fingerprint order.
LEMMA SettledIsOrdered ==
  ASSUME Settled
  PROVE  \A i, j \in DOMAIN Out.roots : i < j => Out.roots[i].fp < Out.roots[j].fp
<1>1. Composed(result)
  BY ComposeFacts DEF Settled
<1>2. Len(shipped) \in Nat /\ Floor \in Nat
  BY ComposeAssumption DEF Settled, Blocked
<1>3. CASE Len(shipped) < Floor
  BY <1>1, <1>3 DEF Composed, Out, Empty
<1>4. CASE Len(shipped) >= Floor
  BY <1>1, <1>4 DEF Composed, Out
<1>. QED  BY <1>2, <1>3, <1>4

\* What is not among them is warned of.
LEMMA SettledIsAudible ==
  ASSUME Settled, result.ok
  PROVE  LET warned(k, a) == [kind |-> k, about |-> a] \in Out.warnings
             served == {Out.roots[i].fp : i \in DOMAIN Out.roots}
         IN  /\ \A n \in DOMAIN input.add :
                   \/ \E i \in DOMAIN Out.roots : Out.roots[i].name = n
                   \/ warned("addition", n) \/ warned("duplicate", n)
                   \/ warned("distrusted", input.add[n].der)
             /\ \A f \in ToSet(shipped) :
                   f \in served \/ warned("block", ParseError(f, -1)) \/ warned("distrusted", f)
             /\ \A d \in input.distrust :
                   warned("distrusted", d.fp) \/ warned("unmatched", d.fp)
             /\ Out.shipped + Out.added + Out.skipped =
                   Len(shipped) + Cardinality(DOMAIN input.add)
<1>. DEFINE warned(k, a) == [kind |-> k, about |-> a] \in Out.warnings
            served == {Out.roots[i].fp : i \in DOMAIN Out.roots}
<1>1. /\ ToSet(Out.roots) = ToSet(Both.roots)
      /\ Out.warnings = Both.warnings
                \cup {[kind |-> "unmatched", about |-> f] : f \in Gone \ Both.seen}
      /\ Count(Out) = Count(Both)
  BY OutFacts
<1>2. /\ Shipped(First, ToSet(shipped), Gone) /\ First.seen = ShippedSet
      /\ Added(Both, First, input.add, DOMAIN input.add, Gone, input.now)
      /\ Count(Both) = Len(shipped) + Cardinality(DOMAIN input.add)
  BY BothFacts DEF Settled
<1>3. /\ \A n \in DOMAIN input.add : Accounted(Both, input.add, n)
      /\ First.warnings \subseteq Both.warnings
      /\ \A f \in Both.seen \cap Gone : [kind |-> "distrusted", about |-> f] \in Both.warnings
      /\ ShippedSet \subseteq Both.seen
      /\ ShippedSet \ Gone \subseteq Prints(Both.roots)
  BY <1>2 DEF Added
<1>4. \A e \in ToSet(Both.roots) : \E i \in DOMAIN Out.roots : Out.roots[i] = e
  BY <1>1 DEF ToSet
<1>5. ASSUME NEW n \in DOMAIN input.add
      PROVE  \/ \E i \in DOMAIN Out.roots : Out.roots[i].name = n
             \/ warned("addition", n) \/ warned("duplicate", n)
             \/ warned("distrusted", input.add[n].der)
  BY <1>1, <1>3, <1>4 DEF Accounted
<1>6. ASSUME NEW f \in ToSet(shipped)
      PROVE  f \in served \/ warned("block", ParseError(f, -1)) \/ warned("distrusted", f)
  <2>1. CASE f \notin IsCA
    BY <1>1, <1>2, <1>3, <2>1 DEF Shipped
  <2>2. CASE f \in IsCA /\ f \in Gone
    <3>1. f \in ShippedSet
      BY <2>2 DEF ShippedSet
    <3>. QED  BY <1>1, <1>3, <2>2, <3>1
  <2>3. CASE f \in IsCA /\ f \notin Gone
    <3>1. f \in Prints(Both.roots)
      BY <1>3, <2>3 DEF ShippedSet
    <3>. QED  BY <1>4, <3>1 DEF Prints
  <2>. QED  BY <2>1, <2>2, <2>3
<1>7. ASSUME NEW d \in input.distrust
      PROVE  warned("distrusted", d.fp) \/ warned("unmatched", d.fp)
  <2>1. d.fp \in Gone
    BY DEF Gone, Normalise
  <2>. QED  BY <1>1, <1>3, <2>1
<1>8. Out.shipped + Out.added + Out.skipped = Len(shipped) + Cardinality(DOMAIN input.add)
  BY <1>1, <1>2 DEF Count
<1>. QED  BY <1>5, <1>6, <1>7, <1>8

\* The ServerAuth roots of the result are those of the reference.
LEMMA SettledIsForServerAuth ==
  ASSUME Settled, result.ok
  PROVE  PurposeRoots(Out.roots, ServerAuth) = FileRoots(Reference)
<1>. DEFINE r == Out.roots
<1>1. \A p : Folded(p) = ServerAuth <=> p \in ServerAuthSpellings
  BY DEF Folded, ServerAuth, ServerAuthSpellings
<1>2. \A i \in DOMAIN r : (\E p \in r[i].purposes : Folded(p) = ServerAuth)
                             <=> Abstract(r[i]).purpose = ServerAuth
  BY <1>1 DEF Abstract, ServerAuth
<1>3. \A i \in DOMAIN r : Abstract(r[i]).fp = r[i].fp
  BY DEF Abstract
<1>4. Reference = {Abstract(r[i]) : i \in DOMAIN r}
  BY OutFacts
<1>5. PurposeRoots(r, ServerAuth) =
        {r[i].fp : i \in {j \in DOMAIN r : Abstract(r[j]).purpose = ServerAuth}}
  BY <1>2 DEF PurposeRoots
<1>6. FileRoots(Reference) = {e.fp : e \in {x \in Reference : x.purpose = ServerAuth}}
  BY DEF FileRoots, FingerprintsOf, ForPurpose
<1>. HIDE DEF r
<1>7. PurposeRoots(r, ServerAuth) \subseteq FileRoots(Reference)
  BY <1>3, <1>4, <1>5, <1>6
<1>8. FileRoots(Reference) \subseteq PurposeRoots(r, ServerAuth)
  BY <1>3, <1>4, <1>5, <1>6
<1>. QED  BY <1>7, <1>8 DEF r

-----------------------------------------------------------------------------
(***************************************************************************)
(* The text of the bundle, and what is read from it.                       *)
(***************************************************************************)

\* Every block, whole or damaged, is lines.
LEMMA BlocksType == \A f \in Fingerprints : Blocks[f] \in Seq(Line) /\ Blocks[f] # <<>>
<1>. SUFFICES ASSUME NEW f \in Fingerprints
              PROVE  Blocks[f] \in Seq(Line) /\ Blocks[f] # <<>>
  OBVIOUS
<1>1. Der[f] \in Seq(Byte) /\ Blocks[f] = ToPem(Der[f])
  BY ComposeAssumption DEF Blocks
<1>2. TextLines(Der[f]) \in Seq(Line) /\ ToPem(Der[f]) = <<Begin>> \o TextLines(Der[f]) \o <<End>>
  BY <1>1, TextLinesFacts
<1>3. <<Begin>> \in Seq(Line) /\ <<End>> \in Seq(Line) /\ Len(<<Begin>>) = 1
  BY LineFacts
<1>. DEFINE t == TextLines(Der[f])
<1>. HIDE DEF t
<1>4. <<Begin>> \o t \o <<End>> # <<>>
  BY <1>2, <1>3 DEF t
<1>. QED  BY <1>1, <1>2, <1>4, ToPemType DEF t

\* The comments and empty lines of a bundle are lines.
LEMMA CommentType == Comment \in Line /\ Text(<<>>) \in Line
<1>1. <<Foreign>> \in Seq(Char) /\ <<>> \in Seq(Char)
  BY DEF Foreign, Char
<1>. QED  BY <1>1, LineFacts DEF Comment

\* So is every fragment of a bundle's text.
LEMMA FragmentType ==
  ASSUME NEW f \in Whole \cup Accident
  PROVE  FragmentLines(f) \in Seq(Line)
<1>1. /\ f.cert \in Fingerprints
      /\ f.kind \in {"whole", "endless", "headless", "garbled", "short", "comment"}
  BY ComposeAssumption DEF Whole, Accident
<1>. DEFINE pem == Blocks[f.cert]
<1>2. pem \in Seq(Line) /\ pem # <<>>
  BY <1>1, BlocksType
<1>3. Front(pem) \in Seq(Line) /\ Tail(pem) \in Seq(Line)
  <2>. HIDE DEF pem
  <2>. QED  BY <1>2, EndsType
<1>4. <<Begin, Comment>> \in Seq(Line) /\ <<Comment>> \in Seq(Line)
  BY CommentType, LineFacts
<1>5. <<Begin, Comment>> \o Tail(pem) \in Seq(Line)
  BY <1>3, <1>4, ConcatType
<1>6. ToPem(Front(Der[f.cert])) \in Seq(Line)
  <2>1. Der[f.cert] \in Seq(Byte)
    BY <1>1, ComposeAssumption
  <2>2. Front(Der[f.cert]) \in Seq(Byte)
    BY <2>1, EndsType
  <2>. QED  BY <2>2, ToPemType
<1>. HIDE DEF pem
<1>7. /\ f.kind = "whole" => FragmentLines(f) = pem
      /\ f.kind = "endless" => FragmentLines(f) = Front(pem)
      /\ f.kind = "headless" => FragmentLines(f) = Tail(pem)
      /\ f.kind = "garbled" => FragmentLines(f) = <<Begin, Comment>> \o Tail(pem)
      /\ f.kind = "short" => FragmentLines(f) = ToPem(Front(Der[f.cert]))
      /\ f.kind = "comment" => FragmentLines(f) = <<Comment>>
  BY DEF FragmentLines, pem
<1>. QED  BY <1>1, <1>2, <1>3, <1>4, <1>5, <1>6, <1>7

TextOK == \E n \in Nat : input.text \in [1..n -> Whole \cup Accident]

\* Whatever the bundle's text, what is read from it is a sequence of
\* certificates and of blocks that are none.
LEMMA ReadFacts ==
  ASSUME TextOK
  PROVE  LET blocks == FromPem(Lines(input.text))
         IN  [i \in DOMAIN blocks |-> CertificateOf(blocks[i])] \in Seq(Fingerprints \cup {0})
<1>. DEFINE text == input.text
            pieces == [i \in DOMAIN text |-> FragmentLines(text[i])]
            blocks == FromPem(Lines(text))
<1>1. PICK n \in Nat : text \in [1..n -> Whole \cup Accident]
  BY DEF TextOK
<1>2. \A i \in 1..n : pieces[i] \in Seq(Line)
  BY <1>1, FragmentType
<1>3. pieces \in [1..n -> Seq(Line)]
  <2>1. DOMAIN text = 1..n
    BY <1>1
  <2>. HIDE DEF text
  <2>. QED  BY <1>2, <2>1
<1>4. pieces \in Seq(Seq(Line))
  <2>. DEFINE V == Seq(Line)
  <2>. HIDE DEF V, pieces
  <2>1. pieces \in [1..n -> V]
    BY <1>3 DEF V
  <2>2. pieces \in Seq(V)
    BY <2>1, FunctionIsSeq
  <2>. QED  BY <2>2 DEF V
<1>5. Lines(text) \in Seq(Line)
  <2>1. Lines(text) = FlattenSeq(pieces)
    BY DEF Lines
  <2>. HIDE DEF pieces
  <2>. QED  BY <1>4, <2>1, FlattenType
<1>6. blocks \in Seq(Seq(Byte))
  BY <1>5, ScannedType
<1>. HIDE DEF blocks
<1>. DEFINE V == Seq(Byte)
<1>7. Len(blocks) \in Nat /\ DOMAIN blocks = 1..Len(blocks)
  <2>1. blocks \in Seq(V)
    BY <1>6
  <2>. HIDE DEF V
  <2>. QED  BY <2>1
<1>8. \A b : CertificateOf(b) \in Fingerprints \cup {0}
  BY DEF CertificateOf
<1>9. [i \in DOMAIN blocks |-> CertificateOf(blocks[i])] \in [1..Len(blocks) -> Fingerprints \cup {0}]
  BY <1>7, <1>8
<1>10. [i \in DOMAIN blocks |-> CertificateOf(blocks[i])] \in Seq(Fingerprints \cup {0})
  BY <1>7, <1>9, FunctionIsSeq
<1>. QED  BY <1>10 DEF blocks

-----------------------------------------------------------------------------
(***************************************************************************)
(* The invariant: what has been read is a sequence of blocks, and once     *)
(* composition has run the result is the one of this input and of these    *)
(* blocks; nothing after it touches either.                                *)
(***************************************************************************)
ComposeInv ==
    /\ InputOK /\ TextOK
    /\ stage \in {"read", "compose", "render", "done"}
    /\ stage # "read" => Blocked
    /\ Done => result = Compose(input, shipped)

\* Every input is well formed.
LEMMA InitInvariant == Init => ComposeInv
<1>. SUFFICES ASSUME Init PROVE ComposeInv
  OBVIOUS
<1>1. InputOK
  <2>1. input.now \in Nat \cup {-1} /\ \A d \in input.distrust : d.fp \in Fingerprints
    <3>1. CASE input \in Registries
      <4>1. input.now \in Clocks /\ input.distrust \in SUBSET Distrusts
        BY <3>1 DEF Registries
      <4>2. Clocks \subseteq Nat \cup {-1}
        BY ComposeAssumption
      <4>3. Distrusts \subseteq [fp : Fingerprints, spelling : STRING]
        BY ComposeAssumption
      <4>4. \A d \in Distrusts : d.fp \in Fingerprints
        BY <4>3
      <4>. QED  BY <4>1, <4>2, <4>4
    <3>2. CASE input \in DamagedBundles
      <4>1. input.now = -1 /\ input.distrust = {}
        BY <3>2 DEF DamagedBundles
      <4>. QED  BY <4>1
    <3>3. CASE input \in SubjectChoices
      <4>1. input.now = -1 /\ input.distrust = {}
        BY <3>3 DEF SubjectChoices
      <4>. QED  BY <4>1
    <3>. QED  BY <3>1, <3>2, <3>3 DEF Init
  <2>2. Registry(input.add)
    <3>1. CASE input \in Registries
      <4>1. PICK S \in SUBSET AdditionNames : input.add \in [S -> Addition]
        BY <3>1 DEF Registries
      <4>. QED  BY <4>1 DEF Registry
    <3>2. CASE input \in DamagedBundles \cup SubjectChoices
      <4>1. input.add \in NoAddition
        BY <3>2 DEF DamagedBundles, SubjectChoices
      <4>2. DOMAIN input.add = {}
        BY <4>1 DEF NoAddition
      <4>. QED  BY <4>2 DEF Registry
    <3>. QED  BY <3>1, <3>2 DEF Init
  <2>. QED  BY <2>1, <2>2 DEF InputOK
<1>2. TextOK
  <2>1. CASE input \in Registries
    <3>1. PICK n \in 0..MaxBlocks : input.text \in [1..n -> Whole]
      BY <2>1 DEF Registries, Texts
    <3>2. input.text \in [1..n -> Whole \cup Accident] /\ n \in Nat
      BY <3>1, ComposeAssumption
    <3>. QED  BY <3>2 DEF TextOK
  <2>2. CASE input \in DamagedBundles
    <3>1. PICK n \in 0..MaxBlocks : input.text \in [1..n -> Whole \cup Accident]
      BY <2>2 DEF DamagedBundles, Texts
    <3>2. n \in Nat
      BY <3>1, ComposeAssumption
    <3>. QED  BY <3>1, <3>2 DEF TextOK
  <2>3. CASE input \in SubjectChoices
    <3>1. input.text \in [1..Floor -> [kind : {"whole"}, cert : IsCA]]
      BY <2>3 DEF SubjectChoices
    <3>2. [kind : {"whole"}, cert : IsCA] \subseteq Whole /\ Floor \in Nat
      BY ComposeAssumption DEF Whole
    <3>3. input.text \in [1..Floor -> Whole \cup Accident]
      BY <3>1, <3>2
    <3>. QED  BY <3>2, <3>3 DEF TextOK
  <2>. QED  BY <2>1, <2>2, <2>3 DEF Init
<1>. QED  BY <1>1, <1>2 DEF Init, ComposeInv, Done

\* Every step keeps the invariant.
LEMMA NextInvariant == ComposeInv /\ [Next]_vars => ComposeInv'
<1>. SUFFICES ASSUME ComposeInv, [Next]_vars PROVE ComposeInv'
  OBVIOUS
<1>1. CASE ReadBundle
  <2>1. InputOK' /\ TextOK' /\ stage' = "compose"
    BY <1>1 DEF ReadBundle, ComposeInv, InputOK, TextOK
  <2>2. shipped' \in Seq(Fingerprints \cup {0})
    BY <1>1, ReadFacts DEF ReadBundle, ComposeInv
  <2>. QED  BY <2>1, <2>2 DEF ComposeInv, Blocked, Done
<1>2. CASE ComposeStore
  <2>1. InputOK' /\ TextOK' /\ Blocked' /\ stage' \in {"render", "done"}
    BY <1>2 DEF ComposeStore, ComposeInv, InputOK, TextOK, Blocked
  <2>2. result' = Compose(input, shipped)'
    BY <1>2 DEF ComposeStore, Compose
  <2>. QED  BY <2>1, <2>2 DEF ComposeInv
<1>3. CASE WriteFiles
  <2>1. InputOK' /\ TextOK' /\ Blocked' /\ stage' = "done"
    BY <1>3 DEF WriteFiles, ComposeInv, InputOK, TextOK, Blocked
  <2>2. result' = Compose(input, shipped)'
    BY <1>3 DEF WriteFiles, ComposeInv, Done, Compose
  <2>. QED  BY <2>1, <2>2 DEF ComposeInv
<1>4. CASE Finished \/ UNCHANGED vars
  <2>1. UNCHANGED vars
    BY <1>4 DEF Finished
  <2>2. InputOK' /\ TextOK' /\ (stage # "read" => Blocked)' /\ Done' = Done
    BY <2>1 DEF vars, ComposeInv, InputOK, TextOK, Blocked, Done
  <2>3. Compose(input, shipped)' = Compose(input, shipped) /\ result' = result /\ stage' = stage
    BY <2>1 DEF vars, Compose
  <2>. QED  BY <2>2, <2>3 DEF ComposeInv
<1>. QED  BY <1>1, <1>2, <1>3, <1>4 DEF Next

\* The invariant holds: read, compose and render run in this order on one input.
THEOREM ComposeInvariant == Spec => []ComposeInv
<1>. QED  BY InitInvariant, NextInvariant, PTL DEF Spec

\* Once compose has run, the result is settled.
LEMMA OnceDone == ComposeInv /\ Done => Settled
BY DEF ComposeInv, Done, Settled

\* store::compose computes the roots the precedence rules define, and refuses
\* exactly an implausible bundle and an empty store.
THEOREM ComposesTheReference == Spec => []ComposeIsReference
<1>1. ComposeInv => ComposeIsReference
  BY OnceDone, SettledIsReference DEF ComposeIsReference
<1>. QED  BY <1>1, ComposeInvariant, PTL

\* Its output has one entry for each fingerprint, in their order.
THEOREM RootsStayOrdered == Spec => []RootsAreOrdered
<1>1. ComposeInv => RootsAreOrdered
  BY OnceDone, SettledIsOrdered DEF RootsAreOrdered
<1>. QED  BY <1>1, ComposeInvariant, PTL

\* What compose does not serve it warns of, and its counters account for every
\* block and every addition.
THEOREM NothingLeavesInSilence == Spec => []NothingSilent
<1>1. ComposeInv => NothingSilent
  BY OnceDone, SettledIsAudible DEF NothingSilent
<1>. QED  BY <1>1, ComposeInvariant, PTL

\* What store::for_purpose gives render is the ServerAuth roots of the
\* precedence rules.
THEOREM FilesAreServerAuth == Spec => []FilesGetServerAuth
<1>1. ComposeInv => FilesGetServerAuth
  BY OnceDone, SettledIsForServerAuth DEF FilesGetServerAuth
<1>. QED  BY <1>1, ComposeInvariant, PTL

-----------------------------------------------------------------------------
(***************************************************************************)
(* The rendered bundle, read back.                                         *)
(***************************************************************************)

\* Outside a block a line of text changes nothing.
LEMMA TextIsPassed ==
  ASSUME NEW lines \in Seq(Line), ~Scanned(lines).open, NEW chars, Text(chars) \in Line
  PROVE  /\ Append(lines, Text(chars)) \in Seq(Line)
         /\ Scanned(Append(lines, Text(chars))) = Scanned(lines)
<1>1. Scanned(lines) \in Reader
  BY ScannedType
<1>2. Scanned(Append(lines, Text(chars))) = Scan(Scanned(lines), Text(chars))
  BY ScannedAppend
<1>. QED  BY <1>1, <1>2, ScanOutside

\* A few elements joined one after another.
LEMMA AppendSome ==
  ASSUME NEW S, NEW s \in Seq(S), NEW e \in S
  PROVE  /\ s \o <<e>> = Append(s, e) /\ <<e>> \in Seq(S)
         /\ s \o <<e, e>> = Append(Append(s, e), e) /\ <<e, e>> \in Seq(S)
         /\ s \o <<e, e, e>> = Append(Append(Append(s, e), e), e) /\ <<e, e, e>> \in Seq(S)
OBVIOUS

\* The lines of one entry, and the lines with them appended.
EntryLines(c, t, e) == (c \o t) \o <<e>>
WithEntry(s, c, t, e) == Append((s \o c) \o t, e)
Enters(S, s, c, t, e) ==
    s \o EntryLines(c, t, e) = WithEntry(s, c, t, e) /\ EntryLines(c, t, e) \in Seq(S)

\* The lines of one entry are joined like any others.
LEMMA EntryJoins ==
  ASSUME NEW S, NEW s \in Seq(S), NEW c \in Seq(S), NEW t \in Seq(S), NEW e \in S
  PROVE  Enters(S, s, c, t, e)
<1>. DEFINE ct == c \o t
            last == <<e>>
<1>1. ct \in Seq(S) /\ last \in Seq(S) /\ s \o c \in Seq(S)
  BY ConcatType, AppendSome
<1>2. s \o (c \o t) = (s \o c) \o t
  BY ConcatAssoc
<1>3. (s \o c) \o t \in Seq(S)
  <2>. DEFINE sc == s \o c
  <2>1. sc \in Seq(S)
    BY <1>1
  <2>. HIDE DEF sc
  <2>2. sc \o t \in Seq(S)
    BY <2>1, ConcatType
  <2>. QED  BY <2>2 DEF sc
<1>. HIDE DEF ct, last
<1>4. s \o (ct \o last) = (s \o ct) \o last /\ ct \o last \in Seq(S)
  BY <1>1, ConcatAssoc, ConcatType
<1>. DEFINE all == (s \o c) \o t
<1>5. s \o ct = all
  BY <1>2 DEF ct
<1>6. all \o last = Append(all, e)
  <2>1. all \in Seq(S)
    BY <1>3
  <2>. HIDE DEF all
  <2>. QED  BY <2>1, AppendSome DEF last
<1>7. s \o (ct \o last) = Append(all, e)
  <2>. HIDE DEF all
  <2>. QED  BY <1>4, <1>5, <1>6
<1>. QED  BY <1>4, <1>7 DEF ct, last, EntryLines, WithEntry, Enters

\* One entry of the bundle: its comments, its block and an empty line.
Piece(entry) ==
    (IF entry.source = "Added" THEN <<Comment, Comment, Comment>> ELSE <<Comment, Comment>>)
    \o Blocks[entry.fp] \o <<Text(<<>>)>>

\* The reader finds one certificate in it.
LEMMA PieceReads ==
  ASSUME NEW lines \in Seq(Line), ~Scanned(lines).open, NEW e \in EntrySet
  PROVE  /\ Piece(e) \in Seq(Line) /\ lines \o Piece(e) \in Seq(Line)
         /\ ~Scanned(lines \o Piece(e)).open
         /\ Scanned(lines \o Piece(e)).out = Append(Scanned(lines).out, Der[e.fp])
<1>. DEFINE two == Append(Append(lines, Comment), Comment)
            three == Append(two, Comment)
            before == IF e.source = "Added" THEN three ELSE two
            block == Blocks[e.fp]
            empty == Text(<<>>)
<1>1. Comment \in Line /\ empty \in Line /\ Comment = Text(<<Foreign>>)
  BY CommentType DEF Comment
<1>2. e.fp \in Fingerprints /\ Der[e.fp] \in Seq(Byte)
  BY ComposeAssumption DEF EntrySet
<1>3. block \in Seq(Line) /\ block = ToPem(Der[e.fp])
  BY <1>2, BlocksType DEF Blocks
<1>4. two \in Seq(Line) /\ Scanned(two) = Scanned(lines)
  BY <1>1, TextIsPassed
<1>5. three \in Seq(Line) /\ Scanned(three) = Scanned(lines)
  <2>. HIDE DEF two
  <2>. QED  BY <1>1, <1>4, TextIsPassed
<1>6. before \in Seq(Line) /\ Scanned(before) = Scanned(lines)
  BY <1>4, <1>5
<1>7. lines \o Piece(e) = Append(before \o block, empty) /\ Piece(e) \in Seq(Line)
  <2>. DEFINE c == IF e.source = "Added" THEN <<Comment, Comment, Comment>>
                                         ELSE <<Comment, Comment>>
  <2>1. lines \o c = before /\ c \in Seq(Line)
    BY <1>1, AppendSome
  <2>2. Piece(e) = EntryLines(c, block, empty)
    BY DEF Piece, EntryLines
  <2>3. WithEntry(lines, c, block, empty) = Append(before \o block, empty)
    BY <2>1 DEF WithEntry
  <2>. HIDE DEF c, empty, block, before
  <2>4. Enters(Line, lines, c, block, empty)
    BY <1>1, <1>3, <2>1, EntryJoins
  <2>. QED  BY <2>2, <2>3, <2>4 DEF Enters
<1>. HIDE DEF before, block
<1>8. /\ before \o block \in Seq(Line)
      /\ Scanned(before \o block) =
            [open |-> FALSE, body |-> <<>>, out |-> Append(Scanned(before).out, Der[e.fp])]
  BY <1>2, <1>3, <1>6, ReadsBlock, ConcatType
<1>9. ~Scanned(before \o block).open
  BY <1>8
<1>10. /\ Append(before \o block, empty) \in Seq(Line)
       /\ Scanned(Append(before \o block, empty)) = Scanned(before \o block)
  BY <1>1, <1>8, <1>9, TextIsPassed
<1>. QED  BY <1>6, <1>7, <1>8, <1>9, <1>10

\* What the entries' certificates read back as, up to the i-th.
DersUpTo(entries, i) == [j \in 1..i |-> Der[entries[j].fp]]

\* The whole bundle reads back as the certificates of its entries, in order.
THEOREM BundleReadsBack ==
  ASSUME NEW entries \in Seq(EntrySet)
  PROVE  FromPem(BundleForRoots(entries)) = [i \in DOMAIN entries |-> Der[entries[i].fp]]
<1>. DEFINE n == Len(entries)
            head == <<Comment, Text(<<>>)>>
            pieces == [i \in DOMAIN entries |-> Piece(entries[i])]
            flat(i) == FlattenSeq(SubSeq(pieces, 1, i))
            L(i) == head \o flat(i)
            V == Seq(Line)
<1>1. n \in Nat /\ DOMAIN entries = 1..n /\ \A i \in 1..n : entries[i] \in EntrySet
  OBVIOUS
<1>2. head \in V /\ Scanned(head) = Closed
  <2>1. Comment \in Line /\ Text(<<>>) \in Line /\ Comment = Text(<<Foreign>>)
    BY CommentType DEF Comment
  <2>2. <<>> \in V /\ Scanned(<<>>) = Closed /\ ~Closed.open
    BY ScannedEmpty DEF Closed
  <2>. DEFINE a == Append(<<>>, Comment)
  <2>3. a \in V /\ Scanned(a) = Closed
    BY <2>1, <2>2, TextIsPassed
  <2>4. Append(a, Text(<<>>)) \in V /\ Scanned(Append(a, Text(<<>>))) = Closed
    <3>. HIDE DEF a
    <3>. QED  BY <2>1, <2>2, <2>3, TextIsPassed
  <2>5. head = Append(a, Text(<<>>))
    OBVIOUS
  <2>. QED  BY <2>4, <2>5
<1>3. ~Scanned(head).open /\ Scanned(head).out = <<>>
  BY <1>2 DEF Closed
<1>4. pieces \in Seq(V) /\ Len(pieces) = n
  <2>1. \A i \in 1..n : Piece(entries[i]) \in V
    BY <1>1, <1>2, <1>3, PieceReads
  <2>2. pieces \in [1..n -> V]
    <3>. HIDE DEF V
    <3>. QED  BY <1>1, <2>1
  <2>. HIDE DEF pieces, V, n
  <2>. QED  BY <1>1, <2>2, FunctionIsSeq
<1>5. \A i \in 1..n : pieces[i] = Piece(entries[i])
  BY <1>1
<1>6. BundleForRoots(entries) = L(n)
  <2>1. SubSeq(pieces, 1, n) = pieces
    <3>. HIDE DEF pieces, V
    <3>. QED  BY <1>4, PrefixFacts
  <2>2. BundleForRoots(entries) = head \o FlattenSeq(pieces)
    BY DEF BundleForRoots, Piece
  <2>. QED  BY <2>1, <2>2
<1>7. L(0) = head
  <2>1. SubSeq(pieces, 1, 0) = <<>>
    <3>. HIDE DEF pieces, V
    <3>. QED  BY <1>4, PrefixFacts
  <2>2. flat(0) = <<>>
    BY <2>1, FlattenEmpty
  <2>3. head \o <<>> = head
    <3>. HIDE DEF head
    <3>. QED  BY <1>2
  <2>. QED  BY <2>2, <2>3
<1>8. ASSUME NEW i \in 1..n  PROVE L(i) = L(i - 1) \o Piece(entries[i])
  <2>. DEFINE cut == SubSeq(pieces, 1, i - 1)
              p == Piece(entries[i])
  <2>1. cut \in Seq(V) /\ SubSeq(pieces, 1, i) = Append(cut, pieces[i])
    <3>. HIDE DEF pieces, V
    <3>1. i \in 1..Len(pieces) /\ i - 1 \in 0..Len(pieces)
      BY <1>1, <1>4
    <3>. QED  BY <1>4, <3>1, PrefixFacts
  <2>2. p \in V
    BY <1>1, <1>2, <1>3, PieceReads
  <2>3. FlattenSeq(Append(cut, p)) = FlattenSeq(cut) \o p /\ FlattenSeq(cut) \in V
    <3>. HIDE DEF cut, p
    <3>. QED  BY <2>1, <2>2, FlattenAppend, FlattenType
  <2>4. flat(i) = FlattenSeq(cut) \o p
    BY <1>5, <2>1, <2>3
  <2>. DEFINE f == FlattenSeq(cut)
  <2>5. f \in V
    BY <2>3
  <2>. HIDE DEF f, p, head
  <2>6. head \o (f \o p) = (head \o f) \o p
    BY <1>2, <2>2, <2>5, ConcatAssoc
  <2>7. flat(i) = f \o p
    BY <2>4 DEF f
  <2>8. flat(i - 1) = f
    BY DEF f
  <2>9. L(i) = head \o (f \o p) /\ L(i - 1) = head \o f
    <3>. HIDE DEF flat
    <3>. QED  BY <2>7, <2>8
  <2>. HIDE DEF L
  <2>. QED  BY <2>6, <2>9 DEF p
<1>. HIDE DEF n, head, pieces, flat, L
<1>. DEFINE Good(i) == /\ L(i) \in V /\ ~Scanned(L(i)).open
                       /\ Scanned(L(i)).out = DersUpTo(entries, i)
<1>9. Good(0)
  <2>1. DersUpTo(entries, 0) = <<>>
    BY DEF DersUpTo
  <2>. QED  BY <1>2, <1>3, <1>7, <2>1
<1>10. ASSUME NEW i \in 1..n, Good(i - 1)
       PROVE  Good(i)
  <2>1. /\ L(i) \in V /\ ~Scanned(L(i)).open
        /\ Scanned(L(i)).out = Append(Scanned(L(i - 1)).out, Der[entries[i].fp])
    BY <1>1, <1>8, <1>10, PieceReads
  <2>2. Append(DersUpTo(entries, i - 1), Der[entries[i].fp]) = DersUpTo(entries, i)
    <3>. DEFINE d(j) == Der[entries[j].fp]
    <3>1. i \in Nat /\ i >= 1
      BY <1>1
    <3>2. [j \in 1..i |-> d(j)] = Append([j \in 1..(i - 1) |-> d(j)], d(i))
      <4>. HIDE DEF d
      <4>. QED  BY <3>1
    <3>. QED  BY <3>2 DEF DersUpTo
  <2>. QED  BY <1>10, <2>1, <2>2
<1>11. Good(n)
  <2>. DEFINE T == {i \in 0..n : Good(i)}
  <2>. HIDE DEF Good
  <2>1. 0 \in T
    BY <1>1, <1>9
  <2>2. ASSUME NEW i \in 1..n, i - 1 \in T
        PROVE  i \in T
    BY <1>1, <1>10, <2>2
  <2>3. \A i \in 0..n : i \in T
    <3>. HIDE DEF T
    <3>. QED  BY <1>1, <2>1, <2>2, CountUp
  <2>4. n \in 0..n
    BY <1>1
  <2>. QED  BY <2>3, <2>4
<1>12. FromPem(BundleForRoots(entries)) = DersUpTo(entries, n)
  BY <1>6, <1>11, FromPemScans
<1>. QED  BY <1>1, <1>12 DEF DersUpTo

\* Nothing touches the file after it is written.
FileInv == stage = "done" /\ result.ok => file = RenderBundle(result.out.roots)

\* Every step keeps it.
LEMMA NextFile == ComposeInv /\ FileInv /\ [Next]_vars => FileInv'
<1>. SUFFICES ASSUME ComposeInv, FileInv, [Next]_vars, (stage = "done")', result'.ok
              PROVE  file' = RenderBundle(result'.out.roots)
  BY DEF FileInv
<1>1. CASE ReadBundle
  BY <1>1 DEF ReadBundle
<1>2. CASE ComposeStore
  BY <1>2 DEF ComposeStore
<1>3. CASE WriteFiles
  BY <1>3 DEF WriteFiles
<1>4. CASE Finished \/ UNCHANGED vars
  BY <1>4 DEF Finished, vars, FileInv
<1>. QED  BY <1>1, <1>2, <1>3, <1>4 DEF Next

\* What render::bundle writes, any reader of PEM reads back as the ServerAuth
\* roots of this composition, in their order: no comment, line break or padding
\* adds or loses one.
THEOREM BundlesReadBack == Spec => []FileReadsBack
<1>1. Init => FileInv
  BY DEF Init, FileInv
<1>2. Spec => []FileInv
  BY <1>1, NextFile, ComposeInvariant, PTL DEF Spec
<1>3. ComposeInv /\ FileInv => FileReadsBack
  <2>. SUFFICES ASSUME ComposeInv, FileInv, stage = "done", result.ok
                PROVE  LET entries == ServerAuthEntries(Out.roots)
                       IN  FromPem(file) = [i \in DOMAIN entries |-> Der[entries[i].fp]]
    BY DEF FileReadsBack
  <2>1. Settled
    BY OnceDone DEF Done
  <2>2. Len(shipped) >= Floor
    BY <2>1, OutFacts
  <2>3. Composed(result)
    BY <2>1, ComposeFacts DEF Settled
  <2>4. Out.roots \in Seq(EntrySet)
    BY <2>2, <2>3 DEF Composed, Out
  <2>. DEFINE entries == ServerAuthEntries(Out.roots)
  <2>5. entries \in Seq(EntrySet)
    BY <2>4, KeepFacts DEF ServerAuthEntries
  <2>6. file = BundleForRoots(entries)
    BY DEF FileInv, RenderBundle, Out
  <2>. HIDE DEF entries
  <2>7. FromPem(file) = [i \in DOMAIN entries |-> Der[entries[i].fp]]
    BY <2>5, <2>6, BundleReadsBack
  <2>. QED  BY <2>7 DEF entries
<1>. QED  BY <1>2, <1>3, ComposeInvariant, PTL

-----------------------------------------------------------------------------
(***************************************************************************)
(* Damage to the shipped bundle.                                           *)
(***************************************************************************)

\* What an end marker makes of the block before it.
Closing(p) == IF p.open /\ Base64Decode(p.body).state # "spoilt"
              THEN Append(p.out, Base64Decode(p.body).out) ELSE p.out

\* An end marker closes the block.
LEMMA EndScan ==
  ASSUME NEW lines \in Seq(Line)
  PROVE  /\ ~Scanned(Append(lines, End)).open
         /\ Scanned(Append(lines, End)).out = Closing(Scanned(lines))
<1>. DEFINE p == Scanned(lines)
<1>1. p \in Reader /\ End \in Line /\ End.kind = "end"
  BY ScannedType, LineFacts DEF End
<1>2. Scanned(Append(lines, End)) = Scan(p, End)
  BY <1>1, ScannedAppend
<1>. HIDE DEF p
<1>3. Scan(p, End) = [p EXCEPT !.open = FALSE, !.body = <<>>, !.out = Closing(p)]
  BY <1>1 DEF Scan, Closing
<1>4. Scan(p, End).open = FALSE /\ Scan(p, End).out = Closing(p)
  BY <1>1, <1>3 DEF Reader
<1>. QED  BY <1>2, <1>4 DEF p

\* What one fragment does to the reader.
Reads(p, q, f) ==
    /\ f.kind = "whole" => ~q.open /\ q.out = Append(p.out, Der[f.cert])
    /\ f.kind = "endless" =>
          q.open /\ q.out = p.out /\ Base64Decode(q.body).out = Der[f.cert]
    /\ f.kind = "headless" =>
          /\ ~q.open
          /\ q.out # p.out =>
                /\ p.open
                /\ \E d \in Seq(Byte) :
                      /\ q.out = Append(p.out, d)
                      /\ \A o \in Seq(Byte) :
                            IsPrefix(o, Base64Decode(p.body).out) => IsPrefix(o, d)
    /\ f.kind = "garbled" => ~q.open /\ q.out = p.out
    /\ f.kind = "short" => ~q.open /\ q.out = Append(p.out, Front(Der[f.cert]))
    /\ f.kind = "comment" =>
          /\ q.out = p.out /\ q.open = p.open
          /\ \A o \in Seq(Byte) :
                IsPrefix(o, Base64Decode(p.body).out) => IsPrefix(o, Base64Decode(q.body).out)

\* A sequence between two markers.
LEMMA PartsOfSeq ==
  ASSUME NEW S, NEW t \in Seq(S), NEW a \in S, NEW z \in S
  PROVE  /\ Tail(<<a>> \o t \o <<z>>) = Append(t, z)
         /\ Front(<<a>> \o t \o <<z>>) = <<a>> \o t
BY DEF Front

\* The parts of a block.
LEMMA BlockParts ==
  ASSUME NEW der \in Seq(Byte)
  PROVE  /\ Front(ToPem(der)) = <<Begin>> \o TextLines(der)
         /\ Tail(ToPem(der)) = Append(TextLines(der), End)
<1>. DEFINE t == TextLines(der)
<1>1. t \in Seq(Line) /\ ToPem(der) = <<Begin>> \o t \o <<End>> /\ Begin \in Line /\ End \in Line
  BY TextLinesFacts, LineFacts
<1>. HIDE DEF t
<1>2. Tail(<<Begin>> \o t \o <<End>>) = Append(t, End)
  BY <1>1, PartsOfSeq
<1>3. Front(<<Begin>> \o t \o <<End>>) = <<Begin>> \o t
  BY <1>1, PartsOfSeq
<1>. QED  BY <1>1, <1>2, <1>3 DEF t

\* The reader's body and what it decodes to are well formed.
LEMMA BodyFacts ==
  ASSUME NEW p \in Reader
  PROVE  /\ p.body \in Seq(Char) /\ Base64Decode(p.body) \in Decoder
         /\ Base64Decode(p.body).out \in Seq(Byte)
<1>1. p.body \in Seq(Char)
  BY DEF Reader
<1>2. Base64Decode(p.body) \in Decoder
  BY <1>1, DecodeType
<1>. QED  BY <1>1, <1>2 DEF Decoder

\* Elements put before a sequence, one by one.
LEMMA PutBefore ==
  ASSUME NEW S, NEW s \in Seq(S), NEW t \in Seq(S), NEW a \in S, NEW b \in S
  PROVE  /\ s \o (<<a>> \o t) = Append(s, a) \o t
         /\ s \o (<<a, b>> \o t) = Append(Append(s, a), b) \o t
         /\ s \o Append(t, a) = Append(s \o t, a)
<1>. DEFINE A == <<a>>
            B == <<b>>
<1>1. A \in Seq(S) /\ B \in Seq(S)
  OBVIOUS
<1>2. Append(s, a) \in Seq(S) /\ B \o t \in Seq(S) /\ s \o t \in Seq(S)
  OBVIOUS
<1>3. Append(s, a) = s \o A /\ Append(t, a) = t \o A
  BY AppendJoins
<1>4. Append(Append(s, a), b) = Append(s, a) \o B /\ Append(s \o t, a) = (s \o t) \o A
  BY <1>2, AppendJoins
<1>5. <<a, b>> = Append(A, b)
  BY PairIsAppend
<1>. HIDE DEF A
<1>5a. Append(A, b) = A \o B
  BY <1>1, AppendJoins
<1>. HIDE DEF B
<1>6. Associate(A, B, t) /\ Associate(s, A, t) /\ Associate(s, t, A)
  BY <1>1, Associative
<1>7. Associate(s, A, B \o t)
  <2>. DEFINE r == B \o t
  <2>1. r \in Seq(S)
    BY <1>2
  <2>. HIDE DEF r
  <2>2. Associate(s, A, r)
    BY <1>1, <2>1, Associative
  <2>. QED  BY <2>2 DEF r
<1>8. Associate(Append(s, a), B, t)
  <2>. DEFINE r == Append(s, a)
  <2>1. r \in Seq(S)
    BY <1>2
  <2>. HIDE DEF r
  <2>2. Associate(r, B, t)
    BY <1>1, <2>1, Associative
  <2>. QED  BY <2>2 DEF r
<1>9. s \o (A \o t) = Append(s, a) \o t
  BY <1>3, <1>6, Zenon DEF Associate
<1>10. s \o (<<a, b>> \o t) = Append(Append(s, a), b) \o t
  BY <1>3, <1>4, <1>5, <1>5a, <1>6, <1>7, <1>8, Zenon DEF Associate
<1>11. s \o Append(t, a) = Append(s \o t, a)
  BY <1>3, <1>4, <1>6, Zenon DEF Associate
<1>. QED  BY <1>9, <1>10, <1>11 DEF A

\* A block that has lost its end.
LEMMA EndlessReads ==
  ASSUME NEW lines \in Seq(Line), NEW der \in Seq(Byte)
  PROVE  LET q == Scanned(lines \o Front(ToPem(der)))
         IN  q.open /\ q.out = Scanned(lines).out /\ Base64Decode(q.body).out = der
<1>. DEFINE begun == Append(lines, Begin)
            t == TextLines(der)
            chars == Base64Encode(der)
            out == Scanned(lines).out
<1>1. Begin \in Line /\ Scanned(lines) \in Reader /\ t \in Seq(Line)
  BY LineFacts, ScannedType, TextLinesFacts
<1>2. begun \in Seq(Line) /\ Scanned(begun) = Within(<<>>, out)
  BY <1>1, ScannedAppend, ScanBegin
<1>3. lines \o (<<Begin>> \o t) = begun \o t
  <2>. HIDE DEF t
  <2>. QED  BY <1>1, PutBefore
<1>4. Scanned(begun).open /\ Scanned(begun).body = <<>> /\ Scanned(begun).out = out
  BY <1>2 DEF Within
<1>5. chars \in Seq(Letter)
  BY GroupsType
<1>. HIDE DEF begun, out, t, chars
<1>6. Scanned(begun \o t) = Within(chars, out)
  <2>1. Scanned(begun \o t) = Within(<<>> \o chars, out)
    BY <1>2, <1>4, TextsScan DEF t, chars
  <2>2. <<>> \o chars = chars
    BY <1>5
  <2>. QED  BY <2>1, <2>2
<1>7. Base64Decode(chars).out = der
  BY DecodeEncodes DEF chars
<1>8. lines \o Front(ToPem(der)) = begun \o t
  BY <1>3, BlockParts DEF t
<1>. QED  BY <1>6, <1>7, <1>8 DEF Within, out

\* A block that has lost its beginning: it may end the one before it.
LEMMA HeadlessReads ==
  ASSUME NEW lines \in Seq(Line), NEW der \in Seq(Byte)
  PROVE  LET p == Scanned(lines)
             q == Scanned(lines \o Tail(ToPem(der)))
         IN  /\ ~q.open
             /\ q.out # p.out =>
                   /\ p.open
                   /\ \E d \in Seq(Byte) :
                         /\ q.out = Append(p.out, d)
                         /\ \A o \in Seq(Byte) :
                               IsPrefix(o, Base64Decode(p.body).out) => IsPrefix(o, d)
             /\ p.open /\ Base64Decode(p.body).state = "spoilt" => q.out = p.out
<1>. DEFINE p == Scanned(lines)
            t == TextLines(der)
            chars == Base64Encode(der)
            more == lines \o t
            q == Scanned(lines \o Tail(ToPem(der)))
<1>1. p \in Reader /\ t \in Seq(Line) /\ End \in Line
  BY ScannedType, TextLinesFacts, LineFacts
<1>2. chars \in Seq(Char)
  BY GroupsType, LineFacts
<1>3. more \in Seq(Line)
  <2>. HIDE DEF t
  <2>. QED  BY <1>1, ConcatType
<1>4. lines \o Tail(ToPem(der)) = Append(more, End)
  <2>1. Tail(ToPem(der)) = Append(t, End)
    BY BlockParts
  <2>2. lines \o Append(t, End) = Append(lines \o t, End)
    <3>. HIDE DEF t
    <3>. QED  BY <1>1, PutBefore
  <2>. QED  BY <2>1, <2>2
<1>5. ~q.open /\ q.out = Closing(Scanned(more))
  BY <1>3, <1>4, EndScan
<1>. HIDE DEF t, chars, p, q
<1>6. CASE ~p.open
  <2>1. Scanned(more) = p
    BY <1>6, TextsPassed DEF p, t
  <2>2. q.out = p.out
    BY <1>5, <1>6, <2>1 DEF Closing
  <2>. QED  BY <1>5, <1>6, <2>2 DEF p, q
<1>7. CASE p.open
  <2>. DEFINE body == p.body \o chars
              d == Base64Decode(body).out
  <2>1. Scanned(more) = Within(body, p.out)
    BY <1>7, TextsScan DEF p, t, chars
  <2>2. p.body \in Seq(Char)
    BY <1>1, BodyFacts
  <2>3. body \in Seq(Char)
    BY <1>2, <2>2, ConcatType
  <2>4. d \in Seq(Byte)
    <3>1. Base64Decode(body) \in Decoder
      BY <2>3, DecodeType
    <3>. HIDE DEF body
    <3>. QED  BY <3>1 DEF Decoder
  <2>5. \A o \in Seq(Byte) : IsPrefix(o, Base64Decode(p.body).out) => IsPrefix(o, d)
    BY <1>2, <2>2, DecodeExtends
  <2>. HIDE DEF body
  <2>6. q.out = IF Base64Decode(body).state # "spoilt" THEN Append(p.out, d) ELSE p.out
    BY <1>5, <2>1 DEF Closing, Within
  <2>7. Base64Decode(p.body).state = "spoilt" => Base64Decode(body).state = "spoilt"
    <3>1. Base64Decode(p.body).out \in Seq(Byte)
      BY <1>1, BodyFacts
    <3>2. IsPrefix(Base64Decode(p.body).out, Base64Decode(p.body).out)
      BY <3>1, BeginningFacts
    <3>. QED  BY <1>2, <2>2, <3>1, <3>2, DecodeExtends DEF body
  <2>. QED  BY <1>5, <1>7, <2>4, <2>5, <2>6, <2>7 DEF p, q
<1>. QED  BY <1>6, <1>7

\* A line of comment.
LEMMA CommentReads ==
  ASSUME NEW lines \in Seq(Line)
  PROVE  LET p == Scanned(lines)
             q == Scanned(Append(lines, Comment))
         IN  /\ q.out = p.out /\ q.open = p.open
             /\ p.open => q.body = p.body \o <<Foreign>>
             /\ \A o \in Seq(Byte) :
                   IsPrefix(o, Base64Decode(p.body).out) => IsPrefix(o, Base64Decode(q.body).out)
<1>. DEFINE p == Scanned(lines)
            q == Scanned(Append(lines, Comment))
<1>1. p \in Reader /\ Comment \in Line /\ <<Foreign>> \in Seq(Char)
  BY ScannedType, CommentType DEF Char, Foreign
<1>2. q = Scan(p, Text(<<Foreign>>))
  BY <1>1, ScannedAppend DEF Comment
<1>. HIDE DEF p, q
<1>3. CASE ~p.open
  <2>1. q = p
    BY <1>1, <1>2, <1>3, ScanOutside
  <2>. QED  BY <1>3, <2>1 DEF p, q
<1>4. CASE p.open
  <2>1. p = Within(p.body, p.out)
    BY <1>1, <1>4 DEF Reader, Within
  <2>2. q = Within(p.body \o <<Foreign>>, p.out)
    BY <1>2, <2>1, ScanText
  <2>3. q.out = p.out /\ q.open = p.open /\ q.body = p.body \o <<Foreign>>
    BY <1>1, <1>4, <2>2 DEF Within, Reader
  <2>4. p.body \in Seq(Char)
    BY <1>1, BodyFacts
  <2>5. \A o \in Seq(Byte) :
           IsPrefix(o, Base64Decode(p.body).out) => IsPrefix(o, Base64Decode(q.body).out)
    BY <1>1, <2>3, <2>4, DecodeExtends
  <2>. QED  BY <2>3, <2>5 DEF p, q
<1>. QED  BY <1>3, <1>4

\* A foreign character at the beginning of a block spoils it.
LEMMA GarbledReads ==
  ASSUME NEW lines \in Seq(Line), NEW der \in Seq(Byte)
  PROVE  LET q == Scanned(lines \o (<<Begin, Comment>> \o Tail(ToPem(der))))
         IN  ~q.open /\ q.out = Scanned(lines).out
<1>. DEFINE begun == Append(lines, Begin)
            said == Append(begun, Comment)
            out == Scanned(lines).out
            rest == Tail(ToPem(der))
            spoilt == Base64Decode(<<>> \o <<Foreign>>)
<1>1. Begin \in Line /\ Comment \in Line /\ Scanned(lines) \in Reader
  BY LineFacts, CommentType, ScannedType
<1>2. begun \in Seq(Line) /\ Scanned(begun) = Within(<<>>, out)
  BY <1>1, ScannedAppend, ScanBegin
<1>3. said \in Seq(Line)
  BY <1>1, <1>2
<1>4. rest \in Seq(Line)
  <2>1. TextLines(der) \in Seq(Line) /\ End \in Line
    BY TextLinesFacts, LineFacts
  <2>2. rest = Append(TextLines(der), End)
    BY BlockParts
  <2>. HIDE DEF rest
  <2>. QED  BY <2>1, <2>2
<1>5. lines \o (<<Begin, Comment>> \o rest) = said \o rest
  <2>. HIDE DEF rest
  <2>. QED  BY <1>1, <1>4, PutBefore
<1>6. Scanned(begun).open /\ Scanned(begun).body = <<>> /\ Scanned(begun).out = out
  BY <1>2 DEF Within
<1>. HIDE DEF begun, out, rest
<1>7. Scanned(said).open /\ Scanned(said).out = out /\ Scanned(said).body = <<>> \o <<Foreign>>
  BY <1>2, <1>6, CommentReads
<1>8. spoilt.state = "spoilt"
  <2>1. <<>> \in Seq(Char) /\ Foreign \in Char /\ <<>> \o <<Foreign>> = Append(<<>>, Foreign)
    BY DEF Char, Foreign
  <2>2. spoilt = Take(Fresh, Foreign)
    BY <2>1, DecodeAppend, DecodeEmpty
  <2>3. Take(Fresh, Foreign) = [Fresh EXCEPT !.state = "spoilt"]
    BY TakeForeign DEF Fresh
  <2>. QED  BY <2>2, <2>3 DEF Fresh
<1>. HIDE DEF said, spoilt
<1>9. ~Scanned(said \o rest).open /\ Scanned(said \o rest).out = Scanned(said).out
  <2>1. Base64Decode(Scanned(said).body).state = "spoilt"
    BY <1>7, <1>8 DEF spoilt
  <2>. QED  BY <1>3, <1>7, <2>1, HeadlessReads DEF rest
<1>. QED  BY <1>5, <1>7, <1>9 DEF out, rest

\* What each kind of fragment does.
LEMMA FragmentReads ==
  ASSUME NEW lines \in Seq(Line), NEW f \in Whole \cup Accident
  PROVE  Reads(Scanned(lines), Scanned(lines \o FragmentLines(f)), f)
<1>. DEFINE p == Scanned(lines)
            der == Der[f.cert]
            pem == Blocks[f.cert]
<1>1. /\ f.cert \in Fingerprints
      /\ f.kind \in {"whole", "endless", "headless", "garbled", "short", "comment"}
  BY ComposeAssumption DEF Whole, Accident
<1>2. der \in Seq(Byte) /\ pem = ToPem(der)
  BY <1>1, ComposeAssumption DEF Blocks
<1>3. Front(der) \in Seq(Byte)
  BY <1>2, EndsType
<1>. HIDE DEF p, der, pem
<1>4. CASE f.kind = "whole"
  <2>1. FragmentLines(f) = ToPem(der)
    BY <1>2, <1>4 DEF FragmentLines, pem
  <2>. QED  BY <1>2, <1>4, <2>1, ReadsBlock DEF Reads, der
<1>5. CASE f.kind = "endless"
  <2>1. FragmentLines(f) = Front(ToPem(der))
    BY <1>2, <1>5 DEF FragmentLines, pem
  <2>. QED  BY <1>2, <1>5, <2>1, EndlessReads DEF Reads, der
<1>6. CASE f.kind = "headless"
  <2>1. FragmentLines(f) = Tail(ToPem(der))
    BY <1>2, <1>6 DEF FragmentLines, pem
  <2>. DEFINE q == Scanned(lines \o Tail(ToPem(der)))
              Joins == \E d \in Seq(Byte) :
                          /\ q.out = Append(p.out, d)
                          /\ \A o \in Seq(Byte) :
                                IsPrefix(o, Base64Decode(p.body).out) => IsPrefix(o, d)
  <2>2. ~q.open /\ (q.out # p.out => p.open /\ Joins)
    <3>. HIDE DEF der
    <3>. QED  BY <1>2, HeadlessReads DEF p
  <2>3. Scanned(lines \o FragmentLines(f)) = q
    BY <2>1
  <2>4. /\ f.kind # "whole" /\ f.kind # "endless" /\ f.kind # "garbled"
        /\ f.kind # "short" /\ f.kind # "comment"
    BY <1>6
  <2>5. Reads(p, q, f)
    <3>. HIDE DEF q, p
    <3>. QED  BY <2>2, <2>4 DEF Reads
  <2>. HIDE DEF q
  <2>. QED  BY <2>3, <2>5 DEF p
<1>7. CASE f.kind = "garbled"
  <2>1. FragmentLines(f) = <<Begin, Comment>> \o Tail(ToPem(der))
    BY <1>2, <1>7 DEF FragmentLines, pem
  <2>. QED  BY <1>2, <1>7, <2>1, GarbledReads DEF Reads
<1>8. CASE f.kind = "short"
  <2>1. FragmentLines(f) = ToPem(Front(der))
    BY <1>8 DEF FragmentLines, der
  <2>. QED  BY <1>3, <1>8, <2>1, ReadsBlock DEF Reads, der
<1>9. CASE f.kind = "comment"
  <2>1. FragmentLines(f) = <<Comment>>
    BY <1>9 DEF FragmentLines
  <2>2. lines \o <<Comment>> = Append(lines, Comment)
    OBVIOUS
  <2>3. Reads(Scanned(lines), Scanned(Append(lines, Comment)), f)
    BY <1>9, CommentReads DEF Reads
  <2>. QED  BY <2>1, <2>2, <2>3
<1>. QED  BY <1>1, <1>4, <1>5, <1>6, <1>7, <1>8, <1>9

\* Which certificate some bytes are.
LEMMA CertificateFacts ==
  ASSUME NEW f \in Fingerprints
  PROVE  /\ CertificateOf(Der[f]) = f
         /\ CertificateOf(Front(Der[f])) = 0
         /\ \A d \in Seq(Byte) : IsPrefix(Der[f], d) => CertificateOf(d) \in {0, f}
<1>1. \A g \in Fingerprints : Der[g] \in Seq(Byte) /\ Der[g] # <<>>
  BY ComposeAssumption
<1>2. \A g, h \in Fingerprints : IsPrefix(Der[g], Der[h]) => g = h
  BY ComposeAssumption
<1>3. CertificateOf(Der[f]) = f
  <2>1. \A g \in Fingerprints : Der[g] = Der[f] => g = f
    <3>1. IsPrefix(Der[f], Der[f])
      BY <1>1, BeginningFacts
    <3>. QED  BY <1>2, <3>1
  <2>. QED  BY <2>1 DEF CertificateOf
<1>4. CertificateOf(Front(Der[f])) = 0
  <2>1. SUFFICES ASSUME NEW g \in Fingerprints, Der[g] = Front(Der[f]) PROVE FALSE
    BY DEF CertificateOf
  <2>. DEFINE d == Der[f]
  <2>2. d \in Seq(Byte) /\ d # <<>>
    BY <1>1
  <2>. HIDE DEF d
  <2>3. /\ Front(d) \in Seq(Byte) /\ Len(Front(d)) = Len(d) - 1
        /\ \A i \in 1..(Len(d) - 1) : Front(d)[i] = d[i]
    <3>. DEFINE m == Len(d) - 1
    <3>1. m \in Nat /\ Front(d) = SubSeq(d, 1, m) /\ m <= Len(d)
      BY <2>2 DEF Front
    <3>. HIDE DEF m
    <3>2. SubSeq(d, 1, m) \in Seq(Byte) /\ Len(SubSeq(d, 1, m)) = m
          /\ \A i \in 1..m : SubSeq(d, 1, m)[i] = d[i]
      BY <2>2, <3>1
    <3>. QED  BY <3>1, <3>2 DEF m
  <2>4. IsPrefix(Front(d), d)
    <3>. DEFINE e == Front(d)
    <3>1. e \in Seq(Byte) /\ Len(e) <= Len(d) /\ \A i \in 1..Len(e) : e[i] = d[i]
      BY <2>2, <2>3
    <3>. HIDE DEF e
    <3>. QED  BY <2>2, <3>1, BeginningFacts DEF e
  <2>5. g = f
    BY <1>2, <2>1, <2>4 DEF d
  <2>. QED  BY <2>1, <2>2, <2>3, <2>5 DEF d
<1>5. ASSUME NEW d \in Seq(Byte), IsPrefix(Der[f], d)
      PROVE  CertificateOf(d) \in {0, f}
  <2>1. \A g \in Fingerprints : Der[g] = d => g = f
    BY <1>2, <1>5
  <2>. QED  BY <2>1 DEF CertificateOf
<1>. QED  BY <1>3, <1>4, <1>5

\* The fragments of a certificate among the first i, and what is read of it.
Standing(text, i, f, kinds) ==
    {j \in 1..i : text[j].cert = f /\ text[j].kind \in kinds}
ReadOf(out, f) == {k \in DOMAIN out : CertificateOf(out[k]) = f}

\* One fragment more.
LEMMA OneMoreStands ==
  ASSUME NEW text, NEW i \in Nat \ {0}, NEW f, NEW kinds
  PROVE  LET before == Standing(text, i - 1, f, kinds)
             after == Standing(text, i, f, kinds)
         IN  /\ Cardinality(before) \in Nat
             /\ Cardinality(after) = IF text[i].cert = f /\ text[i].kind \in kinds
                                     THEN Cardinality(before) + 1 ELSE Cardinality(before)
<1>. DEFINE before == Standing(text, i - 1, f, kinds)
            after == Standing(text, i, f, kinds)
<1>1. IsFiniteSet(before) /\ Cardinality(before) \in Nat
  <2>1. IsFiniteSet(1..(i - 1))
    BY FS_Interval
  <2>2. before \in SUBSET (1..(i - 1))
    BY DEF Standing
  <2>. HIDE DEF before
  <2>3. IsFiniteSet(before)
    BY <2>1, <2>2, FS_Subset
  <2>. QED  BY <2>3, FS_CardinalityType
<1>2. after = IF text[i].cert = f /\ text[i].kind \in kinds THEN before \cup {i} ELSE before
  BY DEF Standing
<1>3. i \notin before
  BY DEF Standing
<1>. HIDE DEF before, after
<1>4. Cardinality(before \cup {i}) = Cardinality(before) + 1
  BY <1>1, <1>3, FS_AddElement
<1>. QED  BY <1>1, <1>2, <1>4 DEF before, after

\* One certificate read more.
LEMMA OneMoreRead ==
  ASSUME NEW out \in Seq(Seq(Byte)), NEW d \in Seq(Byte), NEW f
  PROVE  /\ Cardinality(ReadOf(out, f)) \in Nat
         /\ Cardinality(ReadOf(Append(out, d), f)) =
               IF CertificateOf(d) = f THEN Cardinality(ReadOf(out, f)) + 1
                                       ELSE Cardinality(ReadOf(out, f))
<1>. DEFINE V == Seq(Byte)
            n == Len(out)
            more == Append(out, d)
            before == ReadOf(out, f)
            after == ReadOf(more, f)
<1>1. /\ n \in Nat /\ DOMAIN out = 1..n /\ DOMAIN more = 1..(n + 1)
      /\ more[n + 1] = d /\ \A k \in 1..n : more[k] = out[k]
  <2>. HIDE DEF V
  <2>1. out \in Seq(V) /\ d \in V
    BY DEF V
  <2>. QED  BY <2>1
<1>. HIDE DEF more, n
<1>2. IsFiniteSet(before) /\ Cardinality(before) \in Nat
  <2>1. IsFiniteSet(1..n)
    BY <1>1, FS_Interval
  <2>2. before \in SUBSET (1..n)
    BY <1>1 DEF ReadOf
  <2>. HIDE DEF before
  <2>3. IsFiniteSet(before)
    BY <2>1, <2>2, FS_Subset
  <2>. QED  BY <2>3, FS_CardinalityType
<1>3. after = IF CertificateOf(d) = f THEN before \cup {n + 1} ELSE before
  <2>1. 1..(n + 1) = (1..n) \cup {n + 1} /\ n + 1 \notin 1..n
    BY <1>1
  <2>. QED  BY <1>1, <2>1 DEF ReadOf
<1>4. n + 1 \notin before
  BY <1>1 DEF ReadOf
<1>. HIDE DEF before, after
<1>5. Cardinality(before \cup {n + 1}) = Cardinality(before) + 1
  BY <1>2, <1>4, FS_AddElement
<1>. QED  BY <1>2, <1>3, <1>5 DEF before, after, more

\* The two counts agree, but for a block that is still open.
Told(p, text, i) ==
    /\ \A f \in Fingerprints :
          /\ Cardinality(Standing(text, i, f, {"whole"})) <= Cardinality(ReadOf(p.out, f))
          /\ Cardinality(ReadOf(p.out, f))
                <= Cardinality(Standing(text, i, f, {"whole", "endless"}))
    /\ p.open =>
          \E a \in Fingerprints :
             /\ IsPrefix(Der[a], Base64Decode(p.body).out)
             /\ Cardinality(ReadOf(p.out, a))
                   < Cardinality(Standing(text, i, a, {"whole", "endless"}))

\* A fragment keeps them so.
LEMMA FragmentTold ==
  ASSUME NEW p \in Reader, NEW q \in Reader, NEW text, NEW i \in Nat \ {0},
         text[i] \in Whole \cup Accident, Reads(p, q, text[i]), Told(p, text, i - 1)
  PROVE  Told(q, text, i)
<1>. DEFINE c == text[i].cert
            k == text[i].kind
            W(n, f) == Cardinality(Standing(text, n, f, {"whole"}))
            E(n, f) == Cardinality(Standing(text, n, f, {"whole", "endless"}))
            R(o, f) == Cardinality(ReadOf(o, f))
<1>1. /\ c \in Fingerprints /\ Der[c] \in Seq(Byte) /\ Front(Der[c]) \in Seq(Byte)
      /\ k \in {"whole", "endless", "headless", "garbled", "short", "comment"}
  <2>1. c \in Fingerprints
        /\ k \in {"whole", "endless", "headless", "garbled", "short", "comment"}
    BY ComposeAssumption DEF Whole, Accident
  <2>2. Der[c] \in Seq(Byte)
    BY <2>1, ComposeAssumption
  <2>. QED  BY <2>1, <2>2, EndsType
<1>2. \A f \in Fingerprints :
        /\ W(i - 1, f) \in Nat /\ E(i - 1, f) \in Nat
        /\ W(i, f) = IF c = f /\ k = "whole" THEN W(i - 1, f) + 1 ELSE W(i - 1, f)
        /\ E(i, f) = IF c = f /\ k \in {"whole", "endless"}
                     THEN E(i - 1, f) + 1 ELSE E(i - 1, f)
  <2>. SUFFICES ASSUME NEW f \in Fingerprints
                PROVE  /\ W(i - 1, f) \in Nat /\ E(i - 1, f) \in Nat
                       /\ W(i, f) = IF c = f /\ k = "whole" THEN W(i - 1, f) + 1 ELSE W(i - 1, f)
                       /\ E(i, f) = IF c = f /\ k \in {"whole", "endless"}
                                    THEN E(i - 1, f) + 1 ELSE E(i - 1, f)
    OBVIOUS
  <2>1. W(i - 1, f) \in Nat
        /\ W(i, f) = IF c = f /\ k \in {"whole"} THEN W(i - 1, f) + 1 ELSE W(i - 1, f)
    BY OneMoreStands
  <2>2. E(i - 1, f) \in Nat
        /\ E(i, f) = IF c = f /\ k \in {"whole", "endless"} THEN E(i - 1, f) + 1
                                                              ELSE E(i - 1, f)
    BY OneMoreStands
  <2>. HIDE DEF W, E, c, k
  <2>. QED  BY <2>1, <2>2
<1>3. p.out \in Seq(Seq(Byte)) /\ <<>> \in Seq(Byte)
  BY DEF Reader
<1>4. /\ \A f \in Fingerprints : R(p.out, f) \in Nat
      /\ \A f \in Fingerprints, d \in Seq(Byte) :
            R(Append(p.out, d), f) = IF CertificateOf(d) = f THEN R(p.out, f) + 1
                                                             ELSE R(p.out, f)
  BY <1>3, OneMoreRead
<1>5. \A f \in Fingerprints : W(i - 1, f) <= R(p.out, f) /\ R(p.out, f) <= E(i - 1, f)
  BY DEF Told
<1>6. \A f \in Fingerprints : f # 0
  BY ComposeAssumption
<1>7. Told(q, text, i) <=>
        /\ \A f \in Fingerprints : W(i, f) <= R(q.out, f) /\ R(q.out, f) <= E(i, f)
        /\ q.open => \E a \in Fingerprints :
              IsPrefix(Der[a], Base64Decode(q.body).out) /\ R(q.out, a) < E(i, a)
  BY DEF Told
<1>8. p.open => \E a \in Fingerprints :
        IsPrefix(Der[a], Base64Decode(p.body).out) /\ R(p.out, a) < E(i - 1, a)
  BY DEF Told
<1>9. CertificateOf(Der[c]) = c /\ CertificateOf(Front(Der[c])) = 0
  BY <1>1, CertificateFacts
<1>10. Reads(p, q, text[i])
  OBVIOUS
<1>. HIDE DEF W, E, R, c, k
<1>11. CASE k = "whole"
  <2>1. ~q.open /\ q.out = Append(p.out, Der[c])
    BY <1>10, <1>11 DEF Reads, c, k
  <2>2. \A f \in Fingerprints : R(q.out, f) = IF c = f THEN R(p.out, f) + 1 ELSE R(p.out, f)
    BY <1>1, <1>4, <1>9, <2>1
  <2>3. \A f \in Fingerprints : W(i, f) <= R(q.out, f) /\ R(q.out, f) <= E(i, f)
    <3>. SUFFICES ASSUME NEW f \in Fingerprints
                  PROVE  W(i, f) <= R(q.out, f) /\ R(q.out, f) <= E(i, f)
      OBVIOUS
    <3>1. W(i - 1, f) \in Nat /\ E(i - 1, f) \in Nat /\ R(p.out, f) \in Nat
          /\ W(i - 1, f) <= R(p.out, f) /\ R(p.out, f) <= E(i - 1, f)
      BY <1>2, <1>4, <1>5
    <3>2. CASE c = f
      BY <1>2, <1>11, <2>2, <3>1, <3>2
    <3>3. CASE c # f
      BY <1>2, <2>2, <3>1, <3>3
    <3>. QED  BY <3>2, <3>3
  <2>. QED  BY <1>7, <2>1, <2>3
<1>12. CASE k = "endless"
  <2>1. q.open /\ q.out = p.out /\ Base64Decode(q.body).out = Der[c]
    BY <1>10, <1>12 DEF Reads, c, k
  <2>2. IsPrefix(Der[c], Der[c])
    BY <1>1, BeginningFacts
  <2>. QED  BY <1>1, <1>2, <1>3, <1>4, <1>5, <1>7, <1>12, <2>1, <2>2
<1>13. CASE k \in {"headless", "garbled", "comment"} /\ q.out = p.out
  <2>1. \A f \in Fingerprints : W(i, f) <= R(q.out, f) /\ R(q.out, f) <= E(i, f)
    BY <1>2, <1>5, <1>13
  <2>2. CASE k # "comment"
    <3>1. ~q.open
      BY <1>10, <1>13, <2>2 DEF Reads, c, k
    <3>. QED  BY <1>7, <2>1, <3>1
  <2>3. CASE k = "comment"
    <3>1. q.open = p.open /\ \A o \in Seq(Byte) :
             IsPrefix(o, Base64Decode(p.body).out) => IsPrefix(o, Base64Decode(q.body).out)
      BY <1>10, <2>3 DEF Reads, k
    <3>2. \A a \in Fingerprints : Der[a] \in Seq(Byte)
      BY ComposeAssumption
    <3>3. \A a \in Fingerprints : E(i, a) = E(i - 1, a)
      BY <1>2, <1>13
    <3>. QED  BY <1>7, <1>8, <1>13, <2>1, <3>1, <3>2, <3>3
  <2>. QED  BY <2>2, <2>3
<1>14. CASE k = "headless" /\ q.out # p.out
  <2>1. PICK d \in Seq(Byte) :
          /\ q.out = Append(p.out, d)
          /\ \A o \in Seq(Byte) : IsPrefix(o, Base64Decode(p.body).out) => IsPrefix(o, d)
    BY <1>10, <1>14 DEF Reads, k
  <2>2. ~q.open /\ p.open
    BY <1>10, <1>14 DEF Reads, k
  <2>3. PICK a \in Fingerprints :
          IsPrefix(Der[a], Base64Decode(p.body).out) /\ R(p.out, a) < E(i - 1, a)
    BY <1>8, <2>2
  <2>4. Der[a] \in Seq(Byte)
    BY ComposeAssumption
  <2>5. CertificateOf(d) \in {0, a}
    BY <2>1, <2>3, <2>4, CertificateFacts
  <2>6. \A f \in Fingerprints : R(q.out, f) = IF CertificateOf(d) = f THEN R(p.out, f) + 1
                                                                     ELSE R(p.out, f)
    BY <1>4, <2>1
  <2>7. \A f \in Fingerprints : W(i, f) = W(i - 1, f) /\ E(i, f) = E(i - 1, f)
    BY <1>2, <1>14
  <2>8. ASSUME NEW f \in Fingerprints
        PROVE  W(i, f) <= R(q.out, f) /\ R(q.out, f) <= E(i, f)
    <3>1. CASE f = a
      BY <1>2, <1>3, <1>4, <1>5, <2>3, <2>6, <2>7, <3>1
    <3>2. CASE f # a
      BY <1>2, <1>5, <1>6, <2>5, <2>6, <2>7, <3>2
    <3>. QED  BY <3>1, <3>2
  <2>. QED  BY <1>7, <2>2, <2>8
<1>15. CASE k = "short"
  <2>1. ~q.open /\ q.out = Append(p.out, Front(Der[c]))
    BY <1>10, <1>15 DEF Reads, c, k
  <2>2. \A f \in Fingerprints : R(q.out, f) = R(p.out, f)
    BY <1>1, <1>4, <1>6, <1>9, <2>1
  <2>. QED  BY <1>2, <1>5, <1>7, <1>15, <2>1, <2>2
<1>16. k \in {"garbled", "comment"} => q.out = p.out
  BY <1>10 DEF Reads, k
<1>. QED  BY <1>1, <1>11, <1>12, <1>13, <1>14, <1>15, <1>16

\* Every text: what has been read after its first i fragments.
LEMMA TextTold ==
  ASSUME NEW n \in Nat, NEW text \in [1..n -> Whole \cup Accident]
  PROVE  Lines(text) \in Seq(Line) /\ Told(Scanned(Lines(text)), text, n)
<1>. DEFINE V == Seq(Line)
            pieces == [i \in DOMAIN text |-> FragmentLines(text[i])]
            L(i) == FlattenSeq(SubSeq(pieces, 1, i))
<1>1. DOMAIN text = 1..n /\ \A i \in 1..n : text[i] \in Whole \cup Accident
  OBVIOUS
<1>2. \A i \in 1..n : FragmentLines(text[i]) \in V
  BY <1>1, FragmentType
<1>3. /\ pieces \in Seq(V) /\ Len(pieces) = n
      /\ \A i \in 1..n : pieces[i] = FragmentLines(text[i])
  <2>. HIDE DEF V
  <2>1. pieces \in [1..n -> V] /\ \A i \in 1..n : pieces[i] = FragmentLines(text[i])
    BY <1>1, <1>2
  <2>. HIDE DEF pieces
  <2>. QED  BY <2>1, FunctionIsSeq
<1>4. Lines(text) = L(n)
  <2>1. SubSeq(pieces, 1, n) = pieces
    <3>. HIDE DEF pieces, V
    <3>. QED  BY <1>3, PrefixFacts
  <2>. QED  BY <2>1 DEF Lines
<1>5. L(0) = <<>> /\ \A i \in 0..n : L(i) \in V
  <2>. HIDE DEF pieces, V
  <2>1. SubSeq(pieces, 1, 0) = <<>> /\ \A i \in 0..n : SubSeq(pieces, 1, i) \in Seq(V)
    BY <1>3, PrefixFacts
  <2>. QED  BY <2>1, FlattenEmpty, FlattenType DEF V
<1>6. ASSUME NEW i \in 1..n  PROVE L(i) = L(i - 1) \o FragmentLines(text[i])
  <2>. DEFINE cut == SubSeq(pieces, 1, i - 1)
  <2>1. cut \in Seq(V) /\ SubSeq(pieces, 1, i) = Append(cut, pieces[i])
    <3>. HIDE DEF pieces, V
    <3>1. i \in 1..Len(pieces) /\ i - 1 \in 0..Len(pieces)
      BY <1>3
    <3>. QED  BY <1>3, <3>1, PrefixFacts
  <2>2. pieces[i] = FragmentLines(text[i]) /\ pieces[i] \in V
    BY <1>2, <1>3
  <2>. HIDE DEF cut, pieces
  <2>3. FlattenSeq(Append(cut, pieces[i])) = FlattenSeq(cut) \o pieces[i]
    BY <2>1, <2>2, FlattenAppend
  <2>. QED  BY <2>1, <2>2, <2>3 DEF cut
<1>. HIDE DEF L, pieces
<1>. DEFINE Good(i) == Told(Scanned(L(i)), text, i)
<1>7. Good(0)
  <2>1. Scanned(L(0)) = Closed
    BY <1>5, ScannedEmpty
  <2>2. \A f, kinds : Standing(text, 0, f, kinds) = {}
    BY DEF Standing
  <2>3. \A f : ReadOf(<<>>, f) = {}
    BY DEF ReadOf
  <2>4. Cardinality({}) = 0
    BY FS_EmptySet
  <2>5. Closed.out = <<>> /\ Closed.open = FALSE
    BY DEF Closed
  <2>. DEFINE p == Scanned(L(0))
  <2>6. p.out = <<>> /\ ~p.open
    BY <2>1, <2>5
  <2>. HIDE DEF p
  <2>7. \A f, kinds : Cardinality(Standing(text, 0, f, kinds)) = 0
    BY <2>2, <2>4
  <2>8. \A f : Cardinality(ReadOf(p.out, f)) = 0
    BY <2>3, <2>4, <2>6
  <2>9. Told(p, text, 0)
    BY <2>6, <2>7, <2>8 DEF Told
  <2>. QED  BY <2>9 DEF p
<1>8. ASSUME NEW i \in 1..n, Good(i - 1)
      PROVE  Good(i)
  <2>1. i - 1 \in 0..n /\ i \in 0..n /\ i \in Nat \ {0}
    OBVIOUS
  <2>2. L(i - 1) \in Seq(Line) /\ L(i) \in Seq(Line)
    BY <1>5, <2>1
  <2>3. Scanned(L(i - 1)) \in Reader /\ Scanned(L(i)) \in Reader
    BY <2>2, ScannedType
  <2>4. Reads(Scanned(L(i - 1)), Scanned(L(i)), text[i])
    BY <1>1, <1>6, <2>2, FragmentReads
  <2>. QED  BY <1>1, <1>8, <2>1, <2>3, <2>4, FragmentTold
<1>9. Good(n)
  <2>. DEFINE T == {i \in 0..n : Good(i)}
  <2>. HIDE DEF Good
  <2>1. 0 \in T
    BY <1>7
  <2>2. ASSUME NEW i \in 1..n, i - 1 \in T
        PROVE  i \in T
    BY <1>8, <2>2
  <2>3. \A i \in 0..n : i \in T
    <3>. HIDE DEF T
    <3>. QED  BY <2>1, <2>2, CountUp
  <2>. QED  BY <2>3
<1>10. L(n) \in Seq(Line)
  BY <1>5
<1>. QED  BY <1>4, <1>9, <1>10

\* What composition begins with is what from_pem read.
ReadInv ==
    stage = "compose" =>
        LET blocks == FromPem(Lines(input.text))
        IN  shipped = [i \in DOMAIN blocks |-> CertificateOf(blocks[i])]

\* Every step keeps it.
LEMMA NextRead == ReadInv /\ [Next]_vars => ReadInv'
<1>. SUFFICES ASSUME ReadInv, [Next]_vars, (stage = "compose")'
              PROVE  LET blocks == FromPem(Lines(input'.text))
                     IN  shipped' = [i \in DOMAIN blocks |-> CertificateOf(blocks[i])]
  BY DEF ReadInv
<1>1. CASE ReadBundle
  BY <1>1 DEF ReadBundle
<1>2. CASE ComposeStore \/ WriteFiles
  BY <1>2 DEF ComposeStore, WriteFiles
<1>3. CASE Finished \/ UNCHANGED vars
  BY <1>3 DEF Finished, vars, ReadInv
<1>. QED  BY <1>1, <1>2, <1>3 DEF Next

\* Whatever accidents a bundle has had, every block that stands whole in it is
\* read as often as it stands there, and nothing is read that does not stand
\* there from its beginning to its last character: damage costs the blocks it
\* is in.
THEOREM WholeBlocksSurvive == Spec => []WholeBlocksAreRead
<1>1. Init => ReadInv
  BY DEF Init, ReadInv
<1>2. Spec => []ReadInv
  BY <1>1, NextRead, PTL DEF Spec
<1>3. ComposeInv /\ ReadInv => WholeBlocksAreRead
  <2>. DEFINE Stands(f, kinds) == {i \in DOMAIN input.text :
                 input.text[i].cert = f /\ input.text[i].kind \in kinds}
              Read(f) == {i \in DOMAIN shipped : shipped[i] = f}
  <2>. SUFFICES ASSUME ComposeInv, ReadInv, stage = "compose", NEW f \in Fingerprints
                PROVE  /\ Cardinality(Stands(f, {"whole"})) <= Cardinality(Read(f))
                       /\ Cardinality(Read(f))
                             <= Cardinality(Stands(f, {"whole", "endless"}))
    BY DEF WholeBlocksAreRead
  <2>. DEFINE text == input.text
              out == Scanned(Lines(text)).out
  <2>1. PICK n \in Nat : text \in [1..n -> Whole \cup Accident]
    BY DEF ComposeInv, TextOK
  <2>2. Told(Scanned(Lines(text)), text, n)
    <3>. HIDE DEF text
    <3>. QED  BY <2>1, TextTold
  <2>3. shipped = [i \in DOMAIN out |-> CertificateOf(out[i])]
    BY FromPemScans DEF ReadInv
  <2>4. Read(f) = ReadOf(out, f)
    <3>. HIDE DEF out
    <3>. QED  BY <2>3 DEF ReadOf
  <2>5. \A kinds : Stands(f, kinds) = Standing(text, n, f, kinds)
    BY <2>1 DEF Standing
  <2>. HIDE DEF Stands, Read
  <2>. QED  BY <2>2, <2>4, <2>5 DEF Told
<1>. QED  BY <1>2, <1>3, ComposeInvariant, PTL

-----------------------------------------------------------------------------
(***************************************************************************)
(* The directory named by subject hash.                                    *)
(***************************************************************************)

\* The numbers of a hash are the first c.
NumberedOf(a, c) == {<<a, k>> : k \in 0..(c - 1)}
FilesOf(dir, a) == {x \in DOMAIN dir : x[1] = a}

\* Directories of blocks in which the files of each hash are numbered from 0
\* on, with no gap.
Hashes == {SubjectHash(f) : f \in Fingerprints}
Directory ==
    {dir \in UNION {[d -> Seq(Line)] : d \in SUBSET (Hashes \X Nat)} :
        \A a \in Hashes : \E c \in Nat : FilesOf(dir, a) = NumberedOf(a, c)}

\* So many files have the first c numbers.
LEMMA NumberedCount ==
  ASSUME NEW a, NEW c \in Nat
  PROVE  Cardinality(NumberedOf(a, c)) = c
<1>. DEFINE f == [k \in 0..(c - 1) |-> <<a, k>>]
<1>1. f \in Bijection(0..(c - 1), NumberedOf(a, c))
  <2>1. f \in [0..(c - 1) -> NumberedOf(a, c)]
    BY DEF NumberedOf
  <2>2. \A j, k \in 0..(c - 1) : f[j] = f[k] => j = k
    OBVIOUS
  <2>3. \A x \in NumberedOf(a, c) : \E k \in 0..(c - 1) : f[k] = x
    BY DEF NumberedOf
  <2>. HIDE DEF f
  <2>. QED  BY <2>1, <2>2, <2>3 DEF Bijection, Injection, Surjection, IsInjective
<1>2. IsFiniteSet(0..(c - 1)) /\ Cardinality(0..(c - 1)) = c
  <2>1. c - 1 \in Int /\ 0 \in Int
    OBVIOUS
  <2>2. IsFiniteSet(0..(c - 1))
        /\ Cardinality(0..(c - 1)) = IF 0 > c - 1 THEN 0 ELSE (c - 1) - 0 + 1
    BY <2>1, FS_Interval
  <2>. QED  BY <2>2
<1>. HIDE DEF f
<1>. QED  BY <1>1, <1>2, FS_Bijection DEF ExistsBijection

\* A file of its own: what the directory held it holds still, and the root's
\* block under the next number of its hash.
LEMMA PlaceFacts ==
  ASSUME NEW dir \in Directory, NEW e \in EntrySet
  PROVE  LET hash == SubjectHash(e.fp)
             new == Place(dir, e)
         IN  /\ new \in Directory
             /\ \A x \in DOMAIN dir : x \in DOMAIN new /\ new[x] = dir[x]
             /\ \E k \in Nat : <<hash, k>> \in DOMAIN new /\ new[<<hash, k>>] = Blocks[e.fp]
<1>. DEFINE hash == SubjectHash(e.fp)
            new == Place(dir, e)
<1>1. e.fp \in Fingerprints /\ hash \in Hashes /\ Blocks[e.fp] \in Seq(Line)
  <2>1. e.fp \in Fingerprints
    BY ComposeAssumption DEF EntrySet
  <2>. QED  BY <2>1, BlocksType DEF Hashes
<1>. HIDE DEF hash
<1>2. PICK c \in Nat : FilesOf(dir, hash) = NumberedOf(hash, c)
  BY <1>1 DEF Directory
<1>. DEFINE name == <<hash, c>>
            b == Blocks[e.fp]
<1>3. new = [k \in DOMAIN dir \cup {name} |-> IF k = name THEN b ELSE dir[k]]
  <2>1. Cardinality({k \in DOMAIN dir : k[1] = hash}) = c
    BY <1>2, NumberedCount DEF FilesOf
  <2>. QED  BY <2>1 DEF Place, hash
<1>4. name \in Hashes \X Nat /\ name[1] = hash
  BY <1>1
<1>5. name \notin DOMAIN dir
  <2>1. name \notin NumberedOf(hash, c)
    BY DEF NumberedOf
  <2>. HIDE DEF name
  <2>. QED  BY <1>2, <1>4, <2>1 DEF FilesOf
<1>6. NumberedOf(hash, c) \cup {name} = NumberedOf(hash, c + 1)
  <2>1. 0..((c + 1) - 1) = (0..(c - 1)) \cup {c}
    OBVIOUS
  <2>. DEFINE long == 0..((c + 1) - 1)
              short == 0..(c - 1)
  <2>. HIDE DEF long, short
  <2>2. {<<hash, k>> : k \in short} \cup {<<hash, c>>} = {<<hash, k>> : k \in long}
    BY <2>1 DEF long, short
  <2>. QED  BY <2>2 DEF NumberedOf, long, short
<1>. HIDE DEF name, b, new
<1>7. DOMAIN new = DOMAIN dir \cup {name}
  BY <1>3
<1>8. \A x \in DOMAIN dir : x \in DOMAIN new /\ new[x] = dir[x]
  BY <1>3, <1>5
<1>9. name \in DOMAIN new /\ new[name] = b
  BY <1>3
<1>10. ASSUME NEW a \in Hashes  PROVE \E d \in Nat : FilesOf(new, a) = NumberedOf(a, d)
  <2>1. CASE a = hash
    <3>1. FilesOf(new, a) = FilesOf(dir, a) \cup {name}
      BY <1>4, <1>7, <2>1 DEF FilesOf
    <3>2. FilesOf(new, a) = NumberedOf(a, c + 1)
      BY <1>2, <1>6, <2>1, <3>1
    <3>3. c + 1 \in Nat
      OBVIOUS
    <3>. QED  BY <3>2, <3>3
  <2>2. CASE a # hash
    <3>1. FilesOf(new, a) = FilesOf(dir, a)
      BY <1>4, <1>7, <2>2 DEF FilesOf
    <3>. QED  BY <3>1 DEF Directory
  <2>. QED  BY <2>1, <2>2
<1>11. new \in UNION {[d -> Seq(Line)] : d \in SUBSET (Hashes \X Nat)}
  <2>1. PICK d \in SUBSET (Hashes \X Nat) : dir \in [d -> Seq(Line)]
    BY DEF Directory
  <2>2. DOMAIN dir = d /\ \A x \in d : dir[x] \in Seq(Line)
    BY <2>1
  <2>. DEFINE wide == d \cup {name}
  <2>3. wide \in SUBSET (Hashes \X Nat)
    BY <1>4
  <2>4. new = [x \in wide |-> IF x = name THEN b ELSE dir[x]]
    BY <1>3, <2>2
  <2>5. \A x \in wide : (IF x = name THEN b ELSE dir[x]) \in Seq(Line)
    BY <1>1, <2>2 DEF b
  <2>. HIDE DEF wide
  <2>6. new \in [wide -> Seq(Line)]
    BY <2>4, <2>5
  <2>. QED  BY <2>3, <2>6
<1>12. new \in Directory
  BY <1>10, <1>11 DEF Directory
<1>13. c \in Nat /\ <<hash, c>> \in DOMAIN new /\ new[<<hash, c>>] = b
  BY <1>9 DEF name
<1>. QED  BY <1>8, <1>12, <1>13 DEF new, hash, b

\* The pass over the entries: a directory in which each has a file of its own,
\* under a number of its hash.
LEMMA HashedFacts ==
  ASSUME NEW entries \in Seq(EntrySet)
  PROVE  /\ HashedFiles(entries) \in Directory
         /\ \A j \in DOMAIN entries :
               LET hash == SubjectHash(entries[j].fp)
               IN  \E k \in Nat :
                      /\ <<hash, k>> \in DOMAIN HashedFiles(entries)
                      /\ HashedFiles(entries)[<<hash, k>>] = Blocks[entries[j].fp]
<1>. DEFINE n == Len(entries)
            none == [k \in {} |-> <<>>]
            step == [i \in 1..n |-> [d \in Directory |-> Place(d, entries[i])]]
            pass[i \in 0..Len(entries)] ==
                IF i = 0 THEN [k \in {} |-> <<>>] ELSE Place(pass[i - 1], entries[i])
<1>1. n \in Nat /\ DOMAIN entries = 1..n /\ \A i \in 1..n : entries[i] \in EntrySet
  OBVIOUS
<1>2. none \in Directory
  <2>1. none \in [{} -> Seq(Line)] /\ {} \in SUBSET (Hashes \X Nat)
    OBVIOUS
  <2>2. none \in UNION {[d -> Seq(Line)] : d \in SUBSET (Hashes \X Nat)}
    <3>. HIDE DEF none
    <3>. QED  BY <2>1
  <2>3. ASSUME NEW a  PROVE FilesOf(none, a) = NumberedOf(a, 0)
    BY DEF FilesOf, NumberedOf
  <2>. HIDE DEF none
  <2>4. 0 \in Nat
    OBVIOUS
  <2>. QED  BY <2>2, <2>3, <2>4 DEF Directory
<1>3. step \in StepsOf(n, Directory)
  BY <1>1, PlaceFacts DEF StepsOf
<1>4. PICK f \in [0..n -> Directory] :
        f[0] = none /\ \A i \in 1..n : f[i] = step[i][f[i - 1]]
  <2>. HIDE DEF step, n, none
  <2>1. \E f : IsPass(f, n, Directory, none, step)
    BY <1>1, <1>2, <1>3, PassExists
  <2>. QED  BY <2>1 DEF IsPass
<1>5. \A i \in 1..n : f[i - 1] \in Directory /\ f[i] = Place(f[i - 1], entries[i])
  <2>1. \A i \in 1..n : i - 1 \in 0..n
    BY <1>1
  <2>2. \A i \in 1..n, d \in Directory : step[i][d] = Place(d, entries[i])
    OBVIOUS
  <2>. HIDE DEF step, n
  <2>. QED  BY <1>4, <2>1, <2>2
<1>6. f = [i \in 0..n |-> IF i = 0 THEN [k \in {} |-> <<>>]
                          ELSE Place(f[i - 1], entries[i])]
  <2>1. \A i \in 0..n : i # 0 => i \in 1..n
    BY <1>1
  <2>. HIDE DEF step, n
  <2>2. f = [i \in 0..n |-> f[i]]
    BY <1>4
  <2>3. none = [k \in {} |-> <<>>]
    OBVIOUS
  <2>. HIDE DEF none
  <2>. QED  BY <1>4, <1>5, <2>1, <2>2, <2>3
<1>7. pass = [i \in 0..n |-> IF i = 0 THEN [k \in {} |-> <<>>]
                             ELSE Place(pass[i - 1], entries[i])]
  BY <1>6
<1>8. HashedFiles(entries) = pass[n]
  BY DEF HashedFiles
<1>. HIDE DEF pass, step
<1>9. pass[n] = f[n]
  <2>. DEFINE T == {k \in 0..n : pass[k] = f[k]}
  <2>1. 0 \in T
    BY <1>1, <1>4, <1>7
  <2>2. ASSUME NEW i \in 1..n, i - 1 \in T PROVE i \in T
    <3>1. i \in 0..n /\ i # 0
      BY <1>1
    <3>2. pass[i] = Place(pass[i - 1], entries[i])
      BY <1>7, <3>1
    <3>. QED  BY <1>5, <2>2, <3>1, <3>2
  <2>3. \A i \in 0..n : i \in T
    <3>. HIDE DEF T
    <3>. QED  BY <1>1, <2>1, <2>2, CountUp
  <2>4. n \in 0..n
    BY <1>1
  <2>. QED  BY <2>3, <2>4
<1>. DEFINE Held(d, j) == LET hash == SubjectHash(entries[j].fp)
                          IN  \E k \in Nat : /\ <<hash, k>> \in DOMAIN d
                                             /\ d[<<hash, k>>] = Blocks[entries[j].fp]
            T == {i \in 0..n : \A j \in 1..i : Held(f[i], j)}
<1>10. 0 \in T
  BY <1>1
<1>11. ASSUME NEW i \in 1..n, i - 1 \in T
       PROVE  i \in T
  <2>. DEFINE old == f[i - 1]
              new == f[i]
  <2>1. /\ \A x \in DOMAIN old : x \in DOMAIN new /\ new[x] = old[x]
        /\ Held(new, i)
    <3>1. old \in Directory /\ entries[i] \in EntrySet /\ new = Place(old, entries[i])
      BY <1>1, <1>5
    <3>. HIDE DEF old, new
    <3>. QED  BY <3>1, PlaceFacts
  <2>. HIDE DEF old, new
  <2>2. ASSUME NEW j \in 1..(i - 1)  PROVE Held(new, j)
    <3>1. Held(old, j)
      BY <1>11 DEF old
    <3>. QED  BY <2>1, <3>1
  <2>3. i \in 0..n /\ \A j \in 1..i : j = i \/ j \in 1..(i - 1)
    BY <1>1
  <2>. HIDE DEF Held
  <2>4. \A j \in 1..i : Held(new, j)
    BY <2>1, <2>2, <2>3
  <2>. QED  BY <2>3, <2>4 DEF new
<1>12. f[n] \in Directory /\ \A j \in 1..n : Held(f[n], j)
  <2>. HIDE DEF Held
  <2>1. \A i \in 0..n : i \in T
    <3>. HIDE DEF T
    <3>. QED  BY <1>1, <1>10, <1>11, CountUp
  <2>2. n \in 0..n
    BY <1>1
  <2>. QED  BY <1>4, <2>1, <2>2
<1>. QED  BY <1>1, <1>8, <1>9, <1>12

\* A block of a file of its own reads back as its certificate.
LEMMA BlockReadsBack ==
  ASSUME NEW f \in Fingerprints
  PROVE  FromPem(Blocks[f]) = <<Der[f]>>
<1>1. Der[f] \in Seq(Byte) /\ Blocks[f] = ToPem(Der[f])
  BY ComposeAssumption DEF Blocks
<1>2. <<>> \in Seq(Line) /\ Blocks[f] \in Seq(Line) /\ <<>> \o Blocks[f] = Blocks[f]
  BY BlocksType
<1>. DEFINE before == Scanned(<<>>).out
            der == Der[f]
            after == Scanned(<<>> \o ToPem(der))
<1>3. before = <<>>
  BY ScannedEmpty DEF Closed
<1>4. after = [open |-> FALSE, body |-> <<>>, out |-> Append(before, der)]
  BY <1>1, <1>2, ReadsBlock
<1>. HIDE DEF before, der
<1>5. after.out = Append(before, der)
  BY <1>4
<1>6. Append(before, der) = <<der>>
  BY <1>3
<1>. HIDE DEF after
<1>7. FromPem(Blocks[f]) = after.out
  BY <1>1, <1>2, FromPemScans DEF after, der
<1>. QED  BY <1>5, <1>6, <1>7 DEF der

\* A root is found by its subject's hash under the k-th number.
FoundIn(dir, f, k) ==
    /\ \A i \in 0..k : <<SubjectHash(f), i>> \in DOMAIN dir
    /\ FromPem(dir[<<SubjectHash(f), k>>]) = <<Der[f]>>

\* Every root of the rendered directory is.
LEMMA EveryRootIsFound ==
  ASSUME Settled, result.ok, NEW f \in PurposeRoots(Out.roots, ServerAuth)
  PROVE  /\ f \in Fingerprints
         /\ \E k \in Nat : FoundIn(RenderHashed(Out.roots), f, k)
<1>. DEFINE dir == RenderHashed(Out.roots)
            entries == ServerAuthEntries(Out.roots)
<1>1. Composed(result) /\ Len(shipped) >= Floor
  BY OutFacts, ComposeFacts DEF Settled
<1>2. Out.roots \in Seq(EntrySet)
  BY <1>1 DEF Composed, Out
<1>3. entries \in Seq(EntrySet)
  BY <1>2, KeepFacts DEF ServerAuthEntries
<1>4. PICK j \in DOMAIN entries : entries[j].fp = f
  <2>1. Range(entries) = Range(Out.roots) \cap
           {e \in ToSet(Out.roots) : \E p \in e.purposes : Folded(p) = ServerAuth}
    BY <1>2, KeepFacts DEF ServerAuthEntries
  <2>2. PICK i \in DOMAIN Out.roots : /\ Out.roots[i].fp = f
                                      /\ \E p \in Out.roots[i].purposes : Folded(p) = ServerAuth
    BY DEF PurposeRoots
  <2>3. Out.roots[i] \in Range(entries)
    BY <2>1, <2>2 DEF Range, ToSet
  <2>. HIDE DEF entries
  <2>. QED  BY <2>2, <2>3 DEF Range
<1>5. f \in Fingerprints
  <2>1. entries[j] \in EntrySet
    BY <1>3
  <2>. HIDE DEF entries
  <2>. QED  BY <1>4, <2>1, ComposeAssumption DEF EntrySet
<1>6. dir = HashedFiles(entries)
  BY DEF RenderHashed
<1>. HIDE DEF entries, dir
<1>7. dir \in Directory
  BY <1>3, <1>6, HashedFacts
<1>. DEFINE hash == SubjectHash(f)
<1>8. PICK k \in Nat : <<hash, k>> \in DOMAIN dir /\ dir[<<hash, k>>] = Blocks[f]
  BY <1>3, <1>4, <1>6, HashedFacts
<1>9. hash \in Hashes
  BY <1>5 DEF Hashes
<1>. HIDE DEF hash
<1>10. PICK c \in Nat : FilesOf(dir, hash) = NumberedOf(hash, c)
  BY <1>7, <1>9 DEF Directory
<1>11. k \in 0..(c - 1)
  <2>1. <<hash, k>> \in NumberedOf(hash, c)
    BY <1>8, <1>10 DEF FilesOf
  <2>. QED  BY <2>1 DEF NumberedOf
<1>12. ASSUME NEW i \in 0..k  PROVE <<hash, i>> \in DOMAIN dir
  <2>1. i \in 0..(c - 1)
    BY <1>11
  <2>2. <<hash, i>> \in FilesOf(dir, hash)
    BY <1>10, <2>1 DEF NumberedOf
  <2>. QED  BY <2>2 DEF FilesOf
<1>13. FromPem(dir[<<hash, k>>]) = <<Der[f]>>
  BY <1>5, <1>8, BlockReadsBack
<1>14. FoundIn(dir, f, k)
  BY <1>12, <1>13 DEF FoundIn, hash
<1>. QED  BY <1>5, <1>14 DEF dir

\* Nothing touches the directory, or the subjects it is named by, after it is
\* written.
FoundInv ==
    stage = "done" /\ result.ok =>
        \A f \in PurposeRoots(result.out.roots, ServerAuth) :
            \E k \in Nat : FoundIn(hashed, f, k)

\* Every step keeps it.
LEMMA NextFound == ComposeInv /\ FoundInv /\ [Next]_vars => FoundInv'
<1>. SUFFICES ASSUME ComposeInv, FoundInv, [Next]_vars, (stage = "done")', result'.ok,
                     NEW f \in PurposeRoots(result'.out.roots, ServerAuth)
              PROVE  \E k \in Nat : FoundIn(hashed, f, k)'
  BY DEF FoundInv
<1>1. CASE ReadBundle
  BY <1>1 DEF ReadBundle
<1>2. CASE ComposeStore
  BY <1>2 DEF ComposeStore
<1>3. CASE WriteFiles
  <2>1. /\ stage = "render" /\ hashed' = RenderHashed(Out.roots)
        /\ result' = result /\ canonical' = canonical
    BY <1>3 DEF WriteFiles, Out
  <2>2. Settled /\ result.ok /\ f \in PurposeRoots(Out.roots, ServerAuth)
    BY <2>1, OnceDone DEF Done, Out
  <2>3. PICK k \in Nat : FoundIn(RenderHashed(Out.roots), f, k)
    BY <2>2, EveryRootIsFound
  <2>4. FoundIn(hashed, f, k)'
    BY <2>1, <2>3 DEF FoundIn, SubjectHash
  <2>. QED  BY <2>4
<1>4. CASE Finished \/ UNCHANGED vars
  <2>1. /\ hashed' = hashed /\ stage' = stage
        /\ result' = result /\ canonical' = canonical
    BY <1>4 DEF Finished, vars
  <2>2. PICK k \in Nat : FoundIn(hashed, f, k)
    BY <2>1 DEF FoundInv
  <2>3. FoundIn(hashed, f, k)'
    BY <2>1, <2>2 DEF FoundIn, SubjectHash
  <2>. QED  BY <2>3
<1>. QED  BY <1>1, <1>2, <1>3, <1>4 DEF Next

\* Whoever looks a root up in the directory by its subject's hash, taking the
\* numbers from 0 on until one is missing, meets the root's own certificate,
\* whatever other roots share the hash.
THEOREM LookupsFindTheRoot == Spec => []LookupFinds
<1>1. Init => FoundInv
  BY DEF Init, FoundInv
<1>2. Spec => []FoundInv
  BY <1>1, NextFound, ComposeInvariant, PTL DEF Spec
<1>3. ComposeInv /\ FoundInv => LookupFinds
  <2>. SUFFICES ASSUME FoundInv, stage = "done", result.ok,
                       NEW f \in PurposeRoots(Out.roots, ServerAuth), NEW g \in IsCA,
                       canonical[g] = canonical[f]
                PROVE  \E k \in {key[2] : key \in DOMAIN hashed} :
                          /\ \A j \in 0..k : <<SubjectHash(g), j>> \in DOMAIN hashed
                          /\ FromPem(hashed[<<SubjectHash(g), k>>]) = <<Der[f]>>
    BY DEF LookupFinds
  <2>1. PICK k \in Nat : FoundIn(hashed, f, k)
    BY DEF FoundInv, Out
  <2>2. SubjectHash(g) = SubjectHash(f)
    BY DEF SubjectHash
  <2>3. k \in {key[2] : key \in DOMAIN hashed}
    <3>1. k \in 0..k
      OBVIOUS
    <3>2. <<SubjectHash(f), k>> \in DOMAIN hashed
      BY <2>1, <3>1 DEF FoundIn
    <3>. QED  BY <3>2
  <2>. QED  BY <2>1, <2>2, <2>3 DEF FoundIn
<1>. QED  BY <1>2, <1>3, ComposeInvariant, PTL
=============================================================================
