------------------------- MODULE HttpExchangeProofs --------------------------
(***************************************************************************)
(* Theorems about HttpExchange for bodies and buffers of any size.         *)
(***************************************************************************)
EXTENDS HttpExchange, SequenceTheorems, TLAPS

\* Leaves go to Zenon unless they name another prover.
USE ZenonT(40)

Byte == {"head", "crlf", "body"} \X Nat
Reading == {"head", "sized", "to_eof"}

\* The bytes in s are those of w behind the first n.
From(w, s, n) == \A i \in 1..Len(s) : s[i] = w[n + i]

TypeInv ==
    /\ pc \in {"connect", "write", "done"} \cup Reading
    /\ reply \in Reply
    /\ closed \in BOOLEAN
    /\ response \in Seq(Byte) /\ body \in Seq(Byte) /\ input \in Seq(Byte)
    /\ sent \in 0..(reply.size + 3)

\* The bytes that the client has read.
Got == sent - Len(input)

\* What the client can read follows what it has read.
Wired == Len(input) <= sent /\ From(Wire(reply), input, Got)

\* What the client keeps is what it has read, in the head from the first byte
\* on and short of the delimiter, in the body from the first byte of the body.
Kept ==
    /\ pc \in {"connect", "write"} => Got = 0 /\ response = <<>>
    /\ pc = "head" => /\ Len(response) = Got /\ Got < 3
                      /\ From(Wire(reply), response, 0)
    /\ pc \in {"sized", "to_eof"} => /\ Len(body) + 3 = Got
                                     /\ From(Wire(reply), body, 3)

\* An answer with a length is read until it is there, one that ends with the
\* connection has no length.
Missing ==
    /\ pc = "sized" => Len(body) < reply.size
    /\ pc = "to_eof" => reply.status \in {200, 400} /\ ~reply.content_length

IInv ==
    /\ TypeInv /\ Wired /\ Kept /\ Missing
    /\ pc # "done" => result = NoResult
    /\ BodyExact

-----------------------------------------------------------------------------
(* Bytes                                                                   *)

\* A read takes the first n bytes and leaves the others.
LEMMA Split ==
    ASSUME NEW S, NEW w, NEW s \in Seq(S), NEW n \in 0..Len(s), NEW k \in Nat,
           From(w, s, k)
    PROVE  /\ SubSeq(s, 1, n) \in Seq(S) /\ SubSeq(s, n + 1, Len(s)) \in Seq(S)
           /\ Len(SubSeq(s, 1, n)) = n /\ Len(SubSeq(s, n + 1, Len(s))) = Len(s) - n
           /\ From(w, SubSeq(s, 1, n), k) /\ From(w, SubSeq(s, n + 1, Len(s)), k + n)
<1>1. PICK m \in Nat : m = Len(s) /\ n \in 0..m
  BY SMTT(40)
<1>2. \A i \in 1..m : s[i] \in S /\ s[i] = w[k + i]
  BY <1>1, SMTT(40) DEF From
<1> DEFINE a == SubSeq(s, 1, n)
           b == SubSeq(s, n + 1, m)
<1>3. /\ a \in Seq(S) /\ Len(a) = n
      /\ \A i \in 1..n : a[i] = s[i]
  <2>1. 1 \in Int /\ n \in Int /\ \A i \in 1..n : s[i] \in S
    BY <1>1, <1>2, SMTT(40)
  <2>2. /\ a \in Seq(S)
        /\ Len(a) = IF 1 <= n THEN n - 1 + 1 ELSE 0
        /\ \A i \in 1..(n - 1 + 1) : a[i] = s[1 + i - 1]
    BY <2>1, SubSeqProperties, SMTT(40)
  <2> HIDE DEF a
  <2>3. QED BY <1>1, <2>2, SMTT(40)
<1>4. /\ b \in Seq(S) /\ Len(b) = m - n
      /\ \A i \in 1..(m - n) : b[i] = s[n + i]
  <2>1. n + 1 \in Int /\ m \in Int /\ \A i \in (n + 1)..m : s[i] \in S
    BY <1>1, <1>2, SMTT(40)
  <2>2. /\ b \in Seq(S)
        /\ Len(b) = IF n + 1 <= m THEN m - (n + 1) + 1 ELSE 0
        /\ \A i \in 1..(m - (n + 1) + 1) : b[i] = s[(n + 1) + i - 1]
    BY <2>1, SubSeqProperties, SMTT(40)
  <2> HIDE DEF b
  <2>3. QED BY <1>1, <2>2, SMTT(40)
<1> HIDE DEF a, b
<1>5. From(w, a, k)
  <2>1. \A i \in 1..n : i \in 1..m
    BY <1>1, SMTT(40)
  <2>2. QED BY <1>2, <1>3, <2>1 DEF From
<1>6. From(w, b, k + n)
  <2>1. \A i \in 1..(m - n) : n + i \in 1..m /\ k + (n + i) = (k + n) + i
    BY <1>1, SMTT(40)
  <2>2. \A i \in 1..(m - n) : b[i] = w[(k + n) + i]
    BY <1>2, <1>4, <2>1
  <2>3. QED BY <1>4, <2>2 DEF From
<1>7. QED BY <1>1, <1>3, <1>4, <1>5, <1>6 DEF a, b

\* What is read is appended to what was read before it.
LEMMA Join ==
    ASSUME NEW S, NEW w, NEW c \in Seq(S), NEW b \in Seq(S), NEW k \in Nat,
           From(w, c, k), From(w, b, k + Len(c))
    PROVE  c \o b \in Seq(S) /\ Len(c \o b) = Len(c) + Len(b) /\ From(w, c \o b, k)
<1>1. PICK m \in Nat, n \in Nat : m = Len(c) /\ n = Len(b)
  BY SMTT(40)
<1> DEFINE d == c \o b
<1>2. /\ d \in Seq(S) /\ Len(d) = m + n
      /\ \A i \in 1..(m + n) : d[i] = IF i <= m THEN c[i] ELSE b[i - m]
  BY <1>1, ConcatProperties
<1> HIDE DEF d
<1>3. \A i \in 1..m : c[i] = w[k + i]
  BY <1>1 DEF From
<1>4. \A i \in 1..n : b[i] = w[(k + m) + i]
  BY <1>1 DEF From
<1>5. \A i \in 1..(m + n) : d[i] = w[k + i]
  <2> TAKE i \in 1..(m + n)
  <2>1. CASE i <= m
    <3>1. i \in 1..m
      BY <2>1, SMTT(40)
    <3>2. QED BY <1>2, <1>3, <2>1, <3>1
  <2>2. CASE ~(i <= m)
    <3>1. i - m \in 1..n /\ (k + m) + (i - m) = k + i
      BY <2>2, SMTT(40)
    <3>2. QED BY <1>2, <1>4, <2>2, <3>1
  <2>3. QED BY <2>1, <2>2
<1>6. QED BY <1>1, <1>2, <1>5 DEF From, d

\* One read: a piece of at most n bytes, and what is left behind it.
LEMMA ReadFacts ==
    ASSUME NEW w, input \in Seq(Byte), NEW k \in Nat, From(w, input, k), NEW n \in Nat
    PROVE  /\ Taken(n) \in Seq(Byte) /\ Left(n) \in Seq(Byte)
           /\ Len(Taken(n)) \in 0..n
           /\ Len(Taken(n)) + Len(Left(n)) = Len(input)
           /\ From(w, Taken(n), k) /\ From(w, Left(n), k + Len(Taken(n)))
<1>1. PICK m \in Nat : m = Len(input)
  BY SMTT(40)
<1>2. CASE m < n
  <2>1. Taken(n) = input /\ Left(n) = SubSeq(input, m + 1, Len(input))
    BY <1>1, <1>2 DEF Taken, Left
  <2>2. m \in 0..Len(input) /\ m \in 0..n
    BY <1>1, <1>2, SMTT(40)
  <2>3. /\ Left(n) \in Seq(Byte) /\ Len(Left(n)) = Len(input) - m
        /\ From(w, Left(n), k + m)
    <3>1. /\ SubSeq(input, m + 1, Len(input)) \in Seq(Byte)
          /\ From(w, SubSeq(input, m + 1, Len(input)), k + m)
      BY <2>2, Split
    <3>2. Len(SubSeq(input, m + 1, Len(input))) = Len(input) - m
      BY <2>2, SMTT(40)
    <3>3. QED BY <2>1, <3>1, <3>2
  <2>4. m + (Len(input) - m) = Len(input)
    BY <1>1, SMTT(40)
  <2>5. QED BY <1>1, <2>1, <2>2, <2>3, <2>4
<1>3. CASE ~(m < n)
  <2>1. Taken(n) = SubSeq(input, 1, n)
    BY <1>1, <1>3 DEF Taken
  <2>2. n \in 0..Len(input) /\ n \in 0..n
    BY <1>1, <1>3, SMTT(40)
  <2>3. Taken(n) \in Seq(Byte) /\ Len(Taken(n)) = n /\ From(w, Taken(n), k)
    BY <2>1, <2>2, Split, SMTT(40)
  <2>4. Left(n) = SubSeq(input, n + 1, Len(input))
    BY <2>3 DEF Left
  <2>5. /\ Left(n) \in Seq(Byte) /\ Len(Left(n)) = Len(input) - n
        /\ From(w, Left(n), k + n)
    <3>1. /\ SubSeq(input, n + 1, Len(input)) \in Seq(Byte)
          /\ From(w, SubSeq(input, n + 1, Len(input)), k + n)
      BY <2>2, Split
    <3>2. Len(SubSeq(input, n + 1, Len(input))) = Len(input) - n
      BY <2>2, SMTT(40)
    <3>3. QED BY <2>4, <3>1, <3>2
  <2>6. n + (Len(input) - n) = Len(input)
    BY <1>1, SMTT(40)
  <2>7. QED BY <2>2, <2>3, <2>5, <2>6
<1>4. QED BY <1>2, <1>3

\* The body of an answer.
LEMMA BodyBytesFacts ==
    ASSUME NEW n \in Nat
    PROVE  /\ BodyBytes(n) \in Seq(Byte) /\ Len(BodyBytes(n)) = n
           /\ \A i \in 1..n : BodyBytes(n)[i] = <<"body", i>>
<1>1. \A i \in 1..n : <<"body", i>> \in Byte
  <2>1. \A i \in 1..n : i \in Nat
    BY SMTT(40)
  <2>2. QED BY <2>1 DEF Byte
<1> DEFINE f == [i \in 1..n |-> <<"body", i>>]
<1>2. f \in [1..n -> Byte] /\ DOMAIN f = 1..n
  BY <1>1
<1>3. \A i \in 1..n : f[i] = <<"body", i>>
  OBVIOUS
<1> HIDE DEF f
<1>4. f \in Seq(Byte) /\ Len(f) = n
  BY <1>2, SMTT(40)
<1>5. QED BY <1>3, <1>4 DEF BodyBytes, f

\* The bytes of an answer by their position.
LEMMA WireFacts ==
    ASSUME NEW r, r.size \in Nat
    PROVE  /\ Wire(r) \in Seq(Byte) /\ Len(Wire(r)) = r.size + 3
           /\ Wire(r)[1] = HeadByte /\ Wire(r)[2] = Crlf(1) /\ Wire(r)[3] = Crlf(2)
           /\ \A i \in 1..r.size : Wire(r)[3 + i] = <<"body", i>>
<1> DEFINE h == <<HeadByte, Crlf(1), Crlf(2)>>
           b == BodyBytes(r.size)
<1>1. b \in Seq(Byte) /\ Len(b) = r.size /\ \A i \in 1..r.size : b[i] = <<"body", i>>
  BY BodyBytesFacts
<1>2. HeadByte \in Byte /\ Crlf(1) \in Byte /\ Crlf(2) \in Byte
  <2>1. 0 \in Nat /\ 1 \in Nat /\ 2 \in Nat
    BY SMTT(40)
  <2>2. QED BY <2>1 DEF HeadByte, Crlf, Byte
<1>3. h \in Seq(Byte) /\ Len(h) = 3 /\ h[1] = HeadByte /\ h[2] = Crlf(1) /\ h[3] = Crlf(2)
  BY <1>2, SMTT(40)
<1>4. Wire(r) = h \o b
  BY DEF Wire
<1> HIDE DEF h, b
<1>5. /\ h \o b \in Seq(Byte) /\ Len(h \o b) = 3 + r.size
      /\ \A i \in 1..(3 + r.size) : (h \o b)[i] = IF i <= 3 THEN h[i] ELSE b[i - 3]
  <2>1. /\ h \o b \in Seq(Byte) /\ Len(h \o b) = Len(h) + Len(b)
        /\ \A i \in 1..(Len(h) + Len(b)) :
              (h \o b)[i] = IF i <= Len(h) THEN h[i] ELSE b[i - Len(h)]
    BY <1>1, <1>3, ConcatProperties
  <2>2. QED BY <1>1, <1>3, <2>1
<1> DEFINE w == h \o b
<1> HIDE DEF w
<1>6. /\ w \in Seq(Byte) /\ Len(w) = 3 + r.size
      /\ \A i \in 1..(3 + r.size) : w[i] = IF i <= 3 THEN h[i] ELSE b[i - 3]
  BY <1>5 DEF w
<1>7. Len(w) = r.size + 3 /\ w[1] = h[1] /\ w[2] = h[2] /\ w[3] = h[3]
  BY <1>6, SMTT(40)
<1>8. \A i \in 1..r.size : w[3 + i] = b[i]
  BY <1>6, SMTT(40)
<1>9. QED BY <1>1, <1>3, <1>4, <1>6, <1>7, <1>8 DEF w

\* The answers.
LEMMA ReplyFacts ==
    ASSUME NEW r \in Reply
    PROVE  /\ r.size \in Nat /\ r.content_length \in BOOLEAN
           /\ r.status \in {0, 200, 204, 304, 400}
           /\ r.status \in {0, 204, 304} => r.size = 0 /\ r.content_length = FALSE
<1>1. 0 \in Nat /\ \A n \in 0..MaxBody : n \in Nat
  BY BoundsAssumption, SMTT(40)
<1>2. CASE r \in [status : {200, 400}, content_length : BOOLEAN, size : 0..MaxBody]
  <2>1. r.status \in {200, 400} /\ r.content_length \in BOOLEAN /\ r.size \in 0..MaxBody
    BY <1>2
  <2>2. r.status \in {0, 200, 204, 304, 400} /\ r.status \notin {0, 204, 304}
    BY <2>1, SMTT(40)
  <2>3. r.size \in Nat /\ r.content_length \in BOOLEAN
    BY <1>1, <2>1
  <2>4. QED BY <2>2, <2>3
<1>3. CASE r \in [status : {204, 304}, content_length : {FALSE}, size : {0}]
  <2>1. r.status \in {204, 304} /\ r.content_length \in {FALSE} /\ r.size \in {0}
    BY <1>3
  <2>2. r.content_length = FALSE /\ r.size = 0
    BY <2>1
  <2>3. r.status \in {0, 200, 204, 304, 400}
    BY <2>1
  <2>4. r.content_length \in BOOLEAN
    BY <2>2
  <2>5. QED BY <1>1, <2>2, <2>3, <2>4
<1>4. CASE r \in [status : {0}, content_length : {FALSE}, size : {0}]
  <2>1. r.status \in {0} /\ r.content_length \in {FALSE} /\ r.size \in {0}
    BY <1>4
  <2>2. r.content_length = FALSE /\ r.size = 0
    BY <2>1
  <2>3. r.status \in {0, 200, 204, 304, 400}
    BY <2>1
  <2>4. r.content_length \in BOOLEAN
    BY <2>2
  <2>5. QED BY <1>1, <2>2, <2>3, <2>4
<1>5. QED BY <1>2, <1>3, <1>4 DEF Reply

\* The delimiter is found as soon as it is there, and nowhere else.
LEMMA HeadEndsFacts ==
    ASSUME NEW r, r.size \in Nat, NEW s \in Seq(Byte), Len(s) <= r.size + 3,
           From(Wire(r), s, 0)
    PROVE  /\ Len(s) < 3 => HeadEnds(s) = {}
           /\ Len(s) >= 3 => HeadEnds(s) = {2}
<1> DEFINE w == Wire(r)
<1>1. /\ w[1] = HeadByte /\ w[2] = Crlf(1) /\ w[3] = Crlf(2)
      /\ \A i \in 1..r.size : w[3 + i] = <<"body", i>>
  BY WireFacts
<1> HIDE DEF w
<1>2. PICK m \in Nat : m = Len(s) /\ m <= r.size + 3
  BY SMTT(40)
<1>3. \A i \in 1..m : s[i] = w[i]
  <2>1. \A i \in 1..m : 0 + i = i
    BY SMTT(40)
  <2>2. \A i \in 1..m : s[i] = w[0 + i]
    BY <1>2 DEF From, w
  <2>3. QED BY <2>1, <2>2
<1>4. \A i \in 1..m : w[i] = Crlf(1) => i = 2
  <2> SUFFICES ASSUME NEW i \in 1..m, i # 2 PROVE w[i] # Crlf(1)
    OBVIOUS
  <2>1. CASE i = 1
    <3>1. HeadByte # Crlf(1)
      BY SMTT(40) DEF HeadByte, Crlf
    <3>2. QED BY <1>1, <2>1, <3>1
  <2>2. CASE i = 3
    <3>1. Crlf(2) # Crlf(1)
      BY SMTT(40) DEF Crlf
    <3>2. QED BY <1>1, <2>2, <3>1
  <2>3. CASE i # 1 /\ i # 3
    <3>1. PICK j \in 1..r.size : i = 3 + j
      <4>1. i - 3 \in 1..r.size /\ i = 3 + (i - 3)
        BY <1>2, <2>3, SMTT(40)
      <4>2. QED BY <4>1
    <3>2. <<"body", j>> # Crlf(1)
      BY SMTT(40) DEF Crlf
    <3>3. QED BY <1>1, <3>1, <3>2
  <2>4. QED BY <2>1, <2>2, <2>3
<1>5. \A i \in HeadEnds(s) : i \in 1..(m - 1) /\ s[i] = Crlf(1)
  BY <1>2 DEF HeadEnds
<1>6. \A i \in HeadEnds(s) : i = 2 /\ m >= 3
  <2>1. \A i \in 1..(m - 1) : i \in 1..m /\ (i = 2 => m >= 3)
    BY SMTT(40)
  <2>2. \A i \in HeadEnds(s) : i \in 1..m /\ w[i] = Crlf(1)
    BY <1>3, <1>5, <2>1
  <2>3. QED BY <1>4, <1>5, <2>1, <2>2
<1>7. m >= 3 => 2 \in HeadEnds(s)
  <2> SUFFICES ASSUME m >= 3 PROVE 2 \in HeadEnds(s)
    OBVIOUS
  <2>1. 2 \in 1..(m - 1) /\ 2 \in 1..m /\ 3 \in 1..m /\ 2 + 1 = 3
    BY SMTT(40)
  <2>2. s[2] = Crlf(1) /\ s[2 + 1] = Crlf(2)
    BY <1>1, <1>3, <2>1
  <2>3. QED BY <1>2, <2>1, <2>2 DEF HeadEnds
<1>8. m < 3 => ~(m >= 3)
  BY SMTT(40)
<1>9. QED BY <1>2, <1>6, <1>7, <1>8

\* Bytes that follow the head are the first ones of the body.
LEMMA BodyIs ==
    ASSUME NEW r, r.size \in Nat, NEW b \in Seq(Byte), Len(b) <= r.size,
           From(Wire(r), b, 3)
    PROVE  b = BodyBytes(Len(b)) /\ Len(b) \in 0..r.size
<1>1. PICK m \in Nat : m = Len(b) /\ m \in 0..r.size
  BY SMTT(40)
<1>2. /\ BodyBytes(m) \in Seq(Byte) /\ Len(BodyBytes(m)) = m
      /\ \A i \in 1..m : BodyBytes(m)[i] = <<"body", i>>
  BY BodyBytesFacts
<1>3. \A i \in 1..m : i \in 1..r.size
  BY <1>1, SMTT(40)
<1>4. \A i \in 1..r.size : Wire(r)[3 + i] = <<"body", i>>
  BY WireFacts
<1>5. \A i \in 1..m : b[i] = <<"body", i>>
  BY <1>1, <1>3, <1>4 DEF From
<1>6. b = BodyBytes(m)
  BY <1>1, <1>2, <1>5, SeqEqual
<1>7. QED BY <1>1, <1>6

-----------------------------------------------------------------------------
(* The invariant                                                           *)

\* A call that fails returns no body.
LEMMA FailFacts ==
    ASSUME NEW k \in {"io", "timeout", "api"}, Fail(k)
    PROVE  pc' = "done" /\ result'.kind = k /\ BodyExact'
<1>1. pc' = "done" /\ result' = [NoResult EXCEPT !.kind = k]
  BY DEF Fail
<1>2. result'.kind = k /\ k # "ok"
  BY <1>1, SMTT(40) DEF NoResult
<1>3. QED BY <1>1, <1>2 DEF BodyExact

\* A call that ends with the bytes b of the body, which are all unless the
\* connection was closed before all were sent.
LEMMA FinishFacts ==
    ASSUME NEW b \in Seq(Byte), Finish(b), reply \in Reply, UNCHANGED peerVars,
           Len(b) <= reply.size, From(Wire(reply), b, 3),
           ~closed \/ WholeAnswer => Len(b) = reply.size
    PROVE  pc' = "done" /\ result'.kind # "timeout" /\ BodyExact'
<1>1. UNCHANGED <<reply, sent, closed>> /\ reply' = reply /\ sent' = sent /\ closed' = closed
  BY DEF peerVars
<1>2. reply.size \in Nat
  BY ReplyFacts
<1>3. b = BodyBytes(Len(b)) /\ Len(b) \in 0..reply.size
  BY <1>2, BodyIs
<1>4. /\ pc' = "done"
      /\ result' = IF reply.status \in 200..299
                   THEN [kind |-> "ok", status |-> reply.status, body |-> b]
                   ELSE [kind |-> "api", status |-> reply.status, body |-> b]
  BY DEF Finish
<1>5. /\ result'.kind \in {"ok", "api"}
      /\ result'.status = reply.status /\ result'.body = b
  <2>1. CASE reply.status \in 200..299
    <3>1. result' = [kind |-> "ok", status |-> reply.status, body |-> b]
      BY <1>4, <2>1
    <3>2. QED BY <3>1
  <2>2. CASE reply.status \notin 200..299
    <3>1. result' = [kind |-> "api", status |-> reply.status, body |-> b]
      BY <1>4, <2>2
    <3>2. QED BY <3>1
  <2>3. QED BY <2>1, <2>2
<1>6. WholeAnswer' => WholeAnswer
  BY <1>1 DEF WholeAnswer, Wire
<1>7. \E n \in 0..reply'.size : result'.body = BodyBytes(n)
  BY <1>1, <1>3, <1>5
<1>8. ASSUME ~closed' \/ WholeAnswer'
      PROVE  result'.body = BodyBytes(reply'.size)
  <2>1. ~closed \/ WholeAnswer
    BY <1>1, <1>6, <1>8, SMTT(40)
  <2>2. Len(b) = reply.size
    BY <2>1
  <2>3. QED BY <1>1, <1>3, <1>5, <2>2
<1>9. result'.status = reply'.status /\ result'.kind # "timeout"
  BY <1>1, <1>5
<1>10. QED BY <1>4, <1>7, <1>8, <1>9 DEF BodyExact

\* The bytes that the client can read, after a read of at most n of them.
LEMMA ReadKeeps ==
    ASSUME TypeInv, Wired, NEW n \in Nat, input' = Left(n), UNCHANGED peerVars
    PROVE  /\ Taken(n) \in Seq(Byte) /\ Len(Taken(n)) \in 0..n
           /\ From(Wire(reply), Taken(n), Got)
           /\ Got \in Nat /\ Got' = Got + Len(Taken(n)) /\ Got' <= reply.size + 3
           /\ input' \in Seq(Byte) /\ Wired'
<1>1. reply' = reply /\ sent' = sent
  BY DEF peerVars
<1>2. input \in Seq(Byte) /\ sent \in 0..(reply.size + 3) /\ Len(input) <= sent
  BY DEF TypeInv, Wired
<1>3. reply.size \in Nat
  BY ReplyFacts DEF TypeInv
<1>4. Len(input) \in Nat /\ Got \in Nat
  BY <1>2, <1>3, SMTT(40) DEF Got
<1>5. From(Wire(reply), input, Got)
  BY DEF Wired
<1>6. /\ Taken(n) \in Seq(Byte) /\ Left(n) \in Seq(Byte)
      /\ Len(Taken(n)) \in 0..n
      /\ Len(Taken(n)) + Len(Left(n)) = Len(input)
      /\ From(Wire(reply), Taken(n), Got)
      /\ From(Wire(reply), Left(n), Got + Len(Taken(n)))
  BY <1>2, <1>4, <1>5, ReadFacts
<1> DEFINE t == Taken(n)
           l == Left(n)
<1>7. t \in Seq(Byte) /\ l \in Seq(Byte) /\ Len(t) + Len(l) = Len(input) /\ input' = l
  BY <1>6
<1> HIDE DEF t, l
<1>8. Got' = Got + Len(t) /\ Len(input') <= sent' /\ Got' <= reply.size + 3
  <2>1. Len(t) \in Nat /\ Len(l) \in Nat
    BY <1>7, SMTT(40)
  <2>2. Got' = sent - Len(l) /\ Got = sent - Len(input)
    BY <1>1, <1>7 DEF Got
  <2>3. \A m, i, j \in Nat :
           i + j = m /\ m <= sent =>
              /\ sent - j = (sent - m) + i /\ j <= sent
              /\ sent - j <= reply.size + 3
    BY <1>2, <1>3, SMTT(40)
  <2>4. /\ sent - Len(l) = (sent - Len(input)) + Len(t) /\ Len(l) <= sent
        /\ sent - Len(l) <= reply.size + 3
    BY <1>2, <1>4, <1>7, <2>1, <2>3
  <2>5. QED BY <1>1, <1>7, <2>2, <2>4
<1>9. From(Wire(reply'), input', Got')
  BY <1>1, <1>6, <1>7, <1>8 DEF t, l
<1>10. QED BY <1>4, <1>6, <1>7, <1>8, <1>9 DEF Wired, t, l

\* A call that has returned stays as it is.
LEMMA DoneStep ==
    ASSUME TypeInv', Wired', pc' = "done", BodyExact'
    PROVE  IInv'
BY DEF IInv, Kept, Missing, Reading

\* Steps that leave the connection alone.
LEMMA SameInput ==
    ASSUME IInv, UNCHANGED <<input, peerVars>>
    PROVE  Wired' /\ Got' = Got
<1>1. input' = input /\ reply' = reply /\ sent' = sent
  BY DEF peerVars
<1>2. QED BY <1>1 DEF IInv, Wired, Got, From, Wire

\* Before the request is written nothing is read.
LEMMA StepRequest ==
    ASSUME IInv, Connect \/ Write
    PROVE  IInv' /\ (pc = "connect" => result'.kind # "timeout")
<1>1. UNCHANGED <<input, peerVars>> /\ pc \in {"connect", "write"}
  BY DEF Connect, Write
<1>2. Wired' /\ Got' = Got /\ Got = 0 /\ response = <<>> /\ result = NoResult
  BY <1>1, SameInput DEF IInv, Kept
<1>3. UNCHANGED <<response, body, reply, sent, input, closed>>
  BY DEF Connect, Write, Fail, peerVars
<1>4. pc' \in {"connect", "write", "done"} \cup Reading
  BY DEF Connect, Write, Fail, Reading
<1>5. TypeInv'
  BY <1>3, <1>4 DEF IInv, TypeInv, Byte
<1>6. CASE UNCHANGED result /\ pc' \in {"write", "head"}
  <2>1. result' = NoResult /\ NoResult.kind = "none"
    BY <1>2, <1>6 DEF NoResult
  <2>2. BodyExact'
    BY <2>1 DEF BodyExact
  <2>3. Missing'
    BY <1>6 DEF Missing
  <2>4. response' = <<>> /\ Got' = 0
    BY <1>2, <1>3
  <2>5. Len(response') = Got' /\ Got' < 3 /\ From(Wire(reply'), response', 0)
    <3>1. Len(<<>>) = 0 /\ 0 < 3 /\ 1..0 = {}
      BY SMTT(40)
    <3>2. QED BY <2>4, <3>1 DEF From
  <2>6. Kept'
    BY <1>6, <2>4, <2>5 DEF Kept
  <2>7. QED BY <1>2, <1>5, <2>1, <2>2, <2>3, <2>6 DEF IInv
<1>7. CASE \E k \in {"io", "timeout"} : Fail(k) /\ (pc = "connect" => k = "io")
  <2>1. PICK k \in {"io", "timeout"} : Fail(k) /\ (pc = "connect" => k = "io")
    BY <1>7
  <2>2. pc' = "done" /\ result'.kind = k /\ BodyExact'
    BY <2>1, FailFacts
  <2>3. QED BY <1>2, <1>5, <2>1, <2>2, DoneStep
<1>8. QED BY <1>6, <1>7 DEF Connect, Write

\* The head is complete, and b was read behind it.
LEMMA StepHeadDone ==
    ASSUME IInv, UNCHANGED peerVars, result = NoResult,
           NEW s \in Seq(Byte), response' = s, HeadDone(Behind(s, 2)),
           NEW g \in 3..(reply.size + 3), Got' = g, Len(s) = g,
           From(Wire(reply), s, 0), input' \in Seq(Byte), Wired'
    PROVE  IInv' /\ result'.kind # "timeout"
<1> DEFINE b == Behind(s, 2)
<1>1. b \in Seq(Byte) /\ Len(b) = g - 3 /\ From(Wire(reply), b, 3)
  <2>1. 3 \in 0..Len(s) /\ 0 \in Nat /\ 2 + 2 = 3 + 1 /\ 0 + 3 = 3
    BY SMTT(40)
  <2>2. /\ SubSeq(s, 3 + 1, Len(s)) \in Seq(Byte)
        /\ From(Wire(reply), SubSeq(s, 3 + 1, Len(s)), 0 + 3)
    BY <2>1, Split
  <2>3. Len(SubSeq(s, 3 + 1, Len(s))) = Len(s) - 3
    BY <2>1, SMTT(40)
  <2>4. QED BY <2>1, <2>2, <2>3 DEF Behind
<1> HIDE DEF b
<1>2. reply \in Reply /\ reply' = reply /\ sent' = sent /\ closed' = closed
  BY DEF IInv, TypeInv, peerVars
<1>3. /\ reply.size \in Nat /\ reply.content_length \in BOOLEAN
      /\ reply.status \in {0, 200, 204, 304, 400}
      /\ reply.status \in {0, 204, 304} => reply.size = 0 /\ reply.content_length = FALSE
  BY <1>2, ReplyFacts
<1>4. Len(b) \in 0..reply.size /\ Len(b) + 3 = g
  BY <1>1, <1>3, SMTT(40)
<1>5. HeadDone(b) /\ body' = b
  BY DEF b, HeadDone
<1>6. pc' \in {"connect", "write", "done"} \cup Reading => TypeInv'
  BY <1>1, <1>2, <1>5 DEF IInv, TypeInv
<1>7. CASE pc' = "done" /\ result' = [NoResult EXCEPT !.kind = "api"]
  <2>1. result'.kind = "api"
    BY <1>7, SMTT(40) DEF NoResult
  <2>2. BodyExact'
    BY <2>1 DEF BodyExact
  <2>3. QED BY <1>6, <1>7, <2>1, <2>2, DoneStep
<1>8. CASE Len(b) >= reply.size /\ Finish(SubSeq(b, 1, reply.size))
  <2>1. Len(b) = reply.size /\ reply.size \in 0..Len(b) /\ 3 \in Nat
    BY <1>3, <1>4, <1>8, SMTT(40)
  <2>2. /\ SubSeq(b, 1, reply.size) \in Seq(Byte)
        /\ From(Wire(reply), SubSeq(b, 1, reply.size), 3)
    BY <1>1, <2>1, Split
  <2>3. Len(SubSeq(b, 1, reply.size)) = reply.size /\ reply.size <= reply.size
    BY <1>1, <1>3, <2>1, SMTT(40)
  <2>4. pc' = "done" /\ result'.kind # "timeout" /\ BodyExact'
    BY <1>2, <1>8, <2>2, <2>3, FinishFacts
  <2>5. QED BY <1>6, <2>4, DoneStep
<1>9. CASE reply.size = 0 /\ Finish(<<>>)
  <2>1. <<>> \in Seq(Byte) /\ Len(<<>>) = 0 /\ 0 <= 0 /\ 1..0 = {}
    BY SMTT(40)
  <2>2. From(Wire(reply), <<>>, 3)
    BY <2>1 DEF From
  <2>3. pc' = "done" /\ result'.kind # "timeout" /\ BodyExact'
    BY <1>2, <1>9, <2>1, <2>2, FinishFacts
  <2>4. QED BY <1>6, <2>3, DoneStep
<1>10. CASE /\ result' = result
            /\ \/ pc' = "sized" /\ Len(b) < reply.size
               \/ /\ pc' = "to_eof" /\ reply.content_length = FALSE
                  /\ reply.status \in {200, 400}
  <2>1. result' = NoResult /\ NoResult.kind = "none"
    BY <1>10 DEF NoResult
  <2>2. BodyExact'
    BY <2>1 DEF BodyExact
  <2>3. Missing'
    BY <1>2, <1>5, <1>10 DEF Missing
  <2>4. Len(body') + 3 = Got' /\ From(Wire(reply'), body', 3)
    BY <1>1, <1>2, <1>4, <1>5
  <2>5. Kept'
    BY <1>10, <2>4 DEF Kept
  <2>6. TypeInv'
    BY <1>6, <1>10 DEF Reading
  <2>7. QED BY <2>1, <2>2, <2>3, <2>5, <2>6 DEF IInv
<1>11. ~(Len(b) < reply.size) => Len(b) >= reply.size
  BY <1>3, <1>4, SMTT(40)
<1>12. MustNotHaveBody(reply.status) => reply.size = 0
  <2>1. 200 \notin {204, 304} \cup 100..199 /\ 400 \notin {204, 304} \cup 100..199
    BY SMTT(40)
  <2>2. reply.status \in {200, 400} => ~MustNotHaveBody(reply.status)
    BY <2>1 DEF MustNotHaveBody
  <2>3. reply.status \in {0, 204, 304} \/ reply.status \in {200, 400}
    BY <1>3
  <2>4. QED BY <1>3, <2>2, <2>3
<1>13. reply.status # 0 /\ ~MustNotHaveBody(reply.status) => reply.status \in {200, 400}
  BY <1>3 DEF MustNotHaveBody
<1>14. CASE reply.status = 0
  BY <1>5, <1>7, <1>14 DEF HeadDone
<1>15. CASE reply.status # 0 /\ reply.content_length
  BY <1>5, <1>8, <1>10, <1>11, <1>15 DEF HeadDone
<1>16. CASE reply.status # 0 /\ ~reply.content_length
  <2>1. IF MustNotHaveBody(reply.status) THEN Finish(<<>>)
                                         ELSE pc' = "to_eof" /\ result' = result
    BY <1>5, <1>16 DEF HeadDone
  <2>2. reply.content_length = FALSE
    BY <1>3, <1>16
  <2>3. CASE MustNotHaveBody(reply.status)
    BY <1>9, <1>12, <2>1, <2>3
  <2>4. CASE ~MustNotHaveBody(reply.status)
    BY <1>10, <1>13, <1>16, <2>1, <2>2, <2>4
  <2>5. QED BY <2>3, <2>4
<1>17. QED BY <1>14, <1>15, <1>16

\* The client reads of the head, or on behind it.
LEMMA StepReadHead ==
    ASSUME IInv, ReadHead
    PROVE  IInv' /\ result'.kind # "timeout"
<1> DEFINE t == Taken(ChunkSize)
           s == response \o t
<1>1. /\ pc = "head" /\ response' = s /\ input' = Left(ChunkSize)
      /\ UNCHANGED peerVars
      /\ IF HeadEnds(s) = {} THEN UNCHANGED <<pc, body, result>>
                             ELSE \E i \in HeadEnds(s) : HeadDone(Behind(s, i))
  BY DEF ReadHead, Searched
<1>2. ChunkSize \in Nat
  BY BoundsAssumption, SMTT(40)
<1>3. TypeInv /\ Wired /\ result = NoResult
  BY <1>1 DEF IInv
<1>4. /\ t \in Seq(Byte) /\ From(Wire(reply), t, Got)
      /\ Got \in Nat /\ Got' = Got + Len(t) /\ Got' <= reply.size + 3
      /\ input' \in Seq(Byte) /\ Wired'
  BY <1>1, <1>2, <1>3, ReadKeeps
<1>5. /\ response \in Seq(Byte) /\ Len(response) = Got
      /\ From(Wire(reply), response, 0)
  BY <1>1 DEF IInv, TypeInv, Kept
<1> HIDE DEF t
<1>6. /\ s \in Seq(Byte) /\ Len(s) = Got' /\ From(Wire(reply), s, 0)
  <2>1. 0 + Len(response) = Got /\ 0 \in Nat
    BY <1>4, <1>5, SMTT(40)
  <2>2. From(Wire(reply), t, 0 + Len(response))
    BY <1>4, <2>1
  <2>3. s \in Seq(Byte) /\ Len(s) = Len(response) + Len(t) /\ From(Wire(reply), s, 0)
    BY <1>4, <1>5, <2>1, <2>2, Join
  <2>4. QED BY <1>4, <1>5, <2>3
<1> HIDE DEF s
<1>7. PICK g \in Nat : g = Got' /\ g = Len(s) /\ g <= reply.size + 3
  <2>1. Len(s) \in Nat
    BY <1>6, SMTT(40)
  <2>2. QED BY <1>4, <1>6, <2>1
<1>8. reply.size \in Nat /\ reply' = reply /\ sent' = sent /\ closed' = closed
  BY <1>1, <1>3, ReplyFacts DEF TypeInv, peerVars
<1>9. (g < 3 => HeadEnds(s) = {}) /\ (g >= 3 => HeadEnds(s) = {2})
  BY <1>6, <1>7, <1>8, HeadEndsFacts
<1>10. CASE g < 3
  <2>1. pc' = "head" /\ body' = body /\ result' = NoResult
    BY <1>1, <1>3, <1>9, <1>10
  <2>2. TypeInv'
    BY <1>1, <1>3, <1>4, <1>6, <1>8, <2>1 DEF TypeInv, Reading
  <2>3. Len(response') = Got' /\ Got' < 3 /\ From(Wire(reply'), response', 0)
    BY <1>1, <1>6, <1>7, <1>8, <1>10
  <2>4. Kept' /\ Missing'
    BY <2>1, <2>3 DEF Kept, Missing
  <2>5. NoResult.kind = "none"
    BY DEF NoResult
  <2>6. BodyExact'
    BY <2>1, <2>5 DEF BodyExact
  <2>7. QED BY <1>4, <2>1, <2>2, <2>4, <2>5, <2>6 DEF IInv
<1>11. CASE g >= 3
  <2>1. HeadDone(Behind(s, 2))
    BY <1>1, <1>9, <1>11
  <2>2. g \in 3..(reply.size + 3)
    BY <1>7, <1>8, <1>11, SMTT(40)
  <2>3. QED BY <1>1, <1>3, <1>4, <1>6, <1>7, <2>1, <2>2, StepHeadDone
<1>12. g < 3 \/ g >= 3
  BY SMTT(40)
<1>13. QED BY <1>10, <1>11, <1>12

\* The client reads of the body.
LEMMA StepReadBody ==
    ASSUME IInv, ReadSized \/ ReadToEof
    PROVE  IInv' /\ result'.kind # "timeout"
<1>1. TypeInv /\ Wired /\ result = NoResult /\ pc \in {"sized", "to_eof"}
  BY DEF IInv, ReadSized, ReadToEof
<1>2. /\ body \in Seq(Byte) /\ Len(body) + 3 = Got /\ From(Wire(reply), body, 3)
      /\ response \in Seq(Byte)
  BY <1>1 DEF IInv, Kept, TypeInv
<1>3. reply.size \in Nat /\ Len(body) \in Nat
  <2>1. reply.size \in Nat
    BY <1>1, ReplyFacts DEF TypeInv
  <2>2. Len(body) \in Nat
    BY <1>2, SMTT(40)
  <2>3. QED BY <2>1, <2>2
<1>4. PICK n \in Nat : /\ body' = body \o Taken(n) /\ input' = Left(n)
                       /\ ReadSized => n = reply.size - Len(body)
  <2>1. ChunkSize \in Nat
    BY BoundsAssumption, SMTT(40)
  <2>2. CASE ReadSized
    <3>1. Len(body) < reply.size
      BY <2>2 DEF ReadSized, IInv, Missing
    <3>2. reply.size - Len(body) \in Nat
      BY <1>3, <3>1, SMTT(40)
    <3>3. QED BY <2>2, <3>2 DEF ReadSized
  <2>3. CASE ~ReadSized
    <3>1. ReadToEof
      BY <2>3
    <3>2. QED BY <2>1, <2>3, <3>1 DEF ReadToEof
  <2>4. QED BY <2>2, <2>3
<1>5. UNCHANGED peerVars /\ response' = response
  BY DEF ReadSized, ReadToEof
<1>6. reply' = reply /\ sent' = sent /\ closed' = closed
  BY <1>5 DEF peerVars
<1> DEFINE t == Taken(n)
           b == body \o t
<1>7. /\ t \in Seq(Byte) /\ From(Wire(reply), t, Got) /\ Len(t) \in 0..n
      /\ Got \in Nat /\ Got' = Got + Len(t) /\ Got' <= reply.size + 3
      /\ input' \in Seq(Byte) /\ Wired'
  BY <1>1, <1>4, <1>5, ReadKeeps
<1> HIDE DEF t
<1>8. b \in Seq(Byte) /\ Len(b) = Len(body) + Len(t) /\ From(Wire(reply), b, 3)
  <2>1. 3 + Len(body) = Got /\ 3 \in Nat
    BY <1>2, <1>3, SMTT(40)
  <2>2. From(Wire(reply), t, 3 + Len(body))
    BY <1>7, <2>1
  <2>3. QED BY <1>2, <1>7, <2>1, <2>2, Join
<1>9. body' = b
  BY <1>4 DEF t
<1> HIDE DEF b
<1>10. Len(b) + 3 = Got' /\ Len(b) \in 0..reply.size
  <2>1. Len(t) \in Nat
    BY <1>7, SMTT(40)
  <2>2. \A i, j, k \in Nat :
           i + 3 = k /\ k + j <= reply.size + 3 =>
              (i + j) + 3 = k + j /\ i + j \in 0..reply.size
    BY <1>3, SMTT(40)
  <2>3. Got + Len(t) <= reply.size + 3 /\ Got \in Nat
    BY <1>7
  <2>4. /\ (Len(body) + Len(t)) + 3 = Got + Len(t)
        /\ Len(body) + Len(t) \in 0..reply.size
    BY <1>2, <1>3, <2>1, <2>2, <2>3
  <2>5. QED BY <1>7, <1>8, <2>4
<1>11. pc' \in {"connect", "write", "done"} \cup Reading => TypeInv'
  BY <1>1, <1>5, <1>6, <1>7, <1>8, <1>9, <1>2 DEF TypeInv
<1>12. CASE /\ pc' = pc /\ result' = result
            /\ pc = "sized" => Len(b) < reply.size
  <2>1. result' = NoResult /\ NoResult.kind = "none"
    BY <1>1, <1>12 DEF NoResult
  <2>2. BodyExact'
    BY <2>1 DEF BodyExact
  <2>3. Missing'
    BY <1>6, <1>9, <1>12 DEF Missing, IInv
  <2>4. Kept'
    BY <1>1, <1>6, <1>8, <1>9, <1>10, <1>12 DEF Kept
  <2>5. TypeInv'
    BY <1>1, <1>11, <1>12 DEF Reading
  <2>6. QED BY <1>7, <2>1, <2>2, <2>3, <2>4, <2>5 DEF IInv
<1>13. CASE Len(b) >= reply.size /\ Finish(b)
  <2>1. Len(b) = reply.size /\ Len(b) <= reply.size
    BY <1>3, <1>10, <1>13, SMTT(40)
  <2>2. pc' = "done" /\ result'.kind # "timeout" /\ BodyExact'
    BY <1>1, <1>5, <1>8, <1>13, <2>1, FinishFacts DEF TypeInv
  <2>3. QED BY <1>7, <1>11, <2>2, DoneStep
<1>14. CASE ReadSized
  <2>1. ~(Len(b) < reply.size) => Len(b) >= reply.size
    BY <1>3, <1>10, SMTT(40)
  <2>2. IF Len(b) < reply.size THEN UNCHANGED <<pc, result>> ELSE Finish(b)
    BY <1>9, <1>14 DEF ReadSized
  <2>3. QED BY <1>12, <1>13, <2>1, <2>2
<1>15. CASE ReadToEof
  BY <1>12, <1>15 DEF ReadToEof
<1>16. QED BY <1>14, <1>15

\* The peer has closed the connection, and all that it sent is read.
LEMMA StepEof ==
    ASSUME IInv, Eof
    PROVE  IInv' /\ result'.kind # "timeout"
<1>1. /\ TypeInv /\ pc \in Reading /\ input = <<>> /\ closed
      /\ UNCHANGED <<input, peerVars, response, body>>
      /\ IF pc = "head" THEN Fail("api") ELSE Finish(body)
  BY DEF IInv, Eof, Fail, Reading
<1>2. Wired'
  BY <1>1, SameInput
<1>3. input' = input /\ reply' = reply /\ sent' = sent /\ closed' = closed
  BY <1>1 DEF peerVars
<1>4. pc' = "done" => TypeInv'
  BY <1>1, <1>3 DEF TypeInv
<1>5. CASE pc = "head"
  <2>1. pc' = "done" /\ result'.kind = "api" /\ BodyExact'
    BY <1>1, <1>5, FailFacts
  <2>2. QED BY <1>2, <1>4, <2>1, DoneStep
<1>6. CASE pc # "head"
  <2>1. /\ body \in Seq(Byte) /\ Len(body) + 3 = Got /\ From(Wire(reply), body, 3)
        /\ reply \in Reply /\ sent \in 0..(reply.size + 3)
    BY <1>1, <1>6 DEF IInv, Kept, TypeInv, Reading
  <2>2. reply.size \in Nat
    BY <2>1, ReplyFacts
  <2>3. Got = sent
    <3>1. Len(<<>>) = 0 /\ sent - 0 = sent
      BY <2>1, SMTT(40)
    <3>2. QED BY <1>1, <3>1 DEF Got
  <2>4. Len(body) \in Nat
    BY <2>1, SMTT(40)
  <2>5. Len(body) <= reply.size /\ (sent = reply.size + 3 => Len(body) = reply.size)
    BY <2>1, <2>2, <2>3, <2>4, SMTT(40)
  <2>6. WholeAnswer => Len(body) = reply.size
    BY <2>2, <2>5, WireFacts DEF WholeAnswer
  <2>7. ~closed \/ WholeAnswer => Len(body) = reply.size
    BY <1>1, <2>6
  <2>8. pc' = "done" /\ result'.kind # "timeout" /\ BodyExact'
    BY <1>1, <1>6, <2>1, <2>5, <2>7, FinishFacts
  <2>9. QED BY <1>2, <1>4, <2>8, DoneStep
<1>7. QED BY <1>5, <1>6

\* A read fails, or the clock runs out.
LEMMA StepReadFails ==
    ASSUME IInv, ReadError \/ ReadTimeout
    PROVE  IInv' /\ (ReadError => result'.kind # "timeout")
<1>1. PICK k \in {"io", "timeout", "api"} : Fail(k) /\ (ReadError => k = "io")
  <2>1. CASE ReadError
    BY <2>1 DEF ReadError
  <2>2. CASE ~ReadError
    BY <2>2 DEF ReadTimeout
  <2>3. QED BY <2>1, <2>2
<1>2. UNCHANGED <<input, peerVars, response, body>>
  BY <1>1 DEF ReadError, ReadTimeout, Fail
<1>3. pc' = "done" /\ result'.kind = k /\ BodyExact'
  BY <1>1, FailFacts
<1>4. input' = input /\ reply' = reply /\ sent' = sent /\ closed' = closed
  BY <1>2 DEF peerVars
<1>5. TypeInv'
  BY <1>2, <1>3, <1>4 DEF IInv, TypeInv
<1>6. Wired'
  BY <1>2, SameInput
<1>7. QED BY <1>1, <1>3, <1>5, <1>6, DoneStep

\* Firecracker sends some more of its answer.
LEMMA StepPeerSend ==
    ASSUME IInv, PeerSend
    PROVE  IInv'
<1>1. PICK n \in (sent + 1)..Len(Wire(reply)) :
         sent' = n /\ input' = input \o SubSeq(Wire(reply), sent + 1, n)
  BY DEF PeerSend
<1>2. /\ UNCHANGED <<pc, response, body, result, reply, closed>> /\ pc # "done"
  BY DEF PeerSend, clientVars
<1>3. /\ reply \in Reply /\ sent \in 0..(reply.size + 3) /\ input \in Seq(Byte)
      /\ Len(input) <= sent /\ From(Wire(reply), input, Got)
  BY DEF IInv, TypeInv, Wired
<1>4. reply.size \in Nat
  BY <1>3, ReplyFacts
<1> DEFINE w == Wire(reply)
           b == SubSeq(w, sent + 1, n)
<1>5. w \in Seq(Byte) /\ Len(w) = reply.size + 3
  BY <1>4, WireFacts
<1> HIDE DEF w
<1>6. n \in (sent + 1)..(reply.size + 3) /\ n \in 0..(reply.size + 3)
      /\ Len(input) \in Nat /\ Got \in Nat /\ Got + Len(input) = sent
  <2>1. n \in (sent + 1)..Len(w)
    BY <1>1 DEF w
  <2>2. Len(input) \in Nat
    BY <1>3, SMTT(40)
  <2>3. QED BY <1>3, <1>4, <1>5, <2>1, <2>2, SMTT(40) DEF Got
<1>7. b \in Seq(Byte) /\ Len(b) = n - sent /\ \A i \in 1..(n - sent) : b[i] = w[sent + i]
  <2>1. sent + 1 \in Int /\ n \in Int /\ \A i \in (sent + 1)..n : w[i] \in Byte
    BY <1>3, <1>4, <1>5, <1>6, SMTT(40)
  <2>2. /\ b \in Seq(Byte)
        /\ Len(b) = IF sent + 1 <= n THEN n - (sent + 1) + 1 ELSE 0
        /\ \A i \in 1..(n - (sent + 1) + 1) : b[i] = w[(sent + 1) + i - 1]
    BY <2>1, SubSeqProperties, SMTT(40)
  <2> HIDE DEF b
  <2>3. QED BY <1>3, <1>4, <1>6, <2>2, SMTT(40)
<1> HIDE DEF b
<1>8. From(w, b, Got + Len(input))
  BY <1>6, <1>7 DEF From
<1>9. /\ input' \in Seq(Byte) /\ Len(input') = Len(input) + Len(b)
      /\ From(w, input', Got)
  <2>1. input' = input \o b
    BY <1>1 DEF b, w
  <2>2. From(w, input, Got)
    BY <1>3 DEF w
  <2>3. /\ input \o b \in Seq(Byte) /\ Len(input \o b) = Len(input) + Len(b)
        /\ From(w, input \o b, Got)
    BY <1>3, <1>6, <1>7, <1>8, <2>2, Join
  <2>4. QED BY <2>1, <2>3
<1>10. Got' = Got /\ Len(input') <= sent'
  <2>1. \A i, j \in Nat : i + j = sent => n - (j + (n - sent)) = i /\ j + (n - sent) <= n
    BY <1>3, <1>4, <1>6, SMTT(40)
  <2>2. Got' = n - (Len(input) + (n - sent)) /\ Len(input') = Len(input) + (n - sent)
    BY <1>1, <1>7, <1>9 DEF Got
  <2>3. QED BY <1>1, <1>6, <2>1, <2>2
<1>11. Wired'
  BY <1>2, <1>9, <1>10 DEF Wired, w, Wire
<1>12. TypeInv'
  BY <1>1, <1>2, <1>6, <1>9 DEF IInv, TypeInv
<1>13. Kept' /\ Missing'
  <2>1. Wire(reply)' = Wire(reply)
    BY <1>2 DEF Wire
  <2>2. Kept'
    BY <1>2, <1>10, <2>1 DEF IInv, Kept, From
  <2>3. Missing'
    BY <1>2 DEF IInv, Missing
  <2>4. QED BY <2>2, <2>3
<1>14. result' = NoResult /\ NoResult.kind = "none"
  BY <1>2 DEF IInv, NoResult
<1>15. BodyExact'
  BY <1>14 DEF BodyExact
<1>16. QED BY <1>11, <1>12, <1>13, <1>14, <1>15 DEF IInv

\* Steps that read and send nothing.
LEMMA SameData ==
    ASSUME IInv, UNCHANGED <<pc, response, body, reply, input, sent>>, closed' \in BOOLEAN
    PROVE  TypeInv' /\ Wired' /\ Kept' /\ Missing'
<1>1. TypeInv'
  BY DEF IInv, TypeInv
<1>2. Got' = Got
  BY DEF Got
<1>3. Wired'
  BY <1>2 DEF IInv, Wired, From, Wire
<1>4. Kept'
  BY <1>2 DEF IInv, Kept, From, Wire
<1>5. Missing'
  BY DEF IInv, Missing
<1>6. QED BY <1>1, <1>3, <1>4, <1>5

LEMMA StepPeerClose ==
    ASSUME IInv, PeerClose
    PROVE  IInv'
<1>1. /\ UNCHANGED <<pc, response, body, result, reply, input, sent>>
      /\ closed' = TRUE /\ pc # "done"
  BY DEF PeerClose, clientVars
<1>2. TypeInv' /\ Wired' /\ Kept' /\ Missing'
  BY <1>1, SameData DEF IInv, TypeInv
<1>3. result' = NoResult /\ NoResult.kind = "none"
  BY <1>1 DEF IInv, NoResult
<1>4. BodyExact'
  BY <1>3 DEF BodyExact
<1>5. QED BY <1>2, <1>3, <1>4 DEF IInv

LEMMA StepStutter ==
    ASSUME IInv, UNCHANGED vars
    PROVE  IInv'
<1>1. UNCHANGED <<pc, response, body, result, reply, input, sent, closed>>
  BY DEF vars, clientVars, peerVars
<1>2. TypeInv' /\ Wired' /\ Kept' /\ Missing'
  BY <1>1, SameData DEF IInv, TypeInv
<1>3. BodyExact'
  BY <1>1 DEF IInv, BodyExact, WholeAnswer, Wire
<1>4. QED BY <1>1, <1>2, <1>3 DEF IInv

\* A call begins with nothing sent and nothing read.
LEMMA InitInv == Init => IInv
<1> SUFFICES ASSUME Init PROVE IInv
  OBVIOUS
<1>1. reply \in Reply
  BY DEF Init
<1>2. reply.size \in Nat
  BY <1>1, ReplyFacts
<1>3. /\ <<>> \in Seq(Byte) /\ Len(<<>>) = 0 /\ 0 <= 0 /\ 0 - 0 = 0 /\ 1..0 = {}
      /\ 0 \in 0..(reply.size + 3)
  BY <1>2, SMTT(40)
<1>4. TypeInv /\ Missing
  BY <1>3 DEF Init, TypeInv, Missing
<1>5. Wired
  BY <1>3 DEF Init, Wired, Got, From
<1>6. Kept
  BY <1>3 DEF Init, Kept, Got
<1>7. NoResult.kind = "none"
  BY DEF NoResult
<1>8. BodyExact
  BY <1>7 DEF Init, BodyExact
<1>9. QED BY <1>4, <1>5, <1>6, <1>8 DEF Init, IInv

LEMMA StepInv == IInv /\ [Next]_vars => IInv'
<1> SUFFICES ASSUME IInv, [Next]_vars PROVE IInv'
  OBVIOUS
<1>1. CASE Connect \/ Write
  BY <1>1, StepRequest
<1>2. CASE ReadHead
  BY <1>2, StepReadHead
<1>3. CASE ReadSized \/ ReadToEof
  BY <1>3, StepReadBody
<1>4. CASE Eof
  BY <1>4, StepEof
<1>5. CASE ReadError \/ ReadTimeout
  BY <1>5, StepReadFails
<1>6. CASE PeerSend
  BY <1>6, StepPeerSend
<1>7. CASE PeerClose
  BY <1>7, StepPeerClose
<1>8. CASE UNCHANGED vars
  BY <1>8, StepStutter
<1>9. QED BY <1>1, <1>2, <1>3, <1>4, <1>5, <1>6, <1>7, <1>8 DEF Next, ClientStep

-----------------------------------------------------------------------------
(* The theorems                                                            *)

\* However the peer cuts its answer into pieces and whenever it closes the
\* connection, the client has read the bytes in the order in which they were
\* sent and keeps those of the body apart from those of the head.
THEOREM Invariance == Spec => []IInv
<1>1. Init => IInv
  BY InitInv
<1>2. IInv /\ [Next]_vars => IInv'
  BY StepInv
<1>3. QED BY <1>1, <1>2, PTL DEF Spec

\* raw_request_with_timeouts returns the body the peer sent, all of it unless
\* the peer closed the connection half way.
THEOREM BodyAsSent == Spec => []BodyExact
<1>1. IInv => BodyExact
  BY DEF IInv
<1>2. QED BY <1>1, Invariance, PTL

\* When a read times out the peer has not sent all of its answer, or the answer
\* is one that only ends with the connection.
LEMMA TimeoutStep ==
    ASSUME IInv, [Next]_vars, result'.kind = "timeout", pc \notin {"write", "done"}
    PROVE  \/ ~WholeAnswer
           \/ reply.status \in {200, 400} /\ ~reply.content_length
<1>1. CASE ReadTimeout
  <2>1. pc \in Reading /\ input = <<>>
    BY <1>1 DEF ReadTimeout, Reading
  <2>2. reply \in Reply /\ sent \in 0..(reply.size + 3) /\ body \in Seq(Byte)
    BY DEF IInv, TypeInv
  <2>3. reply.size \in Nat
    BY <2>2, ReplyFacts
  <2>4. Got = sent
    <3>1. Len(<<>>) = 0 /\ sent - 0 = sent
      BY <2>2, SMTT(40)
    <3>2. QED BY <2>1, <3>1 DEF Got
  <2>5. WholeAnswer => sent = reply.size + 3
    BY <2>3, WireFacts DEF WholeAnswer
  <2>6. CASE pc = "head"
    <3>1. sent < 3
      BY <2>4, <2>6 DEF IInv, Kept
    <3>2. sent # reply.size + 3
      BY <2>2, <2>3, <3>1, SMTT(40)
    <3>3. QED BY <2>5, <3>2
  <2>7. CASE pc = "sized"
    <3>1. Len(body) + 3 = sent /\ Len(body) < reply.size
      BY <2>4, <2>7 DEF IInv, Kept, Missing
    <3>2. Len(body) \in Nat
      BY <2>2, SMTT(40)
    <3>3. sent # reply.size + 3
      BY <2>2, <2>3, <3>1, <3>2, SMTT(40)
    <3>4. QED BY <2>5, <3>3
  <2>8. CASE pc = "to_eof"
    BY <2>8 DEF IInv, Missing
  <2>9. QED BY <2>1, <2>6, <2>7, <2>8 DEF Reading
<1>2. CASE Connect \/ Write
  <2>1. pc = "connect"
    BY <1>2 DEF Connect, Write
  <2>2. QED BY <1>2, <2>1, StepRequest
<1>3. CASE ReadHead
  BY <1>3, StepReadHead
<1>4. CASE ReadSized \/ ReadToEof
  BY <1>4, StepReadBody
<1>5. CASE Eof
  BY <1>5, StepEof
<1>6. CASE ReadError
  BY <1>6, StepReadFails
<1>7. CASE result' = result
  <2>1. result' = NoResult /\ NoResult.kind = "none"
    BY <1>7 DEF IInv, NoResult
  <2>2. QED BY <2>1
<1>8. PeerSend \/ PeerClose \/ UNCHANGED vars => result' = result
  BY DEF PeerSend, PeerClose, vars, clientVars
<1>9. QED BY <1>1, <1>2, <1>3, <1>4, <1>5, <1>6, <1>7, <1>8 DEF Next, ClientStep

\* The read timeout of run_with_timeout only strikes while the peer owes the
\* client something, never on an answer that is complete.
THEOREM TimeoutsJustified == Spec => TimeoutJustified
<1>1. IInv /\ [Next]_vars =>
        [result'.kind = "timeout" /\ pc \notin {"write", "done"} =>
           \/ ~WholeAnswer
           \/ reply.status \in {200, 400} /\ ~reply.content_length]_vars
  BY TimeoutStep
<1>2. QED BY <1>1, Invariance, PTL DEF Spec, TimeoutJustified
=============================================================================
