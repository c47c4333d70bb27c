----------------------- MODULE ResponseWritersProofs -----------------------
(***************************************************************************)
(* Proofs about ResponseWriters.  What has been sent follows from the call *)
(* of the response that is next: before the header call nothing has been   *)
(* sent, after it the header is, and after the write the body is, less     *)
(* what the compressor holds.                                              *)
(***************************************************************************)
EXTENDS ResponseWriters, FiniteSetTheorems, SequenceTheorems, TLAPS

Types == {"text/plain", "text/html", "application/json"}
Codes == {200, 201, 202, 204, 307, 400, 401, 404, 405, 409, 410, 413, 499, 500}
Chunks == {"head", "data", "tail"}

Writer ==
  [type : Types \cup {"none"}, encoding : {"none", "gzip"}, cookie : BOOLEAN,
   status : Nat, sentEncoding : {"none", "gzip"}, sentCookie : BOOLEAN,
   body : Seq(Chunks), broken : {"no", "unnoticed", "noticed"},
   statusCode : Nat \cup {StatusCodeUninitialized}, bodySize : Nat,
   hasHeader : BOOLEAN, compress : BOOLEAN, framed : BOOLEAN, held : Seq(Chunks)]

Bares == {Bare(code) : code \in Codes}
Texts == {Text(type, code) : type \in Types, code \in Codes \ NoBody}

-----------------------------------------------------------------------------
(***************************************************************************)
(* The inductive invariant.                                                *)
(***************************************************************************)
Unsent(s) ==
  /\ s.status = 0 /\ s.statusCode = StatusCodeUninitialized
  /\ s.encoding = "none" /\ s.sentEncoding = "none" /\ ~s.sentCookie
  /\ s.body = <<>> /\ s.bodySize = 0 /\ s.held = <<>>
  /\ ~s.hasHeader /\ ~s.compress /\ ~s.framed

HeaderSent(s) ==
  /\ s.status # 0 /\ s.statusCode = s.status
  /\ s.sentCookie = s.cookie
  /\ s.encoding = IF s.compress THEN "gzip" ELSE "none"
  /\ s.sentEncoding = s.encoding
  /\ s.hasHeader = gzip /\ (s.compress => gzip)
  /\ Len(s.body) <= s.bodySize
  /\ s.broken = "no" => s.bodySize = Len(s.body)

NothingWritten(s) ==
  /\ HeaderSent(s)
  /\ s.body = <<>> /\ s.bodySize = 0 /\ s.held = <<>> /\ ~s.framed

DataWritten(s) ==
  /\ HeaderSent(s)
  /\ s.framed = s.compress
  /\ s.held \in {<<>>, <<"data">>}
  /\ ~s.compress => s.held = <<>>
  /\ s.bodySize <= IF s.compress /\ s.held = <<>> THEN 2 ELSE 1
  /\ s.broken = "no" =>
       s.body = IF ~s.compress THEN <<"data">>
                ELSE IF s.held = <<>> THEN <<"head", "data">> ELSE <<"head">>

StreamEnded(s) ==
  /\ HeaderSent(s)
  /\ s.bodySize <= IF s.compress THEN 3 ELSE 1
  /\ s.broken = "no" =>
       s.body = IF s.compress THEN <<"head", "data", "tail">> ELSE <<"data">>

Earned ==
  /\ req.route \in Private /\ req.sendsGzip # "invalid"
  /\ req.cookie = "none" /\ req.keyFits

Entered ==
  /\ pc \in {"GzipCompress", "Auth", "handler"} =>
       Unsent(w) /\ w.type = "none" /\ response = <<>> /\ at = 1
  /\ pc = "Auth" => req.route \in Private
  /\ pc \in {"Auth", "handler"} => req.sendsGzip # "invalid"
  /\ pc = "GzipCompress" => ~gzip
  /\ pc \in {"GzipCompress", "Auth"} => ~w.cookie
  /\ pc \notin {"GzipCompress", "Auth"} => (w.cookie <=> Earned)

Responding ==
  pc = "respond" =>
    \/ /\ response \in Bares
       /\ \/ at = 1 /\ Unsent(w) /\ w.type = "none"
          \/ at = 2 /\ NothingWritten(w) /\ ~w.compress
    \/ /\ response \in Texts
       /\ \/ at \in {1, 2} /\ Unsent(w)
          \/ at = 3 /\ NothingWritten(w) /\ w.status \notin NoBody
          \/ at = 4 /\ DataWritten(w) /\ w.status \notin NoBody

Ending ==
  pc \in {"Close", "Logging", "done"} =>
    \/ /\ response \in Bares
       /\ at = 2 /\ NothingWritten(w) /\ ~w.compress
    \/ /\ response \in Texts
       /\ at = 4 /\ w.status \notin NoBody
       /\ IF pc = "Close" THEN DataWritten(w) ELSE StreamEnded(w)

IInv ==
  /\ req \in Request /\ w \in Writer /\ gzip \in BOOLEAN
  /\ gzip => req.acceptsGzip
  /\ pc \in {"GzipCompress", "Auth", "handler", "respond", "Close", "Logging", "done"}
  /\ Entered /\ Responding /\ Ending

-----------------------------------------------------------------------------
(***************************************************************************)
(* A sequence of two or three elements is the tuple of them.               *)
(***************************************************************************)
LEMMA IsPair ==
  ASSUME NEW S, NEW s \in Seq(S), Len(s) = 2
  PROVE  s = <<s[1], s[2]>>
<1>. DEFINE t == <<s[1], s[2]>>
<1>1. 1 \in 1 .. Len(s) /\ 2 \in 1 .. Len(s)
  OBVIOUS
<1>2. s[1] \in S /\ s[2] \in S
  BY <1>1, ElementOfSeq
<1>3. t \in Seq(S) /\ Len(t) = 2 /\ t[1] = s[1] /\ t[2] = s[2]
  BY <1>2
<1>. HIDE DEF t
<1>4. \A i \in 1 .. Len(s) : s[i] = t[i]
  BY <1>3, \A i \in 1 .. 2 : i = 1 \/ i = 2
<1>5. s = t
  BY <1>3, <1>4, SeqEqual
<1>. QED
  BY <1>5 DEF t

\* The same for three.
LEMMA IsTriple ==
  ASSUME NEW S, NEW s \in Seq(S), Len(s) = 3
  PROVE  s = <<s[1], s[2], s[3]>>
<1>. DEFINE t == <<s[1], s[2], s[3]>>
<1>1. 1 \in 1 .. Len(s) /\ 2 \in 1 .. Len(s) /\ 3 \in 1 .. Len(s)
  OBVIOUS
<1>2. s[1] \in S /\ s[2] \in S /\ s[3] \in S
  BY <1>1, ElementOfSeq
<1>3. t \in Seq(S) /\ Len(t) = 3 /\ t[1] = s[1] /\ t[2] = s[2] /\ t[3] = s[3]
  BY <1>2
<1>. HIDE DEF t
<1>4. \A i \in 1 .. Len(s) : s[i] = t[i]
  BY <1>3, \A i \in 1 .. 3 : i = 1 \/ i = 2 \/ i = 3
<1>5. s = t
  BY <1>3, <1>4, SeqEqual
<1>. QED
  BY <1>5 DEF t

(***************************************************************************)
(* The sequences that make up a body.                                      *)
(***************************************************************************)
LEMMA ChunkSequences ==
  /\ {<<>>, <<"head">>, <<"data">>, <<"tail">>, <<"head", "data">>, <<"data", "tail">>,
      <<"head", "data", "tail">>} \subseteq Seq(Chunks)
  /\ <<"data">> # <<>>
  BY DEF Chunks

\* How they are put together.
LEMMA Concatenations ==
  /\ \A s \in Seq(Chunks) : <<>> \o s = s /\ s \o <<>> = s
  /\ <<"data">> \o <<"tail">> = <<"data", "tail">>
  /\ <<"head">> \o <<"data">> = <<"head", "data">>
  /\ <<"head">> \o <<"data", "tail">> = <<"head", "data", "tail">>
  /\ <<"head", "data">> \o <<"tail">> = <<"head", "data", "tail">>
<1>1. \A s \in Seq(Chunks) : <<>> \o s = s /\ s \o <<>> = s
  BY ConcatEmptySeq
<1>2. \A a, b \in Chunks : <<a>> \o <<b>> = <<a, b>>
  <2>. SUFFICES ASSUME NEW a \in Chunks, NEW b \in Chunks PROVE <<a>> \o <<b>> = <<a, b>>
    OBVIOUS
  <2>. DEFINE s == <<a>> \o <<b>>
  <2>1. s \in Seq(Chunks) /\ Len(s) = 2 /\ s[1] = a /\ s[2] = b
    BY <<a>> \in Seq(Chunks), <<b>> \in Seq(Chunks), ConcatProperties
  <2>. QED
    BY <2>1, IsPair
<1>3. ASSUME NEW a \in Chunks, NEW b \in Chunks, NEW c \in Chunks
      PROVE  /\ <<a>> \o <<b, c>> = <<a, b, c>>
             /\ <<a, b>> \o <<c>> = <<a, b, c>>
  <2>. DEFINE s == <<a>> \o <<b, c>>
             t == <<a, b>> \o <<c>>
  <2>1. /\ <<a>> \in Seq(Chunks) /\ <<c>> \in Seq(Chunks)
        /\ <<a, b>> \in Seq(Chunks) /\ <<b, c>> \in Seq(Chunks)
    OBVIOUS
  <2>2. s \in Seq(Chunks) /\ Len(s) = 3 /\ s[1] = a /\ s[2] = b /\ s[3] = c
    BY <2>1, ConcatProperties
  <2>3. t \in Seq(Chunks) /\ Len(t) = 3 /\ t[1] = a /\ t[2] = b /\ t[3] = c
    BY <2>1, ConcatProperties
  <2>4. s = <<a, b, c>>
    BY <2>2, IsTriple
  <2>5. t = <<a, b, c>>
    BY <2>3, IsTriple
  <2>. QED
    BY <2>4, <2>5
<1>. QED
  BY <1>1, <1>2, <1>3 DEF Chunks

\* From s, the writer t has come by sending some chunks.
Sends(s, chunks, t) ==
  /\ t \in Writer
  /\ t = [s EXCEPT !.body = t.body, !.bodySize = t.bodySize]
  /\ s.broken = "no" /\ s.status \notin NoBody => t.body = s.body \o chunks
  /\ Len(t.body) <= t.bodySize
  /\ s.broken = "no" => t.bodySize = Len(t.body)
  /\ t.bodySize <= s.bodySize + Len(chunks)

\* What has been said of a header that is sent stays true.
LEMMA SendsKeepsHeader ==
  ASSUME NEW s \in Writer, HeaderSent(s), NEW chunks, NEW t, Sends(s, chunks, t)
  PROVE  HeaderSent(t)
<1>1. t = [s EXCEPT !.body = t.body, !.bodySize = t.bodySize]
  BY DEF Sends
<1>2. /\ t.status = s.status /\ t.statusCode = s.statusCode
      /\ t.cookie = s.cookie /\ t.sentCookie = s.sentCookie
      /\ t.encoding = s.encoding /\ t.sentEncoding = s.sentEncoding
      /\ t.hasHeader = s.hasHeader /\ t.compress = s.compress
      /\ t.broken = s.broken
  BY <1>1 DEF Writer
<1>3. Len(t.body) <= t.bodySize /\ (s.broken = "no" => t.bodySize = Len(t.body))
  BY DEF Sends
<1>. QED
  BY <1>2, <1>3 DEF HeaderSent

(***************************************************************************)
(* The writer of Logging, on a writer whose header has been sent: body     *)
(* and count grow together until the connection breaks, the count never    *)
(* falls behind, and nothing else changes.                                 *)
(***************************************************************************)
LEMMA LogWriteFacts ==
  ASSUME NEW s \in Writer, s.status # 0, Len(s.body) <= s.bodySize,
         s.broken = "no" => s.bodySize = Len(s.body),
         NEW chunks \in Seq(Chunks), NEW t, t = LogWrite(s, chunks)
  PROVE  Sends(s, chunks, t)
<1>. DEFINE sends == s.broken = "no" /\ s.status \notin NoBody
           body == IF sends THEN s.body \o chunks ELSE s.body
           n == NetWrite(s, chunks)
           size == s.bodySize + Taken(s, chunks)
<1>1. NetWriteHeader(s, 200) = s
  BY DEF NetWriteHeader
<1>2. s.body \in Seq(Chunks)
  BY DEF Writer
<1>3. body \in Seq(Chunks)
  BY <1>2, ConcatProperties
<1>4. n = [s EXCEPT !.body = body]
  <2>1. CASE ~sends
    <3>1. n = s /\ body = s.body
      BY <1>1, <2>1 DEF NetWrite
    <3>2. s = [s EXCEPT !.body = s.body]
      BY DEF Writer
    <3>. QED
      BY <3>1, <3>2
  <2>2. CASE sends
    BY <1>1, <2>2 DEF NetWrite
  <2>. QED
    BY <2>1, <2>2
<1>5. /\ Len(s.body) \in Nat /\ Len(chunks) \in Nat /\ s.bodySize \in Nat
      /\ Len(body) = IF sends THEN Len(s.body) + Len(chunks) ELSE Len(s.body)
  BY <1>2, LenProperties, ConcatProperties DEF Writer
<1>6. Taken(s, chunks) \in {0, Len(chunks)} /\ (sends => Taken(s, chunks) = Len(chunks))
  BY DEF Taken
<1>7. s.broken = "no" /\ ~sends => Taken(s, chunks) = 0
  BY DEF Taken
<1>8. /\ size \in Nat /\ size <= s.bodySize + Len(chunks)
      /\ Len(body) <= size
      /\ s.broken = "no" => size = Len(body)
  <2>1. CASE sends
    BY <1>5, <1>6, <2>1
  <2>2. CASE ~sends
    BY <1>5, <1>6, <1>7, <2>2
  <2>. QED
    BY <2>1, <2>2
<1>9. sends => body = s.body \o chunks
  OBVIOUS
<1>10. t = [s EXCEPT !.body = body, !.bodySize = size]
  <2>1. Taken(n, chunks) = Taken(s, chunks) /\ n.bodySize = s.bodySize
    BY <1>4 DEF Taken, Writer
  <2>2. t = [n EXCEPT !.bodySize = size]
    BY <2>1 DEF LogWrite
  <2>. HIDE DEF body, size, n
  <2>. QED
    BY <1>4, <2>2 DEF Writer
<1>. HIDE DEF body, size
<1>11. t.body = body /\ t.bodySize = size
  BY <1>10 DEF Writer
<1>12. t \in Writer
  BY <1>3, <1>8, <1>10 DEF Writer
<1>. QED
  BY <1>8, <1>9, <1>10, <1>11, <1>12 DEF Sends

(***************************************************************************)
(* The first header call sends the header as it is then, with gzip in it   *)
(* exactly if the body will be compressed.                                 *)
(***************************************************************************)
LEMMA HeaderCall ==
  ASSUME NEW s \in Writer, Unsent(s), NEW code \in Codes, gzip \in BOOLEAN,
         NEW t, t = IF gzip THEN GzipWriteHeader(s, code) ELSE LogWriteHeader(s, code)
  PROVE  /\ t \in Writer /\ NothingWritten(t) /\ t.status = code
         /\ t.cookie = s.cookie
         /\ s.type = "none" => ~t.compress
<1>1. code \in Nat /\ code # 0
  BY DEF Codes
<1>2. \A r \in Writer : r.status = 0 =>
        LogWriteHeader(r, code) =
          [r EXCEPT !.status = code, !.sentEncoding = r.encoding,
                    !.sentCookie = r.cookie, !.statusCode = code]
  BY DEF LogWriteHeader, NetWriteHeader, Writer
<1>3. CASE ~gzip
  <2>1. t = [s EXCEPT !.status = code, !.sentEncoding = s.encoding,
                      !.sentCookie = s.cookie, !.statusCode = code]
    BY <1>2, <1>3 DEF Unsent
  <2>2. t \in Writer
    BY <1>1, <2>1 DEF Writer
  <2>3. /\ t.status = code /\ t.statusCode = code /\ t.cookie = s.cookie
        /\ t.sentCookie = s.cookie /\ t.encoding = "none" /\ t.sentEncoding = "none"
        /\ t.hasHeader = FALSE /\ t.compress = FALSE /\ t.framed = FALSE
        /\ t.body = <<>> /\ t.held = <<>> /\ t.bodySize = 0
    BY <2>1 DEF Writer, Unsent
  <2>4. gzip = FALSE /\ Len(t.body) = 0 /\ Len(t.body) <= t.bodySize
    BY <1>3, <2>3, Len(<<>>) = 0
  <2>5. HeaderSent(t)
    BY <1>1, <2>3, <2>4 DEF HeaderSent
  <2>. QED
    BY <2>2, <2>3, <2>5 DEF NothingWritten
<1>4. CASE gzip
  <2>. DEFINE zips == code \notin NoBody /\ s.type \in {"application/json", "text/html"}
             set == IF zips THEN [s EXCEPT !.compress = TRUE, !.encoding = "gzip"] ELSE s
  <2>1. /\ set \in Writer /\ set.status = 0 /\ set.cookie = s.cookie
        /\ set.compress = zips /\ set.encoding = (IF zips THEN "gzip" ELSE "none")
        /\ set.body = <<>> /\ set.bodySize = 0 /\ set.held = <<>> /\ ~set.framed
    BY DEF Writer, Unsent
  <2>2. t = [LogWriteHeader(set, code) EXCEPT !.hasHeader = TRUE]
    BY <1>4 DEF GzipWriteHeader
  <2>. HIDE DEF set, zips
  <2>3. t = [set EXCEPT !.status = code, !.sentEncoding = set.encoding,
                        !.sentCookie = set.cookie, !.statusCode = code, !.hasHeader = TRUE]
    BY <1>2, <2>1, <2>2 DEF Writer
  <2>4. t \in Writer
    BY <1>1, <2>1, <2>3 DEF Writer
  <2>5. /\ t.status = code /\ t.statusCode = code /\ t.cookie = s.cookie
        /\ t.sentCookie = s.cookie /\ t.encoding = set.encoding
        /\ t.sentEncoding = set.encoding /\ t.hasHeader = TRUE
        /\ t.compress = set.compress /\ t.framed = set.framed
        /\ t.body = <<>> /\ t.held = <<>> /\ t.bodySize = 0
    BY <2>1, <2>3 DEF Writer
  <2>6. gzip = TRUE /\ Len(t.body) = 0 /\ Len(t.body) <= t.bodySize
    BY <1>4, <2>5, Len(<<>>) = 0
  <2>7. zips \in BOOLEAN
    BY DEF zips
  <2>8. HeaderSent(t)
    BY <1>1, <2>1, <2>5, <2>6, <2>7 DEF HeaderSent
  <2>9. NothingWritten(t)
    BY <2>1, <2>5, <2>8 DEF NothingWritten
  <2>. QED
    BY <2>1, <2>4, <2>5, <2>9 DEF zips
<1>. QED
  BY <1>3, <1>4

(***************************************************************************)
(* The write of a body: it is sent, or its frame is and it may be held.    *)
(***************************************************************************)
LEMMA WriteCall ==
  ASSUME NEW s \in Writer, NothingWritten(s), s.status \notin NoBody, gzip \in BOOLEAN,
         NEW holds \in BOOLEAN,
         NEW t, t = IF gzip THEN GzipWrite(s, holds) ELSE LogWrite(s, <<"data">>)
  PROVE  t \in Writer /\ DataWritten(t) /\ t.status = s.status /\ t.cookie = s.cookie
<1>. USE DEF NothingWritten
<1>1. /\ s.status # 0 /\ s.bodySize = 0 /\ s.body = <<>> /\ s.held = <<>>
      /\ ~s.framed /\ s.hasHeader = gzip
      /\ Len(s.body) <= s.bodySize /\ (s.broken = "no" => s.bodySize = Len(s.body))
  BY DEF HeaderSent
<1>2. CASE ~s.compress
  <2>1. t = LogWrite(s, <<"data">>)
    BY <1>1, <1>2 DEF GzipWrite
  <2>2. Sends(s, <<"data">>, t)
    BY <1>1, <2>1, ChunkSequences, LogWriteFacts
  <2>3. s.broken = "no" => t.body = <<"data">>
    BY <1>1, <2>2, Concatenations, ChunkSequences DEF Sends
  <2>4. t.bodySize <= 1
    BY <1>1, <2>2, Len(<<"data">>) = 1 DEF Sends
  <2>5. /\ t \in Writer /\ t.status = s.status /\ t.cookie = s.cookie
        /\ t.broken = s.broken /\ t.held = <<>> /\ t.framed = FALSE /\ t.compress = FALSE
    BY <1>1, <1>2, <2>2 DEF Sends, Writer
  <2>6. HeaderSent(t)
    BY <1>1, <2>2, SendsKeepsHeader
  <2>. QED
    BY <2>3, <2>4, <2>5, <2>6 DEF DataWritten
<1>3. CASE s.compress
  <2>. DEFINE held == IF holds THEN <<"data">> ELSE <<>>
             chunks == <<"head">> \o (IF holds THEN <<>> ELSE <<"data">>)
             n == LogWrite(s, chunks)
  <2>0. gzip
    BY <1>3 DEF HeaderSent
  <2>1. t = [n EXCEPT !.framed = TRUE, !.held = held]
    BY <1>1, <1>3, <2>0, Concatenations, ChunkSequences DEF GzipWrite, Frame
  <2>2. chunks = IF holds THEN <<"head">> ELSE <<"head", "data">>
    BY Concatenations, ChunkSequences
  <2>3. chunks \in Seq(Chunks) /\ held \in Seq(Chunks)
    BY <2>2, ChunkSequences
  <2>4. Sends(s, chunks, n)
    BY <1>1, <2>3, LogWriteFacts
  <2>5. s.broken = "no" => n.body = chunks
    BY <1>1, <2>3, <2>4, Concatenations DEF Sends
  <2>. HIDE DEF held, chunks, n
  <2>6. t = [s EXCEPT !.body = n.body, !.bodySize = n.bodySize, !.framed = TRUE, !.held = held]
    BY <2>1, <2>4 DEF Sends, Writer
  <2>7. t \in Writer
    BY <2>1, <2>3, <2>4 DEF Sends, Writer
  <2>8. /\ t.held = held /\ t.framed /\ t.body = n.body /\ t.broken = s.broken
        /\ t.status = s.status /\ t.cookie = s.cookie /\ t.compress
    BY <1>3, <2>6 DEF Writer
  <2>9. HeaderSent(t)
    <3>1. /\ t.status = s.status /\ t.statusCode = s.statusCode
          /\ t.cookie = s.cookie /\ t.sentCookie = s.sentCookie
          /\ t.encoding = s.encoding /\ t.sentEncoding = s.sentEncoding
          /\ t.hasHeader = s.hasHeader /\ t.compress = s.compress
          /\ t.broken = s.broken
          /\ t.body = n.body /\ t.bodySize = n.bodySize
      BY <2>6 DEF Writer
    <3>2. Len(n.body) <= n.bodySize /\ (s.broken = "no" => n.bodySize = Len(n.body))
      BY <2>4 DEF Sends
    <3>. QED
      BY <3>1, <3>2 DEF HeaderSent
  <2>10. held = (IF holds THEN <<"data">> ELSE <<>>)
    BY DEF held
  <2>11. <<"data">> # <<>>
    OBVIOUS
  <2>12. t.bodySize <= IF holds THEN 1 ELSE 2
    <3>1. Len(chunks) = IF holds THEN 1 ELSE 2
      BY <2>2
    <3>2. t.bodySize = n.bodySize
      BY <2>6 DEF Writer
    <3>. QED
      BY <1>1, <2>4, <3>1, <3>2 DEF Sends
  <2>. QED
    BY <2>2, <2>5, <2>7, <2>8, <2>9, <2>10, <2>11, <2>12 DEF DataWritten
<1>. QED
  BY <1>2, <1>3

(***************************************************************************)
(* The deferred Close sends what is held and the end of the stream.        *)
(***************************************************************************)
LEMMA CloseCall ==
  ASSUME NEW s \in Writer, DataWritten(s), s.status \notin NoBody, gzip \in BOOLEAN,
         NEW t, t = IF gzip THEN GzipClose(s) ELSE s
  PROVE  t \in Writer /\ StreamEnded(t) /\ t.status = s.status /\ t.cookie = s.cookie
<1>1. HeaderSent(s)
  BY DEF DataWritten
<1>2. CASE ~s.compress
  <2>1. t = s
    BY <1>2 DEF GzipClose
  <2>. QED
    BY <1>1, <1>2, <2>1 DEF StreamEnded, DataWritten
<1>3. CASE s.compress
  <2>. DEFINE chunks == <<>> \o s.held \o <<"tail">>
  <2>1. t = LogWrite(s, chunks)
    BY <1>1, <1>3 DEF GzipClose, Frame, DataWritten, HeaderSent
  <2>2. chunks = IF s.held = <<>> THEN <<"tail">> ELSE <<"data", "tail">>
    <3>1. <<>> \o s.held = s.held
      BY Concatenations, ChunkSequences DEF DataWritten
    <3>2. <<>> \o <<"tail">> = <<"tail">>
      BY Concatenations, ChunkSequences
    <3>3. CASE s.held = <<>>
      BY <3>2, <3>3
    <3>4. CASE s.held = <<"data">>
      BY <3>1, <3>4, Concatenations, ChunkSequences
    <3>. QED
      BY <3>3, <3>4 DEF DataWritten
  <2>3. chunks \in Seq(Chunks)
    BY <2>2, ChunkSequences
  <2>. HIDE DEF chunks
  <2>4. Sends(s, chunks, t)
    <3>1. /\ s.status # 0 /\ Len(s.body) <= s.bodySize
          /\ s.broken = "no" => s.bodySize = Len(s.body)
      BY <1>1 DEF HeaderSent
    <3>. QED
      BY <2>1, <2>3, <3>1, LogWriteFacts
  <2>5. s.broken = "no" => t.body = <<"head", "data", "tail">>
    BY <1>3, <2>2, <2>4, Concatenations DEF DataWritten, Sends
  <2>6. t.bodySize <= 3
    <3>1. Len(chunks) = IF s.held = <<>> THEN 1 ELSE 2
      BY <2>2
    <3>2. s.bodySize <= IF s.held = <<>> THEN 2 ELSE 1
      BY <1>3 DEF DataWritten
    <3>3. s.bodySize \in Nat /\ t.bodySize \in Nat
      BY <2>4 DEF Sends, Writer
    <3>. QED
      BY <2>4, <3>1, <3>2, <3>3 DEF Sends
  <2>7. /\ t \in Writer /\ t.status = s.status /\ t.cookie = s.cookie
        /\ t.broken = s.broken /\ t.compress
    BY <1>3, <2>4 DEF Sends, Writer
  <2>8. HeaderSent(t)
    BY <1>1, <2>4, SendsKeepsHeader
  <2>. QED
    BY <2>5, <2>6, <2>7, <2>8 DEF StreamEnded
<1>. QED
  BY <1>2, <1>3

-----------------------------------------------------------------------------
(***************************************************************************)
(* The responses: a header alone, or a type, a header and one write with a *)
(* status that allows a body.                                              *)
(***************************************************************************)
LEMMA BareShape ==
  ASSUME NEW r \in Bares
  PROVE  Len(r) = 1 /\ r[1].op = "WriteHeader" /\ r[1].code \in Codes
  BY DEF Bares, Bare, WriteHeader

\* A response with a body: type, header, one write.
LEMMA TextShape ==
  ASSUME NEW r \in Texts
  PROVE  /\ Len(r) = 3
         /\ r[1].op = "Type" /\ r[1].type \in Types
         /\ r[2].op = "WriteHeader" /\ r[2].code \in Codes \ NoBody
         /\ r[3].op = "Write"
  BY DEF Texts, Text, Type, WriteHeader, Write

\* An error answer is such a response.
LEMMA ErrorShape ==
  \A code \in Codes \ NoBody : HTTPError(code) \in Texts
<1>1. \A type \in Types : \A code \in Codes \ NoBody : Text(type, code) \in Texts
  BY DEF Texts
<1>. QED
  BY <1>1 DEF HTTPError, Types

\* Every handler's answers are of the two shapes.
LEMMA ResponsesShape ==
  ASSUME NEW route \in Private \cup Public
  PROVE  Responses(route) \subseteq Bares \cup Texts
<1>1. \A code \in Codes : Bare(code) \in Bares
  BY DEF Bares
<1>2. \A type \in Types, code \in Codes \ NoBody : Text(type, code) \in Texts
  BY DEF Texts
<1>3. \A code \in Codes \ NoBody : HTTPError(code) \in Texts
  BY ErrorShape
<1>. HIDE DEF Bares, Texts
<1>. QED
  BY <1>1, <1>2, <1>3 DEF Responses, Private, Public, Codes, NoBody, Types

(***************************************************************************)
(* What a response writes.                                                 *)
(***************************************************************************)
LEMMA WrittenBare == response \in Bares => Written = <<>>
<1>. SUFFICES ASSUME response \in Bares PROVE Written = <<>>
  OBVIOUS
<1>1. {n \in DOMAIN response : response[n].op = "Write"} = {}
  <2>1. DOMAIN response = {1} /\ response[1].op = "WriteHeader"
    BY DEF Bares, Bare, WriteHeader
  <2>. QED
    BY <2>1
<1>2. Cardinality({}) = 0
  BY FS_EmptySet
<1>3. Written = [k \in 1 .. 0 |-> "data"]
  BY <1>1, <1>2 DEF Written
<1>4. Written \in Seq(Chunks) /\ Len(Written) = 0
  BY <1>3 DEF Chunks
<1>. QED
  BY <1>4, EmptySeq

\* One with a body writes it once.
LEMMA WrittenText == response \in Texts => Written = <<"data">>
<1>. SUFFICES ASSUME response \in Texts PROVE Written = <<"data">>
  OBVIOUS
<1>1. {n \in DOMAIN response : response[n].op = "Write"} = {3}
  <2>1. /\ DOMAIN response = 1 .. 3
        /\ response[1].op = "Type" /\ response[2].op = "WriteHeader"
        /\ response[3].op = "Write"
    BY DEF Texts, Text, Type, WriteHeader, Write
  <2>2. \A n \in 1 .. 3 : n = 1 \/ n = 2 \/ n = 3
    OBVIOUS
  <2>. QED
    BY <2>1, <2>2
<1>2. Cardinality({3}) = 1
  BY FS_Singleton
<1>3. Written = [k \in 1 .. 1 |-> "data"]
  BY <1>1, <1>2 DEF Written
<1>. QED
  BY <1>3

(***************************************************************************)
(* The body that this makes, in the encoding that the header names.        *)
(***************************************************************************)
LEMMA WholeBare == HeaderSent(w) /\ response \in Bares /\ ~w.compress => Whole = <<>>
  BY WrittenBare DEF HeaderSent, Whole

\* Data, in a stream if it is compressed.
LEMMA WholeText ==
  HeaderSent(w) /\ response \in Texts =>
    Whole = IF w.compress THEN <<"head", "data", "tail">> ELSE <<"data">>
<1>. SUFFICES ASSUME HeaderSent(w), response \in Texts
              PROVE  Whole = IF w.compress THEN <<"head", "data", "tail">> ELSE <<"data">>
  OBVIOUS
<1>1. Written = <<"data">>
  BY WrittenText
<1>2. <<"head">> \o <<"data">> \o <<"tail">> = <<"head", "data", "tail">>
  BY Concatenations
<1>. QED
  BY <1>1, <1>2 DEF HeaderSent, Whole

-----------------------------------------------------------------------------
(***************************************************************************)
(* The initial states satisfy the invariant.                               *)
(***************************************************************************)
LEMMA InitInv == WriterInit => IInv
<1>. SUFFICES ASSUME WriterInit PROVE IInv
  OBVIOUS
<1>1. <<>> \in Seq(Chunks) /\ Len(<<>>) = 0
  BY ChunkSequences
<1>2. w \in Writer
  BY <1>1 DEF WriterInit, Writer
<1>3. Unsent(w) /\ w.type = "none" /\ ~w.cookie
  BY DEF WriterInit, Unsent
<1>. QED
  BY <1>2, <1>3 DEF WriterInit, IInv, Entered, Responding, Ending

(***************************************************************************)
(* Every action of the request preserves it.                               *)
(***************************************************************************)
LEMMA GzipCompressKeeps == IInv /\ GzipCompress => IInv'
<1>. SUFFICES ASSUME IInv, GzipCompress PROVE IInv'
  OBVIOUS
<1>1. /\ pc = "GzipCompress" /\ Unsent(w) /\ w.type = "none" /\ at = 1 /\ response = <<>>
      /\ ~w.cookie /\ gzip = FALSE /\ req \in Request
  BY DEF GzipCompress, IInv, Entered
<1>2. req' = req /\ w' = w /\ at' = at
  BY DEF GzipCompress
<1>3. Unsent(w)' BY <1>1, <1>2 DEF Unsent
<1>4. CASE req.sendsGzip = "invalid" /\ Respond(HTTPError(400)) /\ UNCHANGED gzip
  <2>1. response' \in Texts /\ pc' = "respond"
    BY <1>4, ErrorShape DEF Respond, Codes, NoBody
  <2>2. ~Earned'
    BY <1>2, <1>4 DEF Earned
  <2>3. Entered' /\ Responding' /\ Ending'
    BY <1>1, <1>2, <1>3, <2>1, <2>2 DEF Entered, Responding, Ending
  <2>. QED
    BY <1>1, <1>2, <1>4, <2>1, <2>3 DEF IInv
<1>5. CASE /\ req.sendsGzip # "invalid" /\ gzip' = req.acceptsGzip
           /\ pc' = IF req.route \in Private THEN "Auth" ELSE "handler"
           /\ UNCHANGED response
  <2>1. gzip' \in BOOLEAN /\ (gzip' => req'.acceptsGzip)
    BY <1>1, <1>2, <1>5 DEF Request
  <2>2. pc' \in {"Auth", "handler"} /\ (pc' = "Auth" <=> req'.route \in Private)
    BY <1>2, <1>5
  <2>3. Entered'
    BY <1>1, <1>2, <1>3, <1>5, <2>2 DEF Entered, Earned
  <2>4. Responding' /\ Ending'
    BY <2>2 DEF Responding, Ending
  <2>. QED
    BY <1>1, <1>2, <2>1, <2>2, <2>3, <2>4 DEF IInv
<1>. QED
  BY <1>4, <1>5 DEF GzipCompress

\* Auth answers an error, sets a cookie, or lets the request pass.
LEMMA AuthKeeps == IInv /\ Auth => IInv'
<1>. SUFFICES ASSUME IInv, Auth PROVE IInv'
  OBVIOUS
<1>1. /\ pc = "Auth" /\ Unsent(w) /\ w.type = "none" /\ at = 1 /\ response = <<>>
      /\ ~w.cookie /\ req \in Request /\ w \in Writer /\ gzip \in BOOLEAN
      /\ gzip => req.acceptsGzip
      /\ req.route \in Private /\ req.sendsGzip # "invalid"
  BY DEF Auth, IInv, Entered
<1>2. req' = req /\ gzip' = gzip /\ at' = at
  BY DEF Auth
<1>3. ASSUME response' \in Texts, pc' = "respond", w' = w, ~Earned PROVE IInv'
  <2>1. Unsent(w)'
    BY <1>1, <1>3 DEF Unsent
  <2>2. Entered'
    BY <1>1, <1>2, <1>3 DEF Entered, Earned
  <2>3. Responding' /\ Ending'
    BY <1>1, <1>2, <1>3, <2>1 DEF Responding, Ending
  <2>. QED
    BY <1>1, <1>2, <1>3, <2>2, <2>3 DEF IInv
<1>4. ASSUME response' = response, pc' = "handler", w' \in Writer, Unsent(w)',
             w'.type = "none", w'.cookie <=> Earned
      PROVE  IInv'
  <2>1. Entered'
    BY <1>1, <1>2, <1>4 DEF Entered, Earned
  <2>2. Responding' /\ Ending'
    BY <1>4 DEF Responding, Ending
  <2>. QED
    BY <1>1, <1>2, <1>4, <2>1, <2>2 DEF IInv
<1>5. HTTPError(401) \in Texts /\ HTTPError(500) \in Texts
  BY ErrorShape DEF Codes, NoBody
<1>6. CASE /\ req.cookie # "none" /\ DecryptAESGCM(req.cookie) = "error"
           /\ Respond(HTTPError(401)) /\ UNCHANGED w
  BY <1>3, <1>5, <1>6 DEF Respond, Earned
<1>7. CASE /\ req.cookie = "none" /\ EncryptAESGCM = "error"
           /\ Respond(HTTPError(500)) /\ UNCHANGED w
  BY <1>3, <1>5, <1>7 DEF Respond, Earned, EncryptAESGCM
<1>8. CASE /\ req.cookie = "none" /\ EncryptAESGCM = "nil" /\ w' = SetCookie(w)
           /\ pc' = "handler" /\ UNCHANGED response
  <2>1. w' \in Writer /\ w'.type = "none" /\ w'.cookie = TRUE
    BY <1>1, <1>8 DEF SetCookie, Writer
  <2>2. Unsent(w)'
    BY <1>1, <1>8 DEF SetCookie, Writer, Unsent
  <2>3. Earned
    BY <1>1, <1>8 DEF Earned, EncryptAESGCM
  <2>. QED
    BY <1>4, <1>8, <2>1, <2>2, <2>3
<1>9. CASE /\ req.cookie # "none" /\ DecryptAESGCM(req.cookie) = "nil"
           /\ pc' = "handler" /\ UNCHANGED <<w, response>>
  <2>1. Unsent(w)'
    BY <1>1, <1>9 DEF Unsent
  <2>. QED
    BY <1>1, <1>4, <1>9, <2>1 DEF Earned
<1>. QED
  BY <1>6, <1>7, <1>8, <1>9 DEF Auth

\* The handler chooses its response.
LEMMA HandleKeeps == IInv /\ Handle => IInv'
<1>. SUFFICES ASSUME IInv, Handle PROVE IInv'
  OBVIOUS
<1>1. /\ pc = "handler" /\ Unsent(w) /\ w.type = "none" /\ at = 1
      /\ req \in Request /\ w \in Writer /\ gzip \in BOOLEAN
      /\ gzip => req.acceptsGzip
      /\ w.cookie <=> Earned
  BY DEF Handle, IInv, Entered
<1>2. req' = req /\ w' = w /\ gzip' = gzip /\ at' = at /\ pc' = "respond"
  BY DEF Handle, Respond
<1>3. response' \in Bares \cup Texts
  BY <1>1, ResponsesShape DEF Handle, Respond, Request
<1>4. Unsent(w)'
  BY <1>1, <1>2 DEF Unsent
<1>5. Entered'
  BY <1>1, <1>2 DEF Entered, Earned
<1>6. Responding' /\ Ending'
  BY <1>1, <1>2, <1>3, <1>4 DEF Responding, Ending
<1>. QED
  BY <1>1, <1>2, <1>5, <1>6 DEF IInv

\* The response goes through its calls in order.
LEMMA CallWriterKeeps == IInv /\ CallWriter => IInv'
<1>. SUFFICES ASSUME IInv, CallWriter PROVE IInv'
  OBVIOUS
<1>. DEFINE call == response[at]
<1>1. /\ pc = "respond" /\ pc' = "respond" /\ at' = at + 1
      /\ req' = req /\ gzip' = gzip /\ response' = response
  BY DEF CallWriter
<1>2. /\ req \in Request /\ w \in Writer /\ gzip \in BOOLEAN
      /\ gzip => req.acceptsGzip
      /\ w.cookie <=> Earned
  BY <1>1 DEF IInv, Entered
<1>3. \/ call.op = "Type" /\ w' = [w EXCEPT !.type = call.type]
      \/ /\ call.op = "WriteHeader"
         /\ w' = IF gzip THEN GzipWriteHeader(w, call.code)
                         ELSE LogWriteHeader(w, call.code)
      \/ /\ call.op = "Write"
         /\ \E holds \in BOOLEAN :
              w' = IF gzip THEN GzipWrite(w, holds) ELSE LogWrite(w, <<"data">>)
  BY DEF CallWriter
<1>4. at <= Len(response)
  BY DEF CallWriter
<1>5. SUFFICES w' \in Writer /\ w'.cookie = w.cookie /\ Responding'
  <2>1. Entered' /\ Ending'
    BY <1>1, <1>2, <1>5 DEF Entered, Earned, Ending
  <2>. QED
    BY <1>1, <1>2, <1>5, <2>1 DEF IInv
<1>6. CASE response \in Bares
  <2>1. at = 1 /\ Unsent(w) /\ w.type = "none"
    <3>1. Len(response) = 1
      BY <1>6, BareShape
    <3>2. response \notin Texts
      BY <3>1, TextShape
    <3>3. \/ at = 1 /\ Unsent(w) /\ w.type = "none"
          \/ at = 2
      BY <1>1, <1>6, <3>2 DEF IInv, Responding
    <3>. QED
      BY <1>4, <3>1, <3>3
  <2>2. call.op = "WriteHeader" /\ call.code \in Codes
    BY <1>6, <2>1, BareShape
  <2>3. w' = IF gzip THEN GzipWriteHeader(w, call.code) ELSE LogWriteHeader(w, call.code)
    BY <1>3, <2>2
  <2>. HIDE DEF call
  <2>4. w' \in Writer /\ NothingWritten(w') /\ w'.cookie = w.cookie /\ ~w'.compress
    BY <1>2, <2>1, <2>2, <2>3, HeaderCall
  <2>5. NothingWritten(w)'
    BY <1>1, <2>4 DEF NothingWritten, HeaderSent
  <2>. QED
    BY <1>1, <1>6, <2>1, <2>4, <2>5 DEF Responding
<1>7. CASE response \in Texts
  <2>1. /\ Len(response) = 3
        /\ response[1].op = "Type" /\ response[1].type \in Types
        /\ response[2].op = "WriteHeader" /\ response[2].code \in Codes \ NoBody
        /\ response[3].op = "Write"
    BY <1>7, TextShape
  <2>2. response \notin Bares
    BY <2>1, BareShape
  <2>3. \/ at \in {1, 2} /\ Unsent(w)
        \/ at = 3 /\ NothingWritten(w) /\ w.status \notin NoBody
    BY <1>1, <1>4, <2>1, <2>2 DEF IInv, Responding
  <2>4. CASE at = 1
    <3>1. Unsent(w) /\ w' = [w EXCEPT !.type = call.type] /\ call.type \in Types
      BY <1>3, <2>1, <2>3, <2>4
    <3>2. w' \in Writer /\ w'.cookie = w.cookie
      BY <1>2, <3>1 DEF Writer
    <3>3. Unsent(w)'
      BY <1>2, <3>1 DEF Unsent, Writer
    <3>. QED
      BY <1>1, <1>7, <2>4, <3>2, <3>3 DEF Responding
  <2>5. CASE at = 2
    <3>1. Unsent(w) /\ call.code \in Codes /\ call.code \notin NoBody
      BY <2>1, <2>3, <2>5
    <3>2. w' = IF gzip THEN GzipWriteHeader(w, call.code) ELSE LogWriteHeader(w, call.code)
      BY <1>3, <2>1, <2>5
    <3>. HIDE DEF call
    <3>3. w' \in Writer /\ NothingWritten(w') /\ w'.cookie = w.cookie /\ w'.status = call.code
      BY <1>2, <3>1, <3>2, HeaderCall
    <3>4. NothingWritten(w)'
      BY <1>1, <3>3 DEF NothingWritten, HeaderSent
    <3>. QED
      BY <1>1, <1>7, <2>5, <3>1, <3>3, <3>4 DEF Responding
  <2>6. CASE at = 3
    <3>1. NothingWritten(w) /\ w.status \notin NoBody
      BY <2>3, <2>6
    <3>2. PICK holds \in BOOLEAN :
            w' = IF gzip THEN GzipWrite(w, holds) ELSE LogWrite(w, <<"data">>)
      BY <1>3, <2>1, <2>6
    <3>3. w' \in Writer /\ DataWritten(w') /\ w'.cookie = w.cookie /\ w'.status = w.status
      BY <1>2, <3>1, <3>2, WriteCall
    <3>4. DataWritten(w)'
      BY <1>1, <3>3 DEF DataWritten, HeaderSent
    <3>. QED
      BY <1>1, <1>7, <2>6, <3>1, <3>3, <3>4 DEF Responding
  <2>. QED
    BY <2>3, <2>4, <2>5, <2>6
<1>. QED
  BY <1>1, <1>6, <1>7 DEF IInv, Responding

\* The handler returns after the last of them.
LEMMA ReturnKeeps == IInv /\ Return => IInv'
<1>. SUFFICES ASSUME IInv, Return PROVE IInv'
  OBVIOUS
<1>1. /\ pc = "respond" /\ pc' = "Close" /\ at > Len(response)
      /\ req' = req /\ gzip' = gzip /\ response' = response /\ w' = w /\ at' = at
  BY DEF Return
<1>2. Entered'
  BY <1>1 DEF IInv, Entered, Earned
<1>3. Ending'
  <2>1. CASE response \in Bares
    <3>1. at = 2 /\ NothingWritten(w) /\ ~w.compress
      BY <1>1, <2>1, BareShape, TextShape DEF IInv, Responding
    <3>2. NothingWritten(w)'
      BY <1>1, <3>1 DEF NothingWritten, HeaderSent
    <3>. QED
      BY <1>1, <2>1, <3>1, <3>2 DEF Ending
  <2>2. CASE response \in Texts
    <3>1. at = 4 /\ DataWritten(w) /\ w.status \notin NoBody
      BY <1>1, <2>2, BareShape, TextShape DEF IInv, Responding
    <3>2. DataWritten(w)'
      BY <1>1, <3>1 DEF DataWritten, HeaderSent
    <3>. QED
      BY <1>1, <2>2, <3>1, <3>2 DEF Ending
  <2>. QED
    BY <1>1, <2>1, <2>2 DEF IInv, Responding
<1>. QED
  BY <1>1, <1>2, <1>3 DEF IInv, Responding

\* The deferred Close of GzipCompress.
LEMMA CloseKeeps == IInv /\ Close => IInv'
<1>. SUFFICES ASSUME IInv, Close PROVE IInv'
  OBVIOUS
<1>1. /\ pc = "Close" /\ pc' = "Logging" /\ w' = IF gzip THEN GzipClose(w) ELSE w
      /\ req' = req /\ gzip' = gzip /\ response' = response /\ at' = at
  BY DEF Close
<1>2. /\ req \in Request /\ w \in Writer /\ gzip \in BOOLEAN
      /\ gzip => req.acceptsGzip
      /\ w.cookie <=> Earned
  BY <1>1 DEF IInv, Entered
<1>3. CASE response \in Bares /\ at = 2 /\ NothingWritten(w) /\ ~w.compress
  <2>1. w' = w
    BY <1>1, <1>3 DEF GzipClose
  <2>2. NothingWritten(w)'
    BY <1>1, <1>3, <2>1 DEF NothingWritten, HeaderSent
  <2>3. Entered' /\ Responding' /\ Ending'
    BY <1>1, <1>2, <1>3, <2>1, <2>2 DEF Entered, Earned, Responding, Ending
  <2>. QED
    BY <1>1, <1>2, <2>1, <2>3 DEF IInv
<1>4. CASE response \in Texts /\ at = 4 /\ DataWritten(w) /\ w.status \notin NoBody
  <2>1. w' \in Writer /\ StreamEnded(w') /\ w'.status = w.status /\ w'.cookie = w.cookie
    BY <1>1, <1>2, <1>4, CloseCall
  <2>2. StreamEnded(w)'
    BY <1>1, <2>1 DEF StreamEnded, HeaderSent
  <2>3. Entered' /\ Responding' /\ Ending'
    BY <1>1, <1>2, <1>4, <2>1, <2>2 DEF Entered, Earned, Responding, Ending
  <2>. QED
    BY <1>1, <1>2, <2>1, <2>3 DEF IInv
<1>. QED
  BY <1>1, <1>3, <1>4 DEF IInv, Ending

\* The log line finds a status.
LEMMA LoggingKeeps == IInv /\ Logging => IInv'
<1>. SUFFICES ASSUME IInv, Logging PROVE IInv'
  OBVIOUS
<1>1. /\ pc = "Logging" /\ w' = w /\ req' = req /\ gzip' = gzip
      /\ response' = response /\ at' = at
  BY DEF Logging
<1>2. HeaderSent(w) /\ w.status \in Nat
  BY <1>1 DEF IInv, Ending, NothingWritten, StreamEnded, Writer
<1>3. pc' = "done"
  BY <1>2 DEF Logging, HeaderSent, StatusCodeUninitialized
<1>4. NothingWritten(w) => NothingWritten(w)'
  BY <1>1 DEF NothingWritten, HeaderSent
<1>5. StreamEnded(w) => StreamEnded(w)'
  BY <1>1 DEF StreamEnded, HeaderSent
<1>6. Ending'
  BY <1>1, <1>3, <1>4, <1>5 DEF IInv, Ending
<1>7. Entered' /\ Responding'
  BY <1>1, <1>3 DEF IInv, Entered, Earned, Responding
<1>. QED
  BY <1>1, <1>3, <1>6, <1>7 DEF IInv

(***************************************************************************)
(* A broken connection: less is claimed about its body from then on.       *)
(***************************************************************************)
LEMMA BrokenKeeps ==
  ASSUME IInv, NEW broken \in {"unnoticed", "noticed"}, w' = [w EXCEPT !.broken = broken],
         UNCHANGED <<req, pc, gzip, response, at>>
  PROVE  IInv'
<1>1. /\ pc' = pc /\ w' = [w EXCEPT !.broken = broken] /\ req' = req /\ gzip' = gzip
      /\ response' = response /\ at' = at /\ w \in Writer
  BY DEF IInv
<1>2. /\ w'.broken # "no" /\ w'.type = w.type /\ w'.cookie = w.cookie /\ w'.status = w.status
      /\ w'.compress = w.compress /\ w' \in Writer
  BY <1>1 DEF Writer
<1>3. Unsent(w) => Unsent(w)'
  BY <1>1 DEF Unsent, Writer
<1>4. HeaderSent(w) => HeaderSent(w)'
  BY <1>1 DEF HeaderSent, Writer
<1>5. NothingWritten(w) => NothingWritten(w)'
  BY <1>1, <1>4 DEF NothingWritten, Writer
<1>6. DataWritten(w) => DataWritten(w)'
  BY <1>1, <1>2, <1>4 DEF DataWritten, Writer
<1>7. StreamEnded(w) => StreamEnded(w)'
  BY <1>1, <1>2, <1>4 DEF StreamEnded, Writer
<1>8. Entered'
  BY <1>1, <1>2, <1>3 DEF IInv, Entered, Earned
<1>9. Responding'
  BY <1>1, <1>2, <1>3, <1>5, <1>6 DEF IInv, Responding
<1>10. Ending'
  BY <1>1, <1>2, <1>5, <1>6, <1>7 DEF IInv, Ending
<1>. QED
  BY <1>1, <1>2, <1>8, <1>9, <1>10 DEF IInv

\* The connection breaks.
LEMMA BreakKeeps == IInv /\ Break => IInv'
<1>. SUFFICES ASSUME IInv, Break PROVE IInv'
  OBVIOUS
<1>1. /\ pc' = pc /\ w' = [w EXCEPT !.broken = "unnoticed"] /\ req' = req /\ gzip' = gzip
      /\ response' = response /\ at' = at /\ w \in Writer
  BY DEF Break, IInv
<1>. QED
  BY <1>1, BrokenKeeps

\* A failed flush.
LEMMA NoticeKeeps == IInv /\ Notice => IInv'
<1>. SUFFICES ASSUME IInv, Notice PROVE IInv'
  OBVIOUS
<1>1. /\ pc' = pc /\ w' = [w EXCEPT !.broken = "noticed"] /\ req' = req /\ gzip' = gzip
      /\ response' = response /\ at' = at /\ w \in Writer
  BY DEF Notice, IInv
<1>. QED
  BY <1>1, BrokenKeeps

\* Nothing happens.
LEMMA StutterKeeps == IInv /\ UNCHANGED writerVars => IInv'
  BY DEF IInv, writerVars, Entered, Responding, Ending, Earned, Unsent, HeaderSent,
         NothingWritten, DataWritten, StreamEnded

\* Every step keeps it.
LEMMA NextKeeps == IInv /\ [WriterNext]_writerVars => IInv'
  BY GzipCompressKeeps, AuthKeeps, HandleKeeps, CallWriterKeeps, ReturnKeeps,
     CloseKeeps, LoggingKeeps, BreakKeeps, NoticeKeeps, StutterKeeps DEF WriterNext

\* So it holds in every state.
LEMMA Invariance == WriterSpec => []IInv
  BY InitInv, NextKeeps, PTL DEF WriterSpec

-----------------------------------------------------------------------------
(***************************************************************************)
(* The properties.                                                         *)
(***************************************************************************)
LEMMA InvType == IInv => WriterTypeOK
<1>. SUFFICES ASSUME IInv PROVE WriterTypeOK
  OBVIOUS
<1>1. w \in Writer /\ gzip \in BOOLEAN /\ req \in Request
  BY DEF IInv
<1>2. w.bodySize <= 3
  <2>1. CASE pc \in {"GzipCompress", "Auth", "handler"}
    BY <2>1 DEF IInv, Entered, Unsent
  <2>2. CASE pc \in {"respond", "Close", "Logging", "done"}
    <3>1. \/ Unsent(w) \/ NothingWritten(w) \/ DataWritten(w) \/ StreamEnded(w)
      BY <2>2 DEF IInv, Responding, Ending
    <3>. QED
      BY <1>1, <3>1 DEF Unsent, NothingWritten, DataWritten, StreamEnded, Writer
  <2>. QED
    BY <2>1, <2>2 DEF IInv
<1>3. w.bodySize \in 0 .. 3
  BY <1>1, <1>2 DEF Writer
<1>4. at \in 1 .. Len(response) + 1
  <2>1. CASE pc \in {"GzipCompress", "Auth", "handler"}
    BY <2>1, Len(<<>>) = 0 DEF IInv, Entered
  <2>2. CASE pc \in {"respond", "Close", "Logging", "done"}
    BY <2>2, BareShape, TextShape DEF IInv, Responding, Ending
  <2>. QED
    BY <2>1, <2>2 DEF IInv
<1>. QED
  BY <1>1, <1>3, <1>4 DEF WriterTypeOK, IInv, Writer, Types, Chunks

(***************************************************************************)
(* The writers, the middleware and the response keep their types, and no   *)
(* more is counted than the chunks of one whole body.                      *)
(***************************************************************************)
THEOREM TypeCorrect == WriterSpec => []WriterTypeOK
  BY Invariance, InvType, PTL

(***************************************************************************)
(* The body and its encoding: for every request, and whenever the          *)
(* compressor lets go of its data.                                         *)
(***************************************************************************)
THEOREM BodyArrives == WriterSpec => []ClientGetsTheBody
<1>1. IInv => ClientGetsTheBody
  <2>. SUFFICES ASSUME IInv, pc = "done", w.broken = "no"
               PROVE  w.body = Whole /\ (w.sentEncoding = "gzip" => req.acceptsGzip)
    BY DEF ClientGetsTheBody
  <2>1. HeaderSent(w) /\ (w.sentEncoding = "gzip" => req.acceptsGzip)
    BY DEF IInv, Ending, NothingWritten, StreamEnded, HeaderSent
  <2>2. CASE response \in Bares /\ NothingWritten(w) /\ ~w.compress
    BY <2>1, <2>2, WholeBare DEF NothingWritten
  <2>3. CASE response \in Texts /\ StreamEnded(w)
    BY <2>1, <2>3, WholeText DEF StreamEnded
  <2>. QED
    BY <2>1, <2>2, <2>3 DEF IInv, Ending
<1>. QED
  BY <1>1, Invariance, PTL

(***************************************************************************)
(* The log line is always written.  It names the status that was sent, and *)
(* a size that is the body's as long as the connection lasts, and never    *)
(* less than what was sent nor more than the whole body after that.        *)
(***************************************************************************)
THEOREM LogLineIsTrue == WriterSpec => []LogIsTrue
<1>1. IInv => LogIsTrue
  <2>. SUFFICES ASSUME IInv, pc = "done"
               PROVE  /\ w.statusCode = w.status
                      /\ w.bodySize \in Len(w.body) .. Len(Whole)
                      /\ w.broken = "no" => w.bodySize = Len(w.body)
    BY DEF LogIsTrue, IInv
  <2>1. HeaderSent(w) /\ w.bodySize \in Nat /\ Len(w.body) \in Nat
    BY LenProperties DEF IInv, Ending, NothingWritten, StreamEnded, Writer
  <2>2. w.bodySize <= Len(Whole) /\ Len(Whole) \in Nat
    <3>1. CASE response \in Bares /\ NothingWritten(w) /\ ~w.compress
      BY <2>1, <3>1, WholeBare, Len(<<>>) = 0 DEF NothingWritten
    <3>2. CASE response \in Texts /\ StreamEnded(w)
      <4>1. Len(Whole) = IF w.compress THEN 3 ELSE 1
        BY <2>1, <3>2, WholeText
      <4>. QED
        BY <3>2, <4>1 DEF StreamEnded
    <3>. QED
      BY <3>1, <3>2 DEF IInv, Ending
  <2>. QED
    BY <2>1, <2>2 DEF HeaderSent
<1>. QED
  BY <1>1, Invariance, PTL

(***************************************************************************)
(* The cookie is in the header that was sent exactly for a new user.       *)
(***************************************************************************)
THEOREM CookiesAreSent == WriterSpec => []NewUsersGetTheirCookie
<1>1. IInv => NewUsersGetTheirCookie
  BY DEF IInv, Entered, Ending, NothingWritten, StreamEnded, HeaderSent, Earned,
         NewUsersGetTheirCookie
<1>. QED
  BY <1>1, Invariance, PTL
=============================================================================
