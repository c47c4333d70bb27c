-------------------------- MODULE ResponseWriters --------------------------
(***************************************************************************)
(* The way of one request through the middleware: Logging wraps the        *)
(* writer of net/http, GzipCompress wraps that one for a client that       *)
(* accepts gzip, Auth finds the user of the private routes, and the        *)
(* handler answers with a few calls of its writer.  Close of the gzip      *)
(* writer is deferred, and Logging logs what it has counted.               *)
(*                                                                         *)
(* A body is a sequence of chunks: "data" is what one Write of a handler   *)
(* sends, "head" and "tail" are the frame of gzip.  A connection breaks    *)
(* at any moment, and what is written after that is lost.  The writer of   *)
(* net/http buffers, so that it goes on taking writes until a flush has    *)
(* failed; from then on every write fails.  A chunk is taken whole or not. *)
(***************************************************************************)
EXTENDS Integers, Sequences, FiniteSets

VARIABLES
  req,       (* the headers and the route of the request, and whether the key fits *)
  pc,        (* the middleware that is next                                        *)
  w,         (* the writers, one field for each of theirs, and what they have sent *)
  gzip,      (* whether the handler's writer is the gzip writer                    *)
  response,  (* the calls of the writer that make up the response               *)
  at         (* the next of them                                                *)

writerVars == <<req, pc, w, gzip, response, at>>

Private == {"Create", "Shorten", "ShortenBatch", "GetURLs", "DeleteURLs"}
Public == {"Redirect", "Ping", "NotFound", "MethodNotAllowed"}

Request ==
  [route : Private \cup Public,
   acceptsGzip : BOOLEAN,                       (* Accept-Encoding           *)
   sendsGzip : {"no", "valid", "invalid"},      (* Content-Encoding and body *)
   cookie : {"none", "ours", "other"},          (* sealed by EncryptAESGCM   *)
   keyFits : BOOLEAN]                           (* CK_KEY has a key's length *)

StatusCodeUninitialized == -1

WriterInit ==
  /\ req \in Request
  /\ pc = "GzipCompress"
  /\ w = [type |-> "none", encoding |-> "none", cookie |-> FALSE,
          status |-> 0, sentEncoding |-> "none", sentCookie |-> FALSE,
          body |-> <<>>, broken |-> "no",
          statusCode |-> StatusCodeUninitialized, bodySize |-> 0,
          hasHeader |-> FALSE, compress |-> FALSE, framed |-> FALSE, held |-> <<>>]
  /\ gzip = FALSE
  /\ response = <<>>
  /\ at = 1

-----------------------------------------------------------------------------
(***************************************************************************)
(* The writers.  That of net/http sends the header once, as it is then,    *)
(* and takes no body for some statuses.                                    *)
(***************************************************************************)
NoBody == {204, 304}

NetWriteHeader(s, code) ==
  IF s.status # 0 THEN s
  ELSE [s EXCEPT !.status = code, !.sentEncoding = s.encoding, !.sentCookie = s.cookie]

NetWrite(s, chunks) ==
  LET h == NetWriteHeader(s, 200)
  IN IF h.broken # "no" \/ h.status \in NoBody THEN h ELSE [h EXCEPT !.body = @ \o chunks]

\* What Write of net/http returns: how much it has taken, not how much arrives.
Taken(s, chunks) ==
  IF s.broken = "noticed" \/ s.status \in NoBody THEN 0 ELSE Len(chunks)

LogWriteHeader(s, code) == [NetWriteHeader(s, code) EXCEPT !.statusCode = code]

LogWrite(s, chunks) ==
  LET n == NetWrite(s, chunks)
  IN [n EXCEPT !.bodySize = @ + Taken(n, chunks)]

\* Faulty variant: the header is set after it has been sent.
GzipWriteHeaderLate(s, code) ==
  LET zips == code \notin NoBody /\ s.type \in {"application/json", "text/html"}
      sent == LogWriteHeader(s, code)
  IN [sent EXCEPT !.hasHeader = TRUE, !.compress = @ \/ zips,
                  !.encoding = IF zips THEN "gzip" ELSE @]

GzipWriteHeader(s, code) ==
  LET zips == code \notin NoBody /\ s.type \in {"application/json", "text/html"}
      set == IF zips THEN [s EXCEPT !.compress = TRUE, !.encoding = "gzip"] ELSE s
  IN [LogWriteHeader(set, code) EXCEPT !.hasHeader = TRUE]

\* Faulty variant: every write begins a stream.
FrameAlways(s) == <<"head">>

Frame(s) == IF s.framed THEN <<>> ELSE <<"head">>

\* The compressor may hold the data back until it is closed.
GzipWrite(s, holds) ==
  LET h == IF s.hasHeader THEN s ELSE GzipWriteHeader(s, 200)
      data == h.held \o <<"data">>
  IN IF ~h.compress THEN LogWrite(h, <<"data">>)
     ELSE [LogWrite(h, Frame(h) \o (IF holds THEN <<>> ELSE data)) EXCEPT
             !.framed = TRUE, !.held = IF holds THEN data ELSE <<>>]

GzipClose(s) ==
  IF s.compress THEN LogWrite(s, Frame(s) \o s.held \o <<"tail">>) ELSE s

-----------------------------------------------------------------------------
(***************************************************************************)
(* The responses of the handlers, as calls of their writer.                *)
(***************************************************************************)
Type(type) == [op |-> "Type", type |-> type]
WriteHeader(code) == [op |-> "WriteHeader", code |-> code]
Write == [op |-> "Write"]

\* Faulty variant: the status of success is left to net/http.
BareSilently(code) == IF code = 200 THEN <<>> ELSE <<WriteHeader(code)>>

Bare(code) == <<WriteHeader(code)>>
Text(type, code) == <<Type(type), WriteHeader(code), Write>>
HTTPError(code) == Text("text/plain", code)

Responses(route) ==
  CASE route \in {"Create", "Shorten"} ->
         {HTTPError(400), HTTPError(500), Bare(499)} \cup
         {Text(IF route = "Create" THEN "text/plain" ELSE "application/json", code) :
            code \in {201, 409}}
    [] route = "ShortenBatch" ->
         {HTTPError(400), HTTPError(500), Bare(413), Bare(499),
          Text("application/json", 201)}
    [] route = "GetURLs" ->
         {HTTPError(500), Bare(204), Bare(499), Text("application/json", 200)}
    [] route = "DeleteURLs" ->
         {HTTPError(400), HTTPError(500), Bare(413), Bare(499), Bare(202)}
    [] route = "Redirect" ->
         {HTTPError(404), HTTPError(500), Bare(410), Text("text/html", 307)}
    [] route = "Ping" -> {Bare(200), Bare(500)}
    [] route = "NotFound" -> {HTTPError(404)}
    [] route = "MethodNotAllowed" -> {Bare(405)}

-----------------------------------------------------------------------------
Respond(r) == pc' = "respond" /\ response' = r

\* The error for a body that is not gzip goes to the writer of Logging.
GzipCompress ==
  /\ pc = "GzipCompress"
  /\ \/ /\ req.sendsGzip = "invalid"
        /\ Respond(HTTPError(400))
        /\ UNCHANGED gzip
     \/ /\ req.sendsGzip # "invalid"
        /\ gzip' = req.acceptsGzip
        /\ pc' = IF req.route \in Private THEN "Auth" ELSE "handler"
        /\ UNCHANGED response
  /\ UNCHANGED <<req, w, at>>

DecryptAESGCM(cookie) == IF req.keyFits /\ cookie = "ours" THEN "nil" ELSE "error"
EncryptAESGCM == IF req.keyFits THEN "nil" ELSE "error"

\* Faulty variant: the cookie is set when the header is gone, to no effect.
SetCookieLate(s) == s

SetCookie(s) == [s EXCEPT !.cookie = TRUE]

Auth ==
  /\ pc = "Auth"
  /\ \/ /\ req.cookie # "none" /\ DecryptAESGCM(req.cookie) = "error"
        /\ Respond(HTTPError(401))
        /\ UNCHANGED w
     \/ /\ req.cookie = "none" /\ EncryptAESGCM = "error"
        /\ Respond(HTTPError(500))
        /\ UNCHANGED w
     \/ /\ req.cookie = "none" /\ EncryptAESGCM = "nil"
        /\ w' = SetCookie(w)
        /\ pc' = "handler"
        /\ UNCHANGED response
     \/ /\ req.cookie # "none" /\ DecryptAESGCM(req.cookie) = "nil"
        /\ pc' = "handler"
        /\ UNCHANGED <<w, response>>
  /\ UNCHANGED <<req, gzip, at>>

Handle ==
  /\ pc = "handler"
  /\ \E r \in Responses(req.route) : Respond(r)
  /\ UNCHANGED <<req, w, gzip, at>>

CallWriter ==
  /\ pc = "respond"
  /\ at <= Len(response)
  /\ at' = at + 1
  /\ LET call == response[at]
     IN \/ /\ call.op = "Type"
           /\ w' = [w EXCEPT !.type = call.type]
        \/ /\ call.op = "WriteHeader"
           /\ w' = IF gzip THEN GzipWriteHeader(w, call.code)
                           ELSE LogWriteHeader(w, call.code)
        \/ /\ call.op = "Write"
           /\ \E holds \in BOOLEAN :
                w' = IF gzip THEN GzipWrite(w, holds) ELSE LogWrite(w, <<"data">>)
  /\ UNCHANGED <<req, pc, gzip, response>>

\* The handler returns, and with it Auth.
Return ==
  /\ pc = "respond"
  /\ at > Len(response)
  /\ pc' = "Close"
  /\ UNCHANGED <<req, w, gzip, response, at>>

\* The deferred function of GzipCompress.
Close ==
  /\ pc = "Close"
  /\ w' = IF gzip THEN GzipClose(w) ELSE w
  /\ pc' = "Logging"
  /\ UNCHANGED <<req, gzip, response, at>>

\* GetStatusCode panics when no status has been set.
Logging ==
  /\ pc = "Logging"
  /\ pc' = IF w.statusCode = StatusCodeUninitialized THEN "panic" ELSE "done"
  /\ UNCHANGED <<req, w, gzip, response, at>>

Break ==
  /\ pc \notin {"done", "panic"}
  /\ w.broken = "no"
  /\ w' = [w EXCEPT !.broken = "unnoticed"]
  /\ UNCHANGED <<req, pc, gzip, response, at>>

\* A flush of net/http's buffer fails.
Notice ==
  /\ pc \notin {"done", "panic"}
  /\ w.broken = "unnoticed"
  /\ w' = [w EXCEPT !.broken = "noticed"]
  /\ UNCHANGED <<req, pc, gzip, response, at>>

WriterNext ==
  \/ GzipCompress \/ Auth \/ Handle \/ CallWriter \/ Return \/ Close \/ Logging
  \/ Break \/ Notice

WriterSpec == WriterInit /\ [][WriterNext]_writerVars

-----------------------------------------------------------------------------
WriterTypeOK ==
  /\ req \in Request
  /\ pc \in {"GzipCompress", "Auth", "handler", "respond", "Close", "Logging",
             "done", "panic"}
  /\ w.type \in {"none", "text/plain", "text/html", "application/json"}
  /\ w.encoding \in {"none", "gzip"} /\ w.sentEncoding \in {"none", "gzip"}
  /\ w.status \in Nat /\ w.statusCode \in Nat \cup {StatusCodeUninitialized}
  /\ w.body \in Seq({"head", "data", "tail"}) /\ w.bodySize \in 0 .. 3
  /\ w.broken \in {"no", "unnoticed", "noticed"}
  /\ {w.cookie, w.sentCookie, w.hasHeader, w.compress, w.framed} \subseteq BOOLEAN
  /\ gzip \in BOOLEAN
  /\ at \in 1 .. Len(response) + 1

(***************************************************************************)
(* A client whose connection lasts gets the body that the handler wrote,   *)
(* once, in the encoding that the header of the response names, and gzip   *)
(* only if it asked for gzip.                                              *)
(***************************************************************************)
Written ==
  LET writes == {n \in DOMAIN response : response[n].op = "Write"}
  IN [k \in 1 .. Cardinality(writes) |-> "data"]

Whole ==
  IF w.sentEncoding = "gzip" THEN <<"head">> \o Written \o <<"tail">> ELSE Written

ClientGetsTheBody ==
  pc = "done" /\ w.broken = "no" =>
    /\ w.body = Whole
    /\ w.sentEncoding = "gzip" => req.acceptsGzip

(***************************************************************************)
(* The line in the log can always be written: no response leaves the       *)
(* status code uninitialised.  It names the status of the response and the *)
(* size of its body, the end of the gzip stream included.  After a broken  *)
(* connection the size may be more than what was sent, since it counts     *)
(* what was taken, but never more than the whole body.                     *)
(***************************************************************************)
LogIsTrue ==
  /\ pc # "panic"
  /\ pc = "done" =>
       /\ w.statusCode = w.status
       /\ w.bodySize \in Len(w.body) .. Len(Whole)
       /\ w.broken = "no" => w.bodySize = Len(w.body)

(***************************************************************************)
(* A user who comes to a private route without a cookie gets one, whatever *)
(* the handler answers, and nobody else does.                              *)
(***************************************************************************)
NewUsersGetTheirCookie ==
  pc = "done" =>
    (w.sentCookie <=> /\ req.route \in Private /\ req.sendsGzip # "invalid"
                      /\ req.cookie = "none" /\ req.keyFits)
=============================================================================
