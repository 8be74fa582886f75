---------------------------- MODULE HttpResponse ----------------------------
(***************************************************************************)
(* HttpResponse: what a handler sets, piece by piece and in any order, and *)
(* Serialization, which appends it to a Buffer, piece by piece too.        *)
(*                                                                         *)
(* A text is a sequence of tokens: a word, a separator, CR, LF.  The       *)
(* reader at the other end knows of a response what HTTP says: the head    *)
(* ends at the first empty line, and since no length is sent, a body ends  *)
(* with the connection.                                                    *)
(***************************************************************************)
EXTENDS BufferMethods, SequencesExt

CONSTANTS
  StatusCode,       \* the status codes that occur
  Ok,               \* c200, the code of a new response
  Message,          \* the text of each code
  Name, Value,      \* header names and values: texts
  Body,             \* bodies: texts
  Version, Space, Colon,  \* tokens; Colon is the separator with its space
  MaxResponses      \* bound: how many responses go over one connection

Has(text, token) == \E i \in 1 .. Len(text) : text[i] = token

ASSUME HttpResponseAssumption ==
  /\ Ok \in StatusCode
  /\ StatusCode \union {Version, Space, Colon} \subseteq Byte \ {CR}
  /\ CR # LF
  /\ Message \in [StatusCode -> Seq(Byte)]
  /\ Name \union Value \union Body \subseteq Seq(Byte)
  /\ \A t \in {Message[c] : c \in StatusCode} \union Name \union Value : ~Has(t, CR)
  /\ \A n \in Name : ~Has(n, Colon)
  /\ MaxResponses \in Nat

VARIABLES
  code, statusMessage,   \* of statusLine_
  requestHeader,         \* requestHeader_: the values of the names that are set
  useBody, body,
  out,                   \* the Buffer of the connection
  closed,                \* a body was sent: nothing can follow
  sent,                  \* the responses that were serialized
  got                    \* those that the reader has taken from the buffer

messageVars == <<code, statusMessage, requestHeader, useBody, body>>
responseVars == <<messageVars, out, closed, sent, got>>

StatusCode2Message(c) == Message[c]

ResponseInit ==
  /\ code = Ok /\ statusMessage = StatusCode2Message(Ok)
  /\ requestHeader = [n \in {} |-> <<>>]
  /\ useBody = FALSE /\ body = <<>>
  /\ out = NewBuffer
  /\ closed = FALSE
  /\ sent = <<>> /\ got = <<>>

-----------------------------------------------------------------------------
(* Variant: the text of the old code stays.                                *)
SetCodeOnly(c) ==
  /\ code' = c
  /\ UNCHANGED <<statusMessage, requestHeader, useBody, body, out, closed, sent, got>>

SetStatusCode(c) ==
  /\ code' = c
  /\ statusMessage' = StatusCode2Message(c)
  /\ UNCHANGED <<requestHeader, useBody, body, out, closed, sent, got>>

(* A name that is set again gets the new value.                            *)
AddHeader(n, v) ==
  /\ requestHeader' = [m \in DOMAIN requestHeader \union {n} |->
                         IF m = n THEN v ELSE requestHeader[m]]
  /\ UNCHANGED <<code, statusMessage, useBody, body, out, closed, sent, got>>

SetBody(str) ==
  /\ body' = str
  /\ useBody' = TRUE
  /\ UNCHANGED <<code, statusMessage, requestHeader, out, closed, sent, got>>

CRLF == <<CR, LF>>

AppendAll(b, texts) == FoldLeft(AppendTo, b, texts)

AppendStatusLine(b) ==
  AppendAll(b, <<<<Version>>, <<Space>>, <<code>>, <<Space>>, statusMessage, CRLF>>)

AppendHeader(b, n) == AppendAll(b, <<n, <<Colon>>, requestHeader[n], CRLF>>)

(* order: the headers as the hash table has them.                          *)
AppendResponse(b, order) ==
  LET head == AppendTo(FoldLeft(AppendHeader, AppendStatusLine(b), order), CRLF)
  IN  IF useBody THEN AppendTo(head, body) ELSE head

Serialization ==
  /\ Len(sent) < MaxResponses /\ ~closed
  /\ \E order \in SetToSeqs(DOMAIN requestHeader) : out' = AppendResponse(out, order)
  /\ closed' = useBody
  /\ sent' = Append(sent, [code |-> code, message |-> StatusCode2Message(code),
                           header |-> requestHeader, body |-> body])
  /\ UNCHANGED <<messageVars, got>>

-----------------------------------------------------------------------------
(* The reader: where lines start in a text, how far they go, and what they *)
(* say.                                                                    *)
Unread == Peek(out, ReadableSize(out))

IsCRLF(text, i) == i + 2 <= Len(text) /\ text[i + 1] = CR /\ text[i + 2] = LF

LineStarts(text) == {0} \union {i + 2 : i \in {i \in 0 .. Len(text) : IsCRLF(text, i)}}

LineFrom(text, i) ==
  SubSeq(text, i + 1,
         Min({j \in i .. Len(text) : j = Len(text) \/ IsCRLF(text, j)}))

ColonIn(line) == Min({i \in 1 .. Len(line) : line[i] = Colon})
NameIn(line) == SubSeq(line, 1, ColonIn(line) - 1)
ValueIn(line) == SubSeq(line, ColonIn(line) + 1, Len(line))

(* The status line has three words, the other lines name and value.        *)
Parsed(head, rest) ==
  LET status == LineFrom(head, 0)
      lines == {LineFrom(head, i) : i \in LineStarts(head) \ {0}}
  IN  [code |-> status[3],
       message |-> SubSeq(status, 5, Len(status)),
       header |-> [n \in {NameIn(l) : l \in lines} |->
                     ValueIn(CHOOSE l \in lines : NameIn(l) = n)],
       body |-> rest]

(* The head of the next response is taken from the buffer, and what is     *)
(* left when the connection is closed as its body.                         *)
ReadResponse ==
  \E p \in FindCRLFDouble(out) :
    LET head == SubSeq(Unread, 1, p - out.r)
        rest == SubSeq(Unread, p - out.r + 5, Len(Unread))
        last == Len(got) + 1 = Len(sent) /\ closed
    IN  /\ got' = Append(got, Parsed(head, IF last THEN rest ELSE <<>>))
        /\ out' = RetrieveFrom(out, IF last THEN Len(Unread) ELSE Len(head) + 4)
        /\ UNCHANGED <<messageVars, closed, sent>>

ResponseNext ==
  \/ \E c \in StatusCode : SetStatusCode(c)
  \/ \E n \in Name, v \in Value : AddHeader(n, v)
  \/ \E str \in Body : SetBody(str)
  \/ Serialization
  \/ ReadResponse

ResponseSpec == ResponseInit /\ [][ResponseNext]_responseVars

-----------------------------------------------------------------------------
ResponseTypeOK ==
  /\ code \in StatusCode /\ statusMessage \in {Message[c] : c \in StatusCode}
  /\ DOMAIN requestHeader \subseteq Name
  /\ requestHeader \in [DOMAIN requestHeader -> Value]
  /\ useBody \in BOOLEAN /\ body \in Body \union {<<>>}
  /\ PartsInOrder(out)
  /\ Len(got) <= Len(sent)

(* What the reader makes of the bytes is what the handler had set when it  *)
(* serialized each response, whichever order the headers went out in and   *)
(* whatever the body looks like.                                           *)
ReadAsSent == got = SubSeq(sent, 1, Len(got))

(* Nothing stays behind: when all responses were read the buffer is empty, *)
(* and while there is one to read its head can be found.                   *)
NothingLeft ==
  IF Len(got) = Len(sent) THEN Unread = <<>> ELSE FindCRLFDouble(out) # {}

(* Responses get through the buffer: each can be read, says what was set,  *)
(* and takes nothing from the next.                                        *)
ResponsesGetThrough == ResponseTypeOK /\ ReadAsSent /\ NothingLeft

=============================================================================
