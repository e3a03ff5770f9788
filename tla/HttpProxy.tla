------------------------------ MODULE HttpProxy ------------------------------
(***************************************************************************)
(* internal/http: a CONNECT or a plain request, parsed from one Read.      *)
(*                                                                         *)
(* The stream of such a client consists of units instead of bytes: CRLF;   *)
(* a request line; the name of the Proxy-Authorization header up to        *)
(* "Basic ", and the base64 text after it; other headers, with or without  *)
(* the prefix "Proxy-"; pieces of a body.  A unit is a tuple whose first   *)
(* element says which it is; a request line has its target as the second:  *)
(* "get" stands for every method but CONNECT, "short" for less than three  *)
(* words.                                                                  *)
(***************************************************************************)
EXTENDS FrontEnd

CONSTANT HttpBuf   \* how many units fit into the buffer of 4096 bytes

ASSUME HttpBufAssumption == HttpBuf \in Nat \ {0}

CRLF == <<"crlf">>
NUL  == <<"nul">>   \* the zero bytes behind what was read: the whole buffer is split

\* What one Read has returned, with the rest of the buffer.
Text == Slice(0, n) \o (IF n < HttpBuf THEN <<NUL>> ELSE << >>)

\* readString splits it at every CRLF.  Unit i is in a line with credentials, its CRLF
\* included:
InAuthLine(t, i) ==
  \E j \in 1 .. i : t[j][1] = "auth" /\ \A k \in j .. i - 1 : t[k] # CRLF

\* handshake: the last header whose text decodes.  Base64 does not decode with zero bytes
\* behind it, so a line that was cut off is passed over.
HttpCredentials(t) ==
  LET good == {i \in 1 .. Len(t) - 1 :
                 /\ t[i][1] = "auth" /\ t[i + 1][1] = "base64"
                 /\ i + 2 <= Len(t) => t[i + 2] = CRLF}
      cred == t[Max(good) + 1]
  IN  IF good = {} THEN [name |-> << >>, pass |-> << >>]
      ELSE [name |-> cred[2], pass |-> cred[3]]

\* processRequest: a header goes on without the prefix.
Shown(u) == IF u[1] = "proxy" THEN <<"header", u[2]>> ELSE u

\* The request line with the path only, and the lines after it without the credentials;
\* each of them, the last one too, gets a CRLF.
Rewritten(t) ==
  LET upTo[k \in 0 .. Len(t)] ==
        IF k = 0 THEN << >>
        ELSE IF InAuthLine(t, k) THEN upTo[k - 1] ELSE Append(upTo[k - 1], Shown(t[k]))
  IN  upTo[Len(t)] \o (IF InAuthLine(t, Len(t)) /\ t[Len(t)] # CRLF THEN << >> ELSE <<CRLF>>)

\* The target of a request line is a sequence of tokens: the characters and pairs that the
\* code looks for, the digits that strconv.Atoi takes for k, which are not the beginning of
\* a target, and any other character.
Colon  == <<":">>
Slash  == <<"/">>
Slash2 == <<"//">>
Num(k) == <<"num", k>>

TokenText == [open |-> <<"[">>, close |-> <<"]">>, colon |-> Colon, zero |-> <<Num(0)>>]

\* strings.Index and strings.Split: where the first of the tokens xs is, what is before it
\* and what comes after.
Index(t, xs) == IF Has(t, xs) THEN Min({i \in DOMAIN t : t[i] \in xs}) ELSE Len(t) + 1

Before(t, xs) == SubSeq(t, 1, Index(t, xs) - 1)
After(t, xs)  == SubSeq(t, Index(t, xs) + 1, Len(t))

\* uint16 of strconv.Atoi, whose error leaves 0.
Uint16  == 65536
Atoi(t) == IF Len(t) = 1 /\ t[1][1] = "num" THEN t[1][2] % Uint16 ELSE 0

\* CONNECT: the parts before and behind the first colon.
ConnectTarget(t) ==
  Dest(Before(t, {Colon}), <<Num(Atoi(Before(After(t, {Colon}), {Colon})))>>, TokenText)

\* Other methods: what follows the first "//", or else all but the first character; the
\* host and the port of it; and the path.
RestUrl(t)  == IF Has(t, {Slash2}) THEN After(t, {Slash2}) ELSE Tail(t)
HostPort(t) == Before(RestUrl(t), {Slash, Slash2})

UrlTarget(t) ==
  LET as   == HostPort(t)
      rest == After(as, {Colon})
      port == IF Has(as, {Colon}) /\ ~Has(rest, {Colon}) THEN Atoi(rest) ELSE 80
  IN  Dest(Before(as, {Colon}), <<Num(port)>>, TokenText)

UrlPath(t) ==
  LET rest == RestUrl(t)
  IN  IF Has(rest, {Slash, Slash2}) THEN SubSeq(rest, Index(rest, {Slash, Slash2}), Len(rest))
      ELSE <<Slash>>

\* processRequest: the request line is no request; a CONNECT without a port or a request
\* without a target is out of range; a URL without a host is refused; a CONNECT is queued
\* without its text, any other request with its path and its headers.
HttpServe(t, creds) ==
  LET req == t[1]
  IN  \/ req[1] = "short" /\ GiveUp /\ UNCHANGED replies
      \/ /\ req[1] = "connect"
         /\ IF Has(req[2], {Colon})
              THEN Enqueue([target |-> ConnectTarget(req[2]), line |-> << >>], creds)
              ELSE Crash
      \/ /\ req[1] = "get"
         /\ CASE req[2] = << >> -> Crash
              [] req[2] # << >> /\ RestUrl(req[2]) = << >> ->
                   GiveUp /\ replies' = Append(replies, "404")
              [] OTHER ->
                   Enqueue([target |-> UrlTarget(req[2]),
                            line   |-> Rewritten([t EXCEPT ![1] = <<"get", UrlPath(req[2])>>])],
                           creds)

\* Handle up to auth.Enable: one line only is refused.
HttpRequest ==
  /\ Filled("http")
  /\ \E t \in {Text} :
       CASE ~Has(t, {CRLF}) -> GiveUp /\ UNCHANGED replies
         [] Has(t, {CRLF}) /\ Enable(conf.users) -> Continue("httpAuth", want)
         [] Has(t, {CRLF}) /\ ~Enable(conf.users) -> HttpServe(t, {})

\* Handle from auth.Verify on, which reads the users again.
HttpAuth ==
  /\ Filled("httpAuth")
  /\ \E t \in {Text} :
       LET cred == HttpCredentials(t)
       IN  IF Verify(conf.users, cred.name, cred.pass, script.addr) THEN HttpServe(t, {cred})
           ELSE GiveUp /\ replies' = Append(replies, "authFailed")
=============================================================================
