------------------------------- MODULE MCMixed -------------------------------
(***************************************************************************)
(* Mixed for TLC: the scripts of well-formed clients.                      *)
(***************************************************************************)
EXTENDS Mixed, TLC

Name   == <<97, 98>>
Pass   == <<120>>
IPv4   == <<10, 0, 0, 1>>
IPv6   == [k \in 1 .. 16 |-> k]
Host   == <<110, 97, 109, 101>>
Port   == <<0, 80>>
Long(k) == [i \in 1 .. k |-> 97]

\* The last user of a name counts; another name is a beginning of it.
MCUsers == << [name |-> Name, pass |-> <<121>>, cidr |-> Nil],
              [name |-> <<97>>, pass |-> Pass, cidr |-> << {}, {"lan"} >>],
              [name |-> Name, pass |-> Pass, cidr |-> Nil] >>

MCConfigs == { [users |-> Nil, cidr |-> << >>],
               [users |-> MCUsers, cidr |-> << {}, {"lan"} >>] }

Creds(u, p) == <<1, Len(u)>> \o u \o <<Len(p)>> \o p
Addr(a)     == IF Len(a) = 4 /\ a = IPv4 THEN <<1>> \o a
               ELSE IF Len(a) = 16 THEN <<4>> \o a
               ELSE <<3, Len(a)>> \o a
Socks5Req(cmd, a) == <<5, cmd, 0>> \o Addr(a) \o Port

One(m)         == [bytes |-> m, ends |-> <<Len(m)>>]
Two(m, o)      == [bytes |-> m \o o, ends |-> <<Len(m), Len(m) + Len(o)>>]
Three(m, o, p) == [bytes |-> m \o o \o p, ends |-> <<Len(m), Len(m) + Len(o), Len(m) + Len(o) + Len(p)>>]

Ask(a)  == [target |-> a \o Port, line |-> << >>]
Base(k) == [kind |-> k, patient |-> TRUE, addr |-> "lan", user |-> << >>, pass |-> << >>,
            login |-> FALSE, asked |-> Nil]

Open(greeting, cmd, a) ==
  Two(greeting, Socks5Req(cmd, a)) @@ [asked |-> IF cmd \in 1 .. 3 THEN Ask(a) ELSE Nil]
  @@ Base("socks5")
WithUser(greeting, u, p, a) ==
  Three(greeting, Creds(u, p), Socks5Req(1, a)) @@ [asked |-> Ask(a), user |-> u, pass |-> p, login |-> TRUE]
  @@ Base("socks5")

\* An association whose client then sends 100 bytes on the connection.
Chatty ==
  Three(<<5, 1, 0>>, Socks5Req(3, IPv4), Long(100)) @@ [asked |-> Ask(IPv4)] @@ Base("socks5")

\* Associations; their clients wait for the answers.
UdpScripts == {Chatty, Open(<<5, 1, 0>>, 3, IPv4)}

Socks5Scripts ==
  { Open(<<5, 1, 0>>, 1, IPv4), Open(<<5, 2, 0, 2>>, 2, Host), Open(<<5, 1, 0>>, 1, IPv6),
    Open(<<5, 1, 0>>, 9, IPv4),
    Open(<<5, 1, 0>>, 1, <<110, 97>>),        \* nine bytes
    Open(<<5, 1, 0>>, 1, Long(251)), Open(<<5, 1, 0>>, 1, Long(252)),
    WithUser(<<5, 1, 2>>, Name, Pass, Host), WithUser(<<5, 2, 2, 1>>, Name, Pass, IPv4),
    WithUser(<<5, 2, 0, 2>>, Name, <<121>>, IPv4), WithUser(<<5, 1, 2>>, Name, << >>, IPv4),
    WithUser(<<5, 3, 2, 1, 1>>, Name, Pass, Host),
    WithUser(<<5, 1, 2>>, Long(30), Pass, IPv4), WithUser(<<5, 1, 2>>, Long(31), Pass, IPv4),
    WithUser(<<5, 1, 2>>, Name, Long(28), IPv4), WithUser(<<5, 1, 2>>, Long(29), << >>, IPv4) }

Socks4Req(cmd, ip, user, name) == One(<<4, cmd>> \o Port \o ip \o user \o <<0>> \o name)

\* The last one's name fills the buffer.
Socks4Scripts ==
  { Socks4Req(1, IPv4, Name, << >>)                 @@ [asked |-> Ask(IPv4), user |-> Name] @@ Base("socks4"),
    Socks4Req(1, <<0, 0, 0, 1>>, Name, Host \o <<0>>) @@ [asked |-> Ask(Host), user |-> Name] @@ Base("socks4"),
    Socks4Req(2, IPv4, Name, << >>)                 @@ [user |-> Name] @@ Base("socks4"),
    Socks4Req(1, <<0, 0, 0, 1>>, Long(Socks4Buf - 8), Host \o <<0>>)
      @@ [asked |-> Ask(Host), user |-> Long(Socks4Buf - 8)] @@ Base("socks4") }

\* Targets of HTTP: a host of two characters; an IPv6 literal; the scheme of a URL.
Site   == << <<"a">>, <<"b">> >>
Ip6    == << <<"[">>, Colon, Colon, Num(1), <<"]">> >>
Scheme == << <<"s">>, Colon, Slash2 >>
Path   == << Slash, <<"p">>, Slash2, <<"q">> >>

AuthLine   == << <<"auth">>, <<"base64", Name, Pass>>, CRLF >>
Headers(p) == << <<"header", 1>>, CRLF, <<p, 2>>, CRLF >>
HttpText(req, body) == << req, CRLF >> \o Headers("proxy") \o AuthLine \o <<CRLF>> \o body

Http(kind, req, body, asked) ==
  One(HttpText(req, body)) @@ [asked |-> asked, user |-> Name, pass |-> Pass] @@ Base(kind)

Connect(t, asked) == Http("connect", <<"connect", t>>, << >>, asked)

\* A request for a URL, whose origin is to get path and the headers without the proxy's.
Get(t, host, port, path, body) ==
  Http("http", <<"get", t>>, body,
       [target |-> host \o <<Num(port)>>,
        line   |-> << <<"get", path>>, CRLF >> \o Headers("header") \o <<CRLF>> \o body])

Body(k) == [i \in 1 .. k |-> <<"body", i>>]

\* Plain targets, with a text as long as the buffer among them, ...
PlainHttp ==
  { Connect(Site \o <<Colon, Num(443)>>, [target |-> Site \o <<Num(443)>>, line |-> << >>]),
    Get(Scheme \o Site, Site, 80, <<Slash>>, << >>),
    Get(Scheme \o Site \o Path, Site, 80, Path, Body(1)),
    Get(Scheme \o Site \o <<Colon, Num(8080)>> \o Path, Site, 8080, Path, Body(HttpBuf - 10)) }

\* ... and others: literals, a port too large, no port, user information, a path alone,
\* a URL without a host, "*", nothing, and a line of two words.
OtherHttp ==
  { Connect(Ip6 \o <<Colon, Num(443)>>, [target |-> Ip6 \o <<Num(443)>>, line |-> << >>]),
    Connect(Site \o <<Colon, Num(65537)>>, Nil), Connect(Site, Nil),
    Get(Scheme \o Ip6 \o Path, Ip6, 80, Path, << >>),
    Get(Scheme \o << <<"u">>, Colon, <<"w">>, <<"@">> >> \o Site, Site, 80, <<Slash>>, << >>),
    Http("http", <<"get", Path>>, << >>, Nil),
    Http("http", <<"get", Scheme>>, << >>, Nil),
    Http("http", <<"get", << <<"*">> >> >>, << >>, Nil),
    Http("http", <<"get", << >> >>, << >>, Nil),
    Http("http", <<"short">>, << >>, Nil) }

HttpScripts == PlainHttp \cup OtherHttp

\* Clients that do not wait for the answers, and some from elsewhere.
MCScripts ==
  LET patient == UdpScripts \cup Socks5Scripts \cup Socks4Scripts \cup HttpScripts
  IN  patient
      \cup { [s EXCEPT !.patient = FALSE] : s \in {t \in Socks5Scripts : Len(t.bytes) < 26} }
      \cup { [s EXCEPT !.addr = "wan"] : s \in {t \in Socks4Scripts : Len(t.bytes) < 26} }

ASSUME ScriptsWellFormed == \A s \in MCScripts : WellFormed(s)
ASSUME UsersNamed        == \A c \in MCConfigs : Named(c.users)
=============================================================================
