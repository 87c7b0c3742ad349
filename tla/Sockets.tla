------------------------------- MODULE Sockets -------------------------------
(***************************************************************************)
(* One socket of a program (ext/Socket) and what is at the other end: it   *)
(* connects, or binds, listens and accepts; then bytes go both ways while  *)
(* the kernel takes and gives them in pieces and the peer closes or resets.*)
(***************************************************************************)
EXTENDS Integers, Sequences, SequencesExt

CONSTANTS
  HostAddress,   \* what inet_aton(3) and gethostbyname(3) know: name -> four bytes
  EmptyHost,     \* the name without a character
  Ports,         \* ports the program asks for
  Message,       \* the bytes the program writes, in a loop over what is left
  BufferSize,    \* of read(), 4096
  Lengths,       \* for read(len)
  MaxSent        \* bound: bytes the peer sends

SocketsAssumption ==
  /\ \A h \in DOMAIN HostAddress : HostAddress[h] \in [1..4 -> 0..255]
  /\ Ports \subseteq 0..256 * 256 - 1 /\ BufferSize \in Nat \ {0} /\ Lengths \subseteq Nat /\ MaxSent \in Nat
  /\ EmptyHost \notin DOMAIN HostAddress /\ Message \in Seq(ToSet(Message))

VARIABLES
  littleEndian,   \* of the machine
  asked,          \* history: the host and port of the address the program made last
  address,        \* the sockaddr_in it made, in bytes: two of the port, four of the host
  given,          \* history: the address bind or connect gave to the kernel
  sock,           \* none, fresh, bound, listening, connected or closed
  peer,           \* absent, open, closed or reset
  inbox,          \* bytes of the peer in the kernel
  sent,           \* history: how many bytes the peer has sent, 1, 2, ...
  got,            \* history: bytes that reads have returned
  call,           \* none, or reading: read() without a length is in its loop
  bbuf,           \* bytes of that read()
  rest,           \* of the Message, still to write
  taken,          \* bytes of the program the kernel has taken
  mode            \* run, aborted (assertion on a returned exception), killed (signal) or out_of_range (C++ exception)

network == << peer, inbox, sent >>
naming  == << littleEndian, asked, address, given >>
reading == << got, call, bbuf >>
writing == << rest, taken >>
vars == << naming, sock, network, reading, writing, mode >>

None == << >>

Init ==
  /\ littleEndian \in BOOLEAN /\ asked = None /\ address = None /\ given = None
  /\ sock = "none" /\ peer = "absent" /\ inbox = << >> /\ sent = 0
  /\ got = << >> /\ call = "none" /\ bbuf = << >> /\ rest = Message /\ taken = << >> /\ mode = "run"

\* The program has the interpreter: no native is blocked.
Ready == mode = "run" /\ call = "none"

-----------------------------------------------------------------------------
(* Addresses. *)

\* A number is the sequence of its bytes, the highest first.  In memory they may be the
\* other way round; htons and htonl give the number that is in memory as this one is written.
InMemory(number) == IF littleEndian THEN Reverse(number) ELSE number

NetworkOrder(number) == IF littleEndian THEN Reverse(number) ELSE number

PortNumber(port) == << port \div 256, port % 256 >>

\* ip.at(0) << 24 | ip.at(1) << 16 | ip.at(2) << 8 | ip.at(3)
HostNumber(ip) == << ip[1], ip[2], ip[3], ip[4] >>

\* The port and the address as sockaddr_in stores them.
SockaddrBytes(port, ip) ==
  InMemory(NetworkOrder(PortNumber(port))) \o InMemory(NetworkOrder(HostNumber(ip)))

\* Socket.sockaddr_in(port, Socket.inet_aton(host)).  A name nobody knows gives undef, which
\* as a text is no address; the empty name has no first character to look at.
sock_sockaddr_in(port, host) ==
  /\ Ready /\ sock \in {"none", "fresh"}
  /\ CASE host \in DOMAIN HostAddress ->
            /\ address' = SockaddrBytes(port, HostAddress[host])
            /\ asked' = << host, port >> /\ UNCHANGED mode
       [] host = EmptyHost -> mode' = "out_of_range" /\ UNCHANGED << address, asked >>
       [] OTHER -> mode' = "aborted" /\ UNCHANGED << address, asked >>
  /\ UNCHANGED << littleEndian, given, sock, network, reading, writing >>

Hosts == DOMAIN HostAddress \union {EmptyHost, "unknown"}

-----------------------------------------------------------------------------
(* Setting up.  What the kernel refuses is thrown by socket and bind and returned by connect,
   listen and accept, to a caller that asserts not to see an exception. *)

sock_socket ==
  /\ Ready /\ sock = "none"
  /\ sock' = "fresh" /\ UNCHANGED << naming, network, reading, writing, mode >>

sock_sock_bind ==
  /\ Ready /\ sock = "fresh" /\ address # None
  /\ sock' = "bound" /\ given' = address
  /\ UNCHANGED << littleEndian, asked, address, network, reading, writing, mode >>

Refused == mode' = "aborted" /\ UNCHANGED << naming, sock, network, reading, writing >>

sock_sock_connect ==
  /\ Ready /\ sock = "fresh" /\ address # None
  /\ \/ /\ sock' = "connected" /\ peer' = "open" /\ given' = address
        /\ UNCHANGED << littleEndian, asked, address, inbox, sent, reading, writing, mode >>
     \/ Refused

sock_sock_listen ==
  /\ Ready /\ sock = "bound"
  /\ \/ sock' = "listening" /\ UNCHANGED << naming, network, reading, writing, mode >>
     \/ Refused

\* From here on the socket is the one accept returned.
sock_sock_accept ==
  /\ Ready /\ sock = "listening"
  /\ \/ sock' = "connected" /\ peer' = "open"
        /\ UNCHANGED << naming, inbox, sent, reading, writing, mode >>
     \/ Refused

sock_sock_close ==
  /\ Ready /\ sock \in {"fresh", "bound", "listening", "connected"}
  /\ sock' = "closed" /\ UNCHANGED << naming, network, reading, writing, mode >>

-----------------------------------------------------------------------------
(* The peer. *)

PeerSends ==
  /\ peer = "open" /\ sent < MaxSent
  /\ sent' = sent + 1 /\ inbox' = Append(inbox, sent + 1)
  /\ UNCHANGED << peer, naming, sock, reading, writing, mode >>

PeerCloses ==
  peer = "open" /\ peer' = "closed" /\ UNCHANGED << inbox, sent, naming, sock, reading, writing, mode >>

\* What is still in the kernel is lost.
PeerResets ==
  /\ peer = "open" /\ peer' = "reset" /\ inbox' = << >>
  /\ UNCHANGED << sent, naming, sock, reading, writing, mode >>

-----------------------------------------------------------------------------
(* Bytes. *)

\* A read(2) of n bytes that does not block: it takes a piece of what is there, of at most n.
Pieces(n) == {k \in 1..Len(inbox) : k <= n}

AtEnd == inbox = << >> /\ peer = "closed"
Fails == inbox = << >> /\ peer = "reset"

sock_read ==
  /\ Ready /\ sock = "connected"
  /\ call' = "reading" /\ bbuf' = << >>
  /\ UNCHANGED << naming, sock, network, got, writing, mode >>

\* Mutant: a read that does not fill the buffer ends the loop.
EndsShort(k) == k < BufferSize

\* Mutant: only an error ends the loop.
NeverEnds(k) == FALSE

\* ret == 0; any bytes at all continue.
EndsLoop(k) == k = 0

Returns(bytes) == got' = got \o bytes /\ call' = "none" /\ bbuf' = << >>

\* Mutant: the buffer of the last read(2) is what there is.
LastPiece(piece) == piece

\* bbuf += std::string(buf, ret)
Gathered(piece) == bbuf \o piece

\* An iteration of the loop.  An error throws away what has been read.
ReadStep ==
  /\ call = "reading" /\ mode = "run"
  /\ \/ \E k \in (IF AtEnd THEN {0} ELSE Pieces(BufferSize)) :
          LET read == Gathered(SubSeq(inbox, 1, k))
          IN  /\ IF EndsLoop(k) THEN Returns(read)
                 ELSE bbuf' = read /\ UNCHANGED << got, call >>
              /\ inbox' = SubSeq(inbox, k + 1, Len(inbox))
     \/ Fails /\ call' = "none" /\ bbuf' = << >> /\ UNCHANGED << inbox, got >>
  /\ UNCHANGED << peer, sent, naming, sock, writing, mode >>

\* read(len): one read(2), which waits for a byte if there is none.
ReadLength(n) ==
  /\ Ready /\ sock = "connected"
  /\ \/ \E k \in (IF AtEnd \/ n = 0 THEN {0} ELSE Pieces(n)) :
          /\ got' = got \o SubSeq(inbox, 1, k)
          /\ inbox' = SubSeq(inbox, k + 1, Len(inbox))
     \/ Fails /\ UNCHANGED << got, inbox >>
  /\ UNCHANGED << call, bbuf, peer, sent, naming, sock, writing, mode >>

\* IntValue(ret)
Written(text, k) == k

\* The program writes what is left until nothing is; write(2) takes a piece.  A peer that
\* is gone sends a signal, which nothing handles.
sock_write ==
  /\ Ready /\ sock = "connected" /\ rest # << >>
  /\ \/ \E k \in DOMAIN rest :
          /\ peer # "reset"
          /\ taken' = taken \o SubSeq(rest, 1, k)
          /\ rest' = SubSeq(rest, Written(rest, k) + 1, Len(rest))
          /\ UNCHANGED << naming, sock, network, reading, mode >>
     \/ peer # "open" /\ mode' = "killed" /\ UNCHANGED << naming, sock, network, reading, writing >>

-----------------------------------------------------------------------------
Next ==
  \/ \E host \in Hosts, port \in Ports : sock_sockaddr_in(port, host)
  \/ sock_socket \/ sock_sock_bind \/ sock_sock_connect \/ sock_sock_listen \/ sock_sock_accept
  \/ sock_sock_close \/ PeerSends \/ PeerCloses \/ PeerResets
  \/ sock_read \/ ReadStep \/ (\E n \in Lengths : ReadLength(n)) \/ sock_write

\* A read(2) that can go on goes on; the program and the peer may stop for ever.
Spec == Init /\ [][Next]_vars /\ WF_vars(ReadStep)

-----------------------------------------------------------------------------
(* Properties. *)

\* sockaddr_in (socket.cc:91), bind and connect: the kernel is given the address that was
\* asked for, highest byte first, on machines of either byte order and for bytes above 127.
GivenWhatWasAsked == given # None =>
  given = PortNumber(asked[2]) \o HostAddress[asked[1]]

\* sock_read (socket.cc:174): what the reads of any kind have returned and the kernel still
\* has is the stream of the peer, in its order, each byte once, unless a read threw.
StreamKept == peer # "reset" => got \o bbuf \o inbox = [k \in 1..sent |-> k]

\* read() without a length returns at the end of the stream only (socket.cc:176-201).
ReadEndsStep == call = "reading" /\ call' = "none" => peer # "open" /\ inbox' = << >>

\* So it is for every call (socket.cc:176-201).
ReadsToTheEnd == [][ReadEndsStep]_vars

\* It does return when the peer closes or resets.
ReadReturns == call = "reading" /\ peer # "open" ~> call = "none"

\* sock_write (socket.cc:149): the loop over the returned counts writes the message.
WritesMessage == taken \o rest = Message

\* socket.cc:172 "Read $len bytes from the $socket.": as long as the peer sends, read(len)
\* returns that many.
ReadsLength == [][\A n \in Lengths :
  ReadLength(n) /\ peer = "open" => Len(got') = Len(got) + n]_vars

\* socket.cc:126 "This function calls inet_aton(3) or gethostbyname(3).": one of them says
\* what a name is, whatever the name.
ResolverDecides == mode # "out_of_range"
=============================================================================
