----------------------------- MODULE MCHandles -----------------------------
(***************************************************************************)
(* What a program has from the kernel, part by part: who owns a descriptor *)
(* (Handles), what becomes of the bytes of a file (Files) and of a socket  *)
(* (Sockets).  A behaviour is of one part; the others stay as they begin.  *)
(***************************************************************************)
EXTENDS Handles

CONSTANTS
  Parts,   \* those to check: "handles", "files", "sockets"
  FileTexts, FileModes, Offsets, StreamBuffer, UsesClosed, MaxLength,           \* of Files
  HostAddress, EmptyHost, Ports, Message, ReadBuffer, Lengths, MaxSent          \* of Sockets

VARIABLES
  part,
  disk, platter, meant, files, last, file_mode,                  \* of Files
  littleEndian, asked, address, given, sock, peer, inbox, sent,  \* of Sockets
  got, call, bbuf, rest, taken, sock_mode

Fi == INSTANCE Files WITH
        Texts <- FileTexts, Modes <- FileModes, BufferSize <- StreamBuffer, mode <- file_mode

So == INSTANCE Sockets WITH BufferSize <- ReadBuffer, mode <- sock_mode

ASSUME PartsAssumption == Fi!FilesAssumption /\ So!SocketsAssumption

fileVars == << disk, platter, meant, files, last, file_mode >>
sockVars == << littleEndian, asked, address, given, sock, peer, inbox, sent,
               got, call, bbuf, rest, taken, sock_mode >>

PartsInit ==
  /\ part \in Parts /\ Init
  /\ Fi!Init /\ (part = "files" \/ disk = << >>)
  /\ So!Init /\ (part = "sockets" \/ littleEndian)

HandlesStep == part = "handles" /\ Next /\ UNCHANGED << part, fileVars, sockVars >>
FilesStep   == part = "files" /\ Fi!Next /\ UNCHANGED << part, vars, sockVars >>
SocketsStep == part = "sockets" /\ So!Next /\ UNCHANGED << part, vars, fileVars >>

PartsNext == HandlesStep \/ FilesStep \/ SocketsStep

\* As in Sockets: a read(2) that can go on goes on.
PartsSpec ==
  /\ PartsInit /\ [][PartsNext]_<< part, vars, fileVars, sockVars >>
  /\ WF_sockVars(part = "sockets" /\ So!ReadStep /\ UNCHANGED << part, vars, fileVars >>)

-----------------------------------------------------------------------------
(* Values for the run. *)

\* Bytes 0 and 255 are among those written; a stream's buffer is smaller than two texts.
MCTexts == {<< 0 >>, << 255, 7 >>}

MCHosts == [localhost |-> << 127, 0, 0, 1 >>, far |-> << 192, 168, 7, 250 >>]

MCMessage == << "m", "n", "o" >>

MCOffsets == -1..1

-----------------------------------------------------------------------------
(* Properties, whose parts are stated in the modules. *)

\* FileValue, Socket and Dir: nothing open is without an owner; when no object is open for writing
\* the file is what was written, and a stream is closed once; a socket is connected where it was
\* asked to, its reads give the stream of the peer once, and its writes the message.
NothingLost ==
  /\ NoneLost
  /\ Fi!ClosedIsWritten /\ Fi!ClosedOnce
  /\ So!GivenWhatWasAsked /\ So!StreamKept /\ So!WritesMessage

\* file_getc (file.cc:138) takes every byte for a character and gives undef at the end only;
\* read() of a socket without a length returns at the end of the stream only (socket.cc:176-201).
ReadsToTheEnd ==
  [][(part = "files" => Fi!GetcStep) /\ (part = "sockets" => So!ReadEndsStep)]_<< fileVars, sockVars >>

\* It does return when the peer closes or resets (socket.cc:176-201).
ReadReturns == call = "reading" /\ peer # "open" ~> call = "none"
=============================================================================
