------------------------------ MODULE MCEvents ------------------------------
(***************************************************************************)
(* What a tora program serves requests with, run side by side: the loop of *)
(* events, the parser of HTTP messages and the escapes of URIs.  A         *)
(* behaviour is of one part; the others stay as they begin.  The parser is *)
(* there with many header lines and no path, and with a path and one line. *)
(***************************************************************************)
EXTENDS EventLoop

CONSTANTS Parts, Headers, LongHeaders, MaxText

MCEnvName == [n \in Headers |-> IF n \in {"X-A", "x_a"} THEN "HTTP_X_A" ELSE IF n = "Content-Type" THEN "CONTENT_TYPE" ELSE "HTTP_LONG"]
MCLowerName == [n \in Headers |-> IF n = "X-A" THEN "x-a" ELSE IF n = "Content-Type" THEN "content-type" ELSE n]

VARIABLES
  part,
  kind, path, headers, i, hash, res_headers, last_value, ret,  \* of Http
  src, escaped, back                                           \* of Escapes

httpVars == << kind, path, headers, i, hash, res_headers, last_value, ret >>
escapesVars == << src, escaped, back >>

Lines == INSTANCE Http WITH Names <- Headers, EnvName <- MCEnvName, LowerName <- MCLowerName,
                            Long <- LongHeaders, MaxHeaders <- 4, MaxPath <- 0
Requests1 == INSTANCE Http WITH Names <- {"X-A"}, EnvName <- MCEnvName, LowerName <- MCLowerName,
                                Long <- {}, MaxHeaders <- 1, MaxPath <- 4
Uri == INSTANCE Escapes WITH Bytes <- 0..255, MaxLength <- MaxText

PartsInit == part \in Parts /\ Init /\ Lines!Init /\ Uri!Init

LoopStep    == part = "loop" /\ Next /\ UNCHANGED << part, httpVars, escapesVars >>
LinesStep   == part = "lines" /\ Lines!Next /\ UNCHANGED << part, vars, escapesVars >>
PathsStep   == part = "paths" /\ Requests1!Next /\ UNCHANGED << part, vars, escapesVars >>
EscapesStep == part = "escapes" /\ Uri!Next /\ UNCHANGED << part, vars, httpVars >>

PartsNext == LoopStep \/ LinesStep \/ PathsStep \/ EscapesStep

PartsSpec == PartsInit /\ [][PartsNext]_<< part, vars, httpVars, escapesVars >> /\ Fairness

-----------------------------------------------------------------------------
(* Properties, whose parts are stated in the modules. *)

\* http.cc:183-298: the lines of headers are combined by name, in a response each header is there
\* with its own lines unless one is skipped; the path is taken apart and decoded, or the request refused.
MessageTaken ==
  /\ Lines!HeadersCombined /\ Requests1!PathSplit
  /\ (\A n \in DOMAIN headers : headers[n] \notin LongHeaders) => Lines!LinesWithTheirs

\* nanouri.h:84-126: every text comes back from its escaped form (see Escapes).
ComesBack == Uri!ComesBack
=============================================================================
