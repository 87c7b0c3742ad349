-------------------------------- MODULE Http --------------------------------
(***************************************************************************)
(* HTTP::Parser (ext/HTTP/http.cc): what is made of a message that         *)
(* picohttpparser has taken apart, header line by header line.  A line     *)
(* without a name continues the header above it.                           *)
(***************************************************************************)
EXTENDS Integers, Sequences, SequencesExt

CONSTANTS
  Names,       \* header names as they are written
  EnvName,     \* their names in the hash of a request: HTTP_..., capitals, _ for -
  LowerName,   \* their names in the array of a response: small letters
  Long,        \* the names of more than MAX_HEADER_NAME_LEN characters
  MaxHeaders,  \* bound: header lines (MAX_HEADERS is 128)
  MaxPath      \* bound: characters of a path

VARIABLES
  kind,         \* "none", or the function that runs: "request", "response"
  path,         \* the path of the request, by characters
  headers,      \* what phr_parse_... found: the name of each line, or Continues
  i,            \* the line the loop is at
  hash,         \* of the request: key to value
  res_headers,  \* of the response: pairs of name and value
  last_value,   \* the key, or position of the pair, whose value was touched last; 0: NULL
  ret           \* "running", "ok", "failed"

vars == << kind, path, headers, i, hash, res_headers, last_value, ret >>

Continues == "continues"

\* A value is what was written to it: the numbers of header lines, and between them these.
Comma == 0
NewLine == -1

Empty == [k \in {} |-> << >>]
Set(f, k, v) == [x \in DOMAIN f \union {k} |-> IF x = k THEN v ELSE f[x]]

-----------------------------------------------------------------------------
(* The path: %, digits of hexadecimal numbers, and other characters. *)

Hex == {"0", "4"}
Characters == Hex \union {"%", "x", "?", "#"}
Paths == SeqOf(Characters, MaxPath)

\* The position of the first character like this, or the length of the text.
find_ch(s, ch) == LET at == {n \in DOMAIN s : s[n] = ch}
                  IN IF at = {} THEN Len(s) ELSE (CHOOSE n \in at : \A m \in at : n <= m) - 1

Failed == << "failed" >>
Nul == << "0", "0" >>

Digits(s, n) == n + 2 <= Len(s) /\ s[n+1] \in Hex /\ s[n+2] \in Hex

\* A character stands for itself, and for two digits, decoded.  Behind the text is a blank, ? or #.
url_decode(s) ==
  LET d[n \in 1..Len(s)+1] ==
        IF n > Len(s) THEN << >>
        ELSE IF s[n] # "%" THEN LET rest == d[n+1] IN IF rest = Failed THEN rest ELSE << << s[n] >> >> \o rest
        ELSE IF Digits(s, n)
        THEN LET rest == d[n+3] IN IF rest = Failed THEN rest ELSE << << s[n+1], s[n+2] >> >> \o rest
        ELSE Failed
  IN  d[1]

\* A C string ends at its first NUL.
CString(t) == IF Contains(t, Nul) THEN SubSeq(t, 1, (CHOOSE n \in DOMAIN t : t[n] = Nul /\ \A m \in 1..n-1 : t[m] # Nul) - 1)
              ELSE t

-----------------------------------------------------------------------------
Init ==
  /\ kind = "none" /\ path = << >> /\ headers = << >> /\ i = 1 /\ hash = Empty
  /\ res_headers = << >> /\ last_value = 0 /\ ret = "ok"

\* The first line of the headers has a name.
HeaderLines == {h \in SeqOf(Names \union {Continues}, MaxHeaders) : h # << >> => h[1] # Continues}

\* The entries that do not come from headers, in a hash that was cleared; its old content does not matter.
parse_http_request ==
  \E p \in Paths, h \in HeaderLines :
    LET before == SubSeq(p, 1, find_ch(p, "#"))
        question_at == find_ch(before, "?")
        decoded == url_decode(SubSeq(before, 1, question_at))
    IN  /\ kind = "none"
        /\ kind' = "request" /\ path' = p /\ headers' = h /\ i' = 1
        /\ IF decoded = Failed
           THEN hash' = Empty /\ ret' = "failed"
           ELSE /\ hash' = Set(Set(Set(Empty, "REQUEST_URI", p), "PATH_INFO", CString(decoded)),
                               "QUERY_STRING", SubSeq(before, question_at + 2, Len(before)))
                /\ ret' = "running"
        /\ UNCHANGED << res_headers, last_value >>

parse_http_response ==
  /\ kind = "none"
  /\ kind' = "response" /\ headers' \in HeaderLines /\ ret' = "running"
  /\ UNCHANGED << path, i, hash, res_headers, last_value >>

AtHeader(k) == kind = k /\ ret = "running" /\ i \in DOMAIN headers
ToNext == i' = i + 1 /\ UNCHANGED << kind, path, headers >>

Joined(old, line) == old \o << Comma, line >>

RequestHeader ==
  /\ AtHeader("request") /\ headers[i] \in Names \ Long
  /\ LET name == EnvName[headers[i]] IN
       /\ hash' = Set(hash, name, IF name \in DOMAIN hash THEN Joined(hash[name], i) ELSE << i >>)
       /\ last_value' = name
  /\ ToNext /\ UNCHANGED << res_headers, ret >>

RequestContinues ==
  /\ AtHeader("request") /\ headers[i] = Continues
  /\ hash' = [hash EXCEPT ![last_value] = Append(@, i)]
  /\ ToNext /\ UNCHANGED << res_headers, last_value, ret >>

RequestRefused ==
  /\ AtHeader("request") /\ headers[i] \in Long
  /\ hash' = Empty /\ ret' = "failed"
  /\ UNCHANGED << kind, path, headers, i, res_headers, last_value >>

\* Mutant: the element touched last is that of the first header.
FirstPair == 1

NewPair == Len(res_headers) + 1

ResponseHeader ==
  /\ AtHeader("response") /\ headers[i] \in Names \ Long
  /\ res_headers' = Append(res_headers, [name |-> LowerName[headers[i]], value |-> << i >>])
  /\ last_value' = NewPair
  /\ ToNext /\ UNCHANGED << hash, ret >>

\* "skip if name_len is too long"
ResponseSkips ==
  /\ AtHeader("response") /\ headers[i] \in Long
  /\ ToNext /\ UNCHANGED << hash, res_headers, last_value, ret >>

ResponseContinues ==
  /\ AtHeader("response") /\ headers[i] = Continues
  /\ IF last_value # 0
     THEN res_headers' = [res_headers EXCEPT ![last_value].value = @ \o << NewLine, i >>]
     ELSE UNCHANGED res_headers
  /\ ToNext /\ UNCHANGED << hash, last_value, ret >>

Ends ==
  /\ ret = "running" /\ i = Len(headers) + 1
  /\ ret' = "ok"
  /\ UNCHANGED << kind, path, headers, i, hash, res_headers, last_value >>

Next ==
  \/ parse_http_request \/ RequestHeader \/ RequestContinues \/ RequestRefused
  \/ parse_http_response \/ ResponseHeader \/ ResponseSkips \/ ResponseContinues
  \/ Ends

Spec == Init /\ [][Next]_vars

-----------------------------------------------------------------------------
(* Properties. *)

Done(k) == kind = k /\ ret = "ok"

\* The header a line belongs to.
Owner(n) == Max({m \in 1..n : headers[m] # Continues})
LinesOf(owners) == SelectSeq([n \in DOMAIN headers |-> n], LAMBDA n : Owner(n) \in owners)

\* HTTP_Parser_parse_http_request (http.cc:206-245): under the name of a header are all its lines,
\* in their order, those of headers written differently but with the same name too, with a comma
\* before each that is not the first and none before a continuing line.
HeadersCombined == Done("request") =>
  \A name \in {EnvName[n] : n \in Names} :
    LET owners == {n \in DOMAIN headers : headers[n] # Continues /\ EnvName[headers[n]] = name} IN
    IF owners = {} THEN name \notin DOMAIN hash
    ELSE hash[name] = FlattenSeq([n \in DOMAIN LinesOf(owners) |->
                        LET line == LinesOf(owners)[n] IN
                        IF n > 1 /\ line \in owners THEN << Comma, line >> ELSE << line >>])

\* HTTP_Parser_parse_http_request (http.cc:183-203): the path is taken apart at its first ? and #
\* and decoded, in full up to a NUL; a request with a % that no two digits follow is refused, and
\* what was set is taken back.
PathSplit == kind = "request" =>
  LET uri == SubSeq(path, 1, find_ch(path, "#"))
      info == SubSeq(uri, 1, find_ch(uri, "?"))
      bad == \E n \in DOMAIN info : info[n] = "%" /\ {info[m] : m \in (n+1..n+2) \intersect DOMAIN info} \ Hex # {}
      short == \E n \in DOMAIN info : info[n] = "%" /\ n + 2 > Len(info)
  IN  IF bad \/ short THEN ret = "failed" /\ hash = Empty
      ELSE ret # "failed" =>
             /\ hash["REQUEST_URI"] = path
             /\ uri \in {info, info \o << "?" >> \o hash["QUERY_STRING"]}
             /\ \/ FlattenSeq([n \in DOMAIN hash["PATH_INFO"] |->
                    LET c == hash["PATH_INFO"][n] IN IF Len(c) = 2 THEN << "%" >> \o c ELSE c]) = info
                \/ \E n \in DOMAIN info : SubSeq(info, n, n + 2) = << "%" >> \o Nul

\* HTTP_Parser_parse_http_response (http.cc:276-298), "skip if name_len is too long": each header
\* that is not skipped is there, in its order, with its own lines and no others.
LinesWithTheirs == Done("response") =>
  LET kept == SelectSeq([n \in DOMAIN headers |-> n], LAMBDA n : headers[n] \in Names \ Long) IN
  /\ Len(res_headers) = Len(kept)
  /\ \A p \in DOMAIN kept :
       /\ res_headers[p].name = LowerName[headers[kept[p]]]
       /\ SelectSeq(res_headers[p].value, LAMBDA n : n # NewLine) = LinesOf({kept[p]})
=============================================================================
