-------------------------------- MODULE Files --------------------------------
(***************************************************************************)
(* File objects over one file: every operation of object/file.cc and       *)
(* value/file.h with the stream of stdio below it, which holds back what   *)
(* is written and remembers that the end was met.                          *)
(***************************************************************************)
EXTENDS Integers, Sequences, SequencesExt

CONSTANTS
  Texts,         \* what programs write: sequences of bytes
  Modes,         \* with which they open: "rb" (the default), "w", "a", "r+"
  Offsets,       \* of seek
  BufferSize,    \* of a stream
  UsesClosed,    \* whether programs use a file after they have closed it
  MaxLength      \* bound of the file

FilesAssumption ==
  /\ \A t \in Texts : t \in Seq(0..255)
  /\ Modes \subseteq {"rb", "w", "a", "r+"} /\ Offsets \subseteq Int
  /\ BufferSize \in Nat /\ MaxLength \in Nat /\ UsesClosed \in BOOLEAN

VARIABLES
  disk,      \* the file as the kernel has it
  platter,   \* as it was at the last fsync
  meant,     \* history: the file as the writes mean it
  files,     \* two File objects, by their streams
  last,      \* history: what the last operation returned, if it was a read
  mode       \* run or undefined (NULL or a closed stream given to stdio)

vars == << disk, platter, meant, files, last, mode >>

Objects == {1, 2}

\* pos: where the next byte is read or, after the bytes of out, written.
Stream(m, at) == [fp |-> "open", mode |-> m, pos |-> at, out |-> << >>, eof |-> FALSE]

NoStream == [Stream("rb", 0) EXCEPT !.fp = "absent"]

Init ==
  /\ disk \in {<< >>, << 0, 200 >>} /\ platter = disk /\ meant = disk
  /\ files = [f \in Objects |-> NoStream] /\ last = << >> /\ mode = "run"

Returns(value) == last' = value

Threw == << -1 >>   \* no byte
Undef == << -2 >>

Writable(f) == files[f].mode # "rb"
Readable(f) == files[f].mode \in {"rb", "r+"}

-----------------------------------------------------------------------------
(* stdio. *)

\* The bytes of text over those of content from pos on, after zeros where it has none.
Overlay(content, pos, text) ==
  [k \in 1..(IF text = << >> THEN Len(content)
             ELSE IF pos + Len(text) > Len(content) THEN pos + Len(text) ELSE Len(content)) |->
     IF k > pos /\ k <= pos + Len(text) THEN text[k - pos]
     ELSE IF k <= Len(content) THEN content[k]
     ELSE 0]

\* Streams opened with "a" write at the end, wherever they are.
WritesAt(f, content) == IF files[f].mode = "a" THEN Len(content) ELSE files[f].pos

Flushed(f) == Overlay(disk, WritesAt(f, disk), files[f].out)

AfterFlush(f) ==
  [files[f] EXCEPT !.out = << >>,
     !.pos = IF files[f].out = << >> THEN @ ELSE WritesAt(f, disk) + Len(files[f].out)]

-----------------------------------------------------------------------------
(* Opening and closing. *)

\* One object at a time is open for writing.
File_open(f, m) ==
  /\ mode = "run" /\ files[f].fp = "absent"
  /\ m # "rb" => \A g \in Objects : files[g].fp = "open" => ~Writable(g)
  /\ disk' = IF m = "w" THEN << >> ELSE disk
  /\ meant' = IF m = "w" THEN << >> ELSE meant
  /\ files' = [files EXCEPT ![f] = Stream(m, 0)]
  /\ Returns(<< >>) /\ UNCHANGED << platter, mode >>

\* FileValue::close sets the pointer to NULL.
Closed(f) == [AfterFlush(f) EXCEPT !.fp = "null"]

\* FileValue::close: fclose writes what is held back.
Close(f) ==
  CASE files[f].fp = "open" ->
         disk' = Flushed(f) /\ files' = [files EXCEPT ![f] = Closed(f)] /\ UNCHANGED mode
    [] files[f].fp = "null" -> UNCHANGED << disk, files, mode >>
    [] OTHER -> mode' = "undefined" /\ UNCHANGED << disk, files >>

file_close(f) ==
  /\ mode = "run" /\ files[f].fp # "absent"
  /\ Close(f) /\ Returns(<< >>) /\ UNCHANGED << platter, meant >>

\* ~FileValue: the variable gets another value.
Destroyed(f) ==
  IF files[f].fp = "freed" THEN mode' = "undefined" /\ UNCHANGED << disk, files >>
  ELSE /\ disk' = IF files[f].fp = "open" THEN Flushed(f) ELSE disk
       /\ files' = [files EXCEPT ![f] = NoStream] /\ UNCHANGED mode

Drop(f) ==
  /\ mode = "run" /\ files[f].fp # "absent"
  /\ Destroyed(f) /\ Returns(<< >>) /\ UNCHANGED << platter, meant >>

-----------------------------------------------------------------------------
(* The operations that hand FP(self) to stdio. *)

\* A file that is closed has no stream to give.
FP(f, operation) ==
  /\ mode = "run" /\ files[f].fp # "absent"
  /\ IF files[f].fp = "open" THEN operation /\ UNCHANGED mode
     ELSE UsesClosed /\ mode' = "undefined" /\ UNCHANGED << disk, platter, meant, files, last >>

Write(f, text) ==
  IF ~Writable(f) THEN Returns(Threw) /\ UNCHANGED << disk, platter, meant, files >>
  ELSE LET out == files[f].out \o text
       IN  /\ meant' = Overlay(meant, WritesAt(f, meant)
                                + (IF files[f].mode = "a" THEN 0 ELSE Len(files[f].out)), text)
           /\ Len(meant') <= MaxLength
           /\ IF Len(out) <= BufferSize
              THEN files' = [files EXCEPT ![f].out = out] /\ UNCHANGED disk
              ELSE /\ disk' = Overlay(disk, WritesAt(f, disk), out)
                   /\ files' = [files EXCEPT ![f].out = << >>,
                                             ![f].pos = WritesAt(f, disk) + Len(out)]
           /\ Returns(<< >>) /\ UNCHANGED platter

file_write(f, text) == FP(f, Write(f, text))

file_flush(f) == FP(f, /\ disk' = Flushed(f) /\ files' = [files EXCEPT ![f] = AfterFlush(f)]
                       /\ Returns(<< >>) /\ UNCHANGED << platter, meant >>)

\* A stream reads on only after what it holds back is written (a seek or a flush comes
\* between writing and reading in any legal program); the end, once met, stays.
MayRead(f) == files[f].out = << >>

\* c >= 0, which the EOF of fgetc is not.
IsCharacter(c) == c >= 0

Ends(f) == files[f].eof \/ files[f].pos >= Len(disk)

file_getc(f) == MayRead(f) /\ FP(f,
  /\ UNCHANGED << disk, platter, meant >>
  /\ CASE ~Readable(f) -> Returns(Threw) /\ UNCHANGED files
       [] Readable(f) /\ Ends(f) -> Returns(Undef) /\ files' = [files EXCEPT ![f].eof = TRUE]
       [] OTHER -> LET c == disk[files[f].pos + 1]
                   IN  /\ files' = [files EXCEPT ![f].pos = @ + 1]
                       /\ Returns(IF IsCharacter(c) THEN << c >> ELSE Threw))

SlurpResult(f) == IF Ends(f) THEN << >> ELSE SubSeq(disk, files[f].pos + 1, Len(disk))

\* fread in blocks until there is none, which must be because of the end.
file_slurp(f) == MayRead(f) /\ FP(f,
  /\ UNCHANGED << disk, platter, meant >>
  /\ IF ~Readable(f) THEN Returns(Threw) /\ UNCHANGED files
     ELSE /\ Returns(SlurpResult(f))
          /\ files' = [files EXCEPT ![f].eof = TRUE,
                         ![f].pos = IF Ends(f) THEN @ ELSE Len(disk)])

Whence(f, whence) ==
  CASE whence = "SEEK_SET" -> 0
    [] whence = "SEEK_CUR" -> AfterFlush(f).pos
    [] whence = "SEEK_END" -> Len(Flushed(f))

\* fseek writes what is held back and forgets that the end was met.
file_seek(f, offset, whence) == FP(f,
  LET to == Whence(f, whence) + offset
  IN  /\ to <= MaxLength
      /\ disk' = Flushed(f)
      /\ files' = [files EXCEPT ![f] = IF to < 0 THEN AfterFlush(f)
                                       ELSE [AfterFlush(f) EXCEPT !.pos = to, !.eof = FALSE]]
      /\ Returns(IF to < 0 THEN Threw ELSE << >>)
      /\ UNCHANGED << platter, meant >>)

\* tell and fileno change nothing.
file_tell(f) == FP(f,
  /\ Returns(<< >>)
  /\ UNCHANGED << disk, platter, meant, files >>)

\* fsync of the descriptor: the stream is not asked.
file_sync(f) == FP(f,
  /\ platter' = disk /\ Returns(<< >>) /\ UNCHANGED << disk, meant, files >>)

Next == \E f \in Objects :
  \/ \E m \in Modes : File_open(f, m)
  \/ file_close(f) \/ Drop(f) \/ (\E t \in Texts : file_write(f, t)) \/ file_flush(f)
  \/ file_getc(f) \/ file_slurp(f) \/ file_tell(f) \/ file_sync(f)
  \/ \E o \in Offsets, w \in {"SEEK_SET", "SEEK_CUR", "SEEK_END"} : file_seek(f, o, w)

Spec == Init /\ [][Next]_vars

-----------------------------------------------------------------------------
(* Properties. *)

\* FileValue::close and ~FileValue (value/file.h:21-26): when no object is open for writing,
\* the file is what was written, by whatever way the objects went.
ClosedIsWritten ==
  mode = "run" /\ (\A f \in Objects : files[f].fp = "open" => ~Writable(f)) => disk = meant

\* A stream is closed once: what was closed is not given to stdio again by close or by the
\* destructor (value/file.h:25).
ClosedOnce == ~UsesClosed => mode = "run"

\* file_getc (file.cc:138): every byte is a character, undef comes at the end, and only a
\* stream that does not read throws.
GetcStep == \A f \in Objects :
  file_getc(f) /\ mode' = "run" /\ Readable(f) =>
    last' = IF Ends(f) THEN Undef ELSE << disk[files[f].pos + 1] >>

\* So it is for every call (file.cc:138).
GetcWalksToTheEnd == [][GetcStep]_vars

\* file.cc:187 "Syncs buffers and file.": after sync the file is safe as it was written.
SyncsBuffers == [][\A f \in Objects : file_sync(f) => platter' = meant]_vars
=============================================================================
