-------------------------------- MODULE Files --------------------------------
(***************************************************************************)
(* The handlers that answer other nodes with what is in files:             *)
(* FileSystemExchange and TasksExchange, and FileReadUtils, which reads a  *)
(* file character by character while a task goes on writing its log.       *)
(*                                                                         *)
(* There is one file in a directory, and one request.  Characters are of   *)
(* one byte, a line ends with NL; options that are not given are Undefined.*)
(***************************************************************************)
EXTENDS Integers, Sequences, FiniteSets, FiniteSetsExt, SequencesExt

CONSTANTS
  FileRequests,   \* [op, path, tail, offset, limit, unit, stats]
  MaxFile,        \* bound of the length of the file
  Block,          \* how much readByByte() reads
  DefaultTail, DefaultLimit

NL == "newline"
Zero == "zero"
Undefined == -1

\* The defaults are 50 and 10000; the options are numbers of lines and of bytes.
ASSUME FilesAssumption ==
  /\ DefaultTail \in Nat \ {0} /\ DefaultLimit \in Nat \ {0}
  /\ \A a \in FileRequests : {a.tail, a.offset, a.limit} \subseteq Nat \cup {Undefined}

VARIABLES
  file, there,    \* its characters, and whether it is still in its directory
  ask, place,        \* the request, and where its handler is
  size,           \* the size when it was looked at
  reader,         \* of tail() or less()
  descriptors,    \* how many are open
  reply           \* the response, and what comes out at the sender

fileVars == <<file, there, ask, place, size, reader, descriptors, reply>>
handling == <<file, there, ask>>

NoReply == [ok |-> FALSE, data |-> <<>>, stats |-> FALSE]
InitFiles ==
  /\ file = <<>> /\ there = TRUE
  /\ ask = [op |-> "none"] /\ place = "idle" /\ size = 0
  /\ reader = [lines |-> <<>>, chars |-> 0, count |-> 0, selected |-> 0, started |-> FALSE]
  /\ descriptors = 0 /\ reply = NoReply

-----------------------------------------------------------------------------
(* What else happens to the file *)

WriteFile(c) ==
  /\ there /\ Len(file) < MaxFile
  /\ file' = Append(file, c)
  /\ UNCHANGED <<there, ask, place, size, reader, descriptors, reply>>

\* Who has it open may go on reading.
DeleteFile ==
  /\ there /\ there' = FALSE
  /\ UNCHANGED <<file, ask, place, size, reader, descriptors, reply>>

-----------------------------------------------------------------------------
(* The handlers *)

ReadsFile(a) == a.op \in {"file", "logfile"}
\* Nothing is given back for what is not there, allowed or known.
Understands(a) == a.op \in {"file", "logfile", "logfile_path", "status", "runners", "running_tasks"}

MovesTo(to) == place' = to /\ UNCHANGED <<reply, handling>>
Responds(ok, data) ==
  /\ place' = "responded" /\ reply' = [NoReply EXCEPT !.ok = ok, !.data = data]
  /\ UNCHANGED handling
\* Slip: what rejects after handleRequest() has returned is not caught.
RejectsUnheard == place' = "rejected" /\ UNCHANGED <<reply, handling>>
RespondsError == Responds(FALSE, <<>>)

AskFor(a) ==
  /\ place = "idle" /\ place' = "asked" /\ ask' = a
  /\ UNCHANGED <<file, there, size, reader, descriptors, reply>>

\* handleRequest of both; what is not read from a file is had from elsewhere.
HandleRequest ==
  /\ place = "asked"
  /\ IF ~Understands(ask) THEN RespondsError
     ELSE IF ~ReadsFile(ask)
     THEN IF ask.op = "logfile_path" /\ ~there THEN RespondsError ELSE Responds(TRUE, <<ask.op>>)
     ELSE IF ask.path = "forbidden" \/ (ask.path = "file" /\ ~there) THEN RespondsError
     ELSE MovesTo("stat")
  /\ UNCHANGED <<size, reader, descriptors>>

\* Which options are given decides how the file is read.
Way(a) ==
  IF {a.tail, a.offset, a.limit} = {Undefined} THEN "whole"
  ELSE IF a.tail # Undefined THEN "exists"
  ELSE IF a.unit = "line" THEN "exists" ELSE "openBytes"

StatInfo ==
  /\ place = "stat"
  /\ IF ask.path = "directory" THEN MovesTo("list") ELSE IF there THEN MovesTo(Way(ask)) ELSE RespondsError
  /\ UNCHANGED <<size, reader, descriptors>>

\* handleRequestList: the names, then each with its stats
ListDirectory ==
  /\ place = "list"
  /\ IF there /\ ask.stats THEN MovesTo("listed")
     ELSE Responds(TRUE, IF there THEN <<"name">> ELSE <<>>)
  /\ UNCHANGED <<size, reader, descriptors>>

StatEach ==
  /\ place = "listed"
  /\ IF there THEN Responds(TRUE, <<"name and stats">>) ELSE RespondsError
  /\ UNCHANGED <<size, reader, descriptors>>

ReadWhole ==
  /\ place = "whole"
  /\ IF there THEN Responds(TRUE, file) ELSE RespondsError
  /\ UNCHANGED <<size, reader, descriptors>>

-----------------------------------------------------------------------------
(* FileReadUtils *)

\* existsSync, stat and open of tail() and less()
Exists ==
  /\ place = "exists"
  /\ IF there THEN MovesTo("size") ELSE RespondsError
  /\ UNCHANGED <<size, reader, descriptors>>
Sized ==
  /\ place = "size"
  /\ IF there THEN MovesTo("open") /\ size' = Len(file) ELSE RespondsError /\ UNCHANGED size
  /\ UNCHANGED <<reader, descriptors>>
Opened ==
  /\ place = "open"
  /\ IF there
     THEN MovesTo(IF ask.tail # Undefined THEN "tail" ELSE "less") /\ descriptors' = descriptors + 1
     ELSE RespondsError /\ UNCHANGED descriptors
  /\ UNCHANGED <<size, reader>>

Or(value, default) == IF value \in {Undefined, 0} THEN default ELSE value
NewLines(c) == IF c = NL THEN 1 ELSE 0

\* Slip: the end of the file is where it is now.
PreviousNow(chars) == file[Len(file) - chars]
\* readPreviousChar
PreviousChar(chars) == file[size - chars]

TailDone == Len(reader.lines) >= size \/ reader.count >= Or(ask.tail, DefaultTail)

TailRead ==
  /\ place = "tail" /\ ~TailDone
  /\ LET c == PreviousChar(reader.chars)
     IN reader' = [reader EXCEPT !.lines = <<c>> \o @, !.chars = @ + 1,
                                 !.count = IF reader.lines # <<>> THEN @ + NewLines(c) ELSE @]
  /\ MovesTo("tail") /\ UNCHANGED <<size, descriptors>>

Closes == descriptors' = descriptors - 1

TailEnd ==
  /\ place = "tail" /\ TailDone
  /\ LET l == reader.lines
     IN Responds(TRUE, IF l # <<>> /\ l[1] = NL THEN Tail(l) ELSE l)
  /\ Closes /\ UNCHANGED <<size, reader>>

LessDone == (~reader.started /\ reader.lines # <<>>) \/ reader.chars >= size

InLines(r) == r.count >= Or(ask.offset, 0) /\ r.selected < Or(ask.limit, DefaultLimit)

LessRead ==
  /\ place = "less" /\ ~LessDone
  /\ LET c == file[reader.chars + 1]  started == InLines(reader)
     IN reader' = [lines |-> IF started THEN Append(reader.lines, c) ELSE reader.lines,
                   chars |-> reader.chars + 1, count |-> reader.count + NewLines(c),
                   selected |-> reader.selected + (IF started THEN NewLines(c) ELSE 0),
                   started |-> started]
  /\ MovesTo("less") /\ UNCHANGED <<size, descriptors>>

\* Without its last character, whatever that is.
WithoutLast(s) == SubSeq(s, 1, Len(s) - 1)
LessEnd ==
  /\ place = "less" /\ LessDone
  /\ Responds(TRUE, WithoutLast(reader.lines))
  /\ Closes /\ UNCHANGED <<size, reader>>

\* readByByte never closes the file.
OpenBytes ==
  /\ place = "openBytes"
  /\ IF there THEN MovesTo("sizeBytes") /\ descriptors' = descriptors + 1
     ELSE RespondsError /\ UNCHANGED descriptors
  /\ UNCHANGED <<size, reader>>
SizeBytes ==
  /\ place = "sizeBytes"
  /\ IF there THEN MovesTo("readBytes") /\ size' = Len(file) ELSE RespondsError /\ UNCHANGED size
  /\ UNCHANGED <<reader, descriptors>>
\* A block from the beginning goes into a buffer of the length, which must have room.
ReadBytes ==
  LET from == Or(ask.offset, 0)
      rest == size - from
      asked == Or(ask.limit, rest)
      length == IF asked > rest THEN rest ELSE asked
  IN /\ place = "readBytes"
     /\ IF length < Block THEN RespondsError
        ELSE Responds(TRUE, [i \in 1..length |->
                               IF i <= Block /\ i <= Len(file) THEN file[i] ELSE Zero])
     /\ UNCHANGED <<size, reader, descriptors>>

-----------------------------------------------------------------------------

\* Lines are text, which is nothing if it is empty; what is read otherwise is a buffer.
HasData == reply.ok /\ (Way(ask) = "exists" => reply.data # <<>>)

\* handleResponse of the sender: stats come only with data of a file.
HandleResponse ==
  /\ place = "responded" /\ place' = "received"
  /\ reply' = [reply EXCEPT !.stats = ask.op = "file" /\ ask.stats /\ ask.path = "file" /\ HasData]
  /\ UNCHANGED <<handling, size, reader, descriptors>>

Handles ==
  \/ HandleRequest \/ StatInfo \/ ListDirectory \/ StatEach \/ ReadWhole
  \/ Exists \/ Sized \/ Opened \/ TailRead \/ TailEnd \/ LessRead \/ LessEnd
  \/ OpenBytes \/ SizeBytes \/ ReadBytes \/ HandleResponse

NextFiles ==
  \/ \E c \in {"a", NL} : WriteFile(c)
  \/ DeleteFile
  \/ \E a \in FileRequests : AskFor(a)
  \/ Handles

FairFiles == WF_fileVars(Handles)

SpecFiles == InitFiles /\ [][NextFiles]_fileVars /\ FairFiles

-----------------------------------------------------------------------------

LineOf(s, i) == Cardinality({j \in 1..(i - 1) : s[j] = NL})

\* The last n lines; without the first of the file when that is empty.
LastLines(s, n) ==
  LET starts == {i \in DOMAIN s : i = 1 \/ s[i - 1] = NL}
      first == Min({i \in starts : Cardinality({j \in starts : j >= i}) <= n})
  IN IF s = <<>> THEN <<>>
     ELSE SubSeq(s, IF first = 1 /\ s[1] = NL THEN 2 ELSE first, Len(s))

\* The lines number from, .. from + n - 1.
Lines(s, from, n) ==
  LET chars == {i \in DOMAIN s : LineOf(s, i) \in from..(from + n - 1)}
  IN IF chars = {} THEN <<>> ELSE SubSeq(s, Min(chars), Max(chars))

\* However much a task writes meanwhile, and even if the log is deleted, the lines that are
\* given back are those the file had when its size was looked at, and the file is closed.
ReadsAreExact ==
  (place \in {"responded", "received"} /\ ReadsFile(ask) /\ ask.path = "file" /\ reply.ok) =>
    LET then == SubSeq(file, 1, size)
    IN IF ask.tail # Undefined
       THEN reply.data = LastLines(then, Or(ask.tail, DefaultTail)) /\ descriptors = 0
       ELSE Way(ask) = "exists" =>
              /\ reply.data = WithoutLast(Lines(then, Or(ask.offset, 0), Or(ask.limit, DefaultLimit)))
              /\ descriptors = 0

\* A request is answered, with data or an error, wherever reading it fails and whatever is
\* written in the meantime.
RequestsAnswered == place = "asked" ~> place = "received"
=============================================================================
